------------------------ MODULE TriggerOutbox_proofs ------------------------
(* Theorems of TriggerOutbox, for every fleet, table and set of declarations. *)
EXTENDS TriggerOutbox, WellFoundedInduction, TLAPS

-----------------------------------------------------------------------------
(* The operators of the model.                                             *)

\* A set of identifiers that is not empty has an oldest one.
LEMMA NatMinimum ==
    ASSUME NEW T \in SUBSET Nat, T # {}
    PROVE  \E x \in T : \A y \in T : x <= y
<1> DEFINE Less == {ss \in Nat \X Nat : ss[1] < ss[2]}
<1>1. IsWellFoundedOn(Less, Nat)
  BY NatLessThanWellFounded DEF OpToRel
<1>2. PICK x \in T : \A y \in T : ~ (<<y, x>> \in Less)
  <2> HIDE DEF Less
  <2> QED BY <1>1, WFMin
<1>3. ASSUME NEW y \in T PROVE x <= y
  <2>1. x \in Nat /\ y \in Nat
    OBVIOUS
  <2>2. ~ (y < x)
    BY <1>2, <2>1
  <2> QED BY <2>1, <2>2
<1> QED BY <1>3

\* The row under way is one of the rows of the pass.
LEMMA OldestIsARow ==
    ASSUME NEW rows \in SUBSET Events, rows # {}
    PROVE  Oldest(rows) \in rows
BY NatMinimum, ConstantsAssumption DEF Oldest

\* The message id of a delivery is the delivery, whoever publishes it.
LEMMA MsgIdIsTheDelivery ==
    ASSUME NEW d \in Deliveries, NEW p \in Processes
    PROVE  MsgId(p, d) = d
BY DEF MsgId, Deliveries

-----------------------------------------------------------------------------
(* Type correctness.                                                       *)

\* What a row asks for is deliveries of that row, to declarations it concerns.
LEMMA MatchesType ==
    \A e : MatchesOf(e) \subseteq Deliveries /\ \A d \in MatchesOf(e) : d[2] = e
BY DEF MatchesOf

\* The initial state has the declared types.
LEMMA InitType == Init => TypeOK
BY ConstantsAssumption DEF Init, TypeOK

\* A pass that ends leaves its part of the state well typed.
LEMMA EndPassType ==
    ASSUME TypeOK, NEW p \in Processes, EndPass(p)
    PROVE  /\ pc' \in [Processes -> {"idle", "read", "ensure", "publish", "forget"}]
           /\ age' \in [Processes -> 0..LockHeldFor]
           /\ batch' \in [Processes -> SUBSET Events]
           /\ todo' \in [Processes -> SUBSET Deliveries]
           /\ everyone' \in [Processes -> BOOLEAN]
           /\ published' \in [Processes -> SUBSET Events]
BY ConstantsAssumption DEF EndPass, TypeOK

\* So does one that goes on to the rows that are left.
LEMMA NextRowType ==
    ASSUME TypeOK, NEW p \in Processes, NEW left \in SUBSET Events,
           NEW leaving \in SUBSET Events, NextRow(p, left, leaving)
    PROVE  /\ pc' \in [Processes -> {"idle", "read", "ensure", "publish", "forget"}]
           /\ age' \in [Processes -> 0..LockHeldFor]
           /\ batch' \in [Processes -> SUBSET Events]
           /\ todo' \in [Processes -> SUBSET Deliveries]
           /\ everyone' \in [Processes -> BOOLEAN]
           /\ published' \in [Processes -> SUBSET Events]
BY MatchesType DEF NextRow, TypeOK

\* Storing a delivery leaves the stream well typed and every copy where it was.
LEMMA StoreType ==
    ASSUME TypeOK, NEW p \in Processes, NEW d \in Deliveries, Store(p, d)
    PROVE  /\ window' \subseteq Deliveries
           /\ copies' \in [Deliveries -> Nat]
           /\ closings' \subseteq Deliveries
           /\ \A c \in Deliveries : copies'[c] >= copies[c]
BY MsgIdIsTheDelivery DEF Store, TypeOK

\* Remembering a declaration leaves what is remembered well typed.
LEMMA RememberType ==
    ASSUME TypeOK, NEW p \in Processes, NEW d \in Deliveries, Remember(p, d)
    PROVE  /\ taken' \in [Processes -> [Events -> SUBSET Triggers]]
           /\ todo' \in [Processes -> SUBSET Deliveries]
           /\ everyone' \in [Processes -> BOOLEAN]
<1>1. d[1] \in Triggers
  BY DEF Deliveries
<1>2. taken' \in [Processes -> [Events -> SUBSET Triggers]]
  <2>1. taken[p] \in [Events -> SUBSET Triggers]
    BY DEF TypeOK
  <2>2. [taken[p] EXCEPT ![Current(p)] = @ \cup {d[1]}] \in [Events -> SUBSET Triggers]
    BY <1>1, <2>1
  <2> QED BY <2>2 DEF Remember, TypeOK
<1>3. todo' \in [Processes -> SUBSET Deliveries]
  BY DEF Remember, TypeOK
<1> QED BY <1>2, <1>3 DEF Remember, TypeOK

\* Every step keeps the declared types.
LEMMA NextType == TypeOK /\ UnderWay /\ [Next]_vars => TypeOK'
<1> SUFFICES ASSUME TypeOK, UnderWay, [Next]_vars PROVE TypeOK'
  OBVIOUS
<1> USE ConstantsAssumption
<1>1. ASSUME NEW e \in Events, Commit(e) PROVE TypeOK'
  BY <1>1 DEF Commit, TypeOK, pass, stream, handed
<1>2. CASE Tick
  BY <1>2 DEF Tick, TypeOK, Draining, stream, handed
<1>3. ASSUME NEW d \in Deliveries, WindowCloses(d) PROVE TypeOK'
  BY <1>3 DEF WindowCloses, TypeOK, pass, handed
<1>4. ASSUME NEW p \in Processes, Claim(p) PROVE TypeOK'
  BY <1>4 DEF Claim, TypeOK, pass, stream, handed
<1>5. ASSUME NEW p \in Processes, ClaimLost(p) PROVE TypeOK'
  BY <1>5 DEF ClaimLost, TypeOK, pass, stream, handed
<1>6. ASSUME NEW p \in Processes, ReadPending(p) PROVE TypeOK'
  <2>1. CASE EndPass(p)
    BY <1>6, <2>1, EndPassType DEF ReadPending, TypeOK, stream, handed
  <2>2. CASE ~ EndPass(p)
    <3>1. PendingEvents \in SUBSET Events
      BY DEF PendingEvents, TypeOK
    <3>2. /\ batch' = [batch EXCEPT ![p] = PendingEvents]
          /\ pc' = [pc EXCEPT ![p] = "ensure"]
          /\ UNCHANGED <<age, todo, everyone, published>>
      BY <1>6, <2>2 DEF ReadPending
    <3> QED BY <1>6, <3>1, <3>2 DEF ReadPending, TypeOK, stream, handed
  <2> QED BY <2>1, <2>2
<1>7. ASSUME NEW p \in Processes, EnsureTopology(p) PROVE TypeOK'
  BY <1>7, MatchesType DEF EnsureTopology, TypeOK, stream, handed
<1>8. ASSUME NEW p \in Processes, PassFails(p) PROVE TypeOK'
  BY <1>8, EndPassType DEF PassFails, TypeOK, stream, handed
<1>9. ASSUME NEW p \in Processes, NEW d \in Deliveries, SkipTaken(p, d) PROVE TypeOK'
  BY <1>9 DEF SkipTaken, TypeOK, stream, handed
<1>10. ASSUME NEW p \in Processes, NEW d \in Deliveries, Delivered(p, d) PROVE TypeOK'
  <2>1. acked' \in [Processes -> SUBSET Deliveries] /\ repeated' \subseteq Deliveries
    BY <1>10 DEF Delivered, TypeOK
  <2> QED BY <1>10, <2>1, StoreType, RememberType DEF Delivered, TypeOK
<1>11. ASSUME NEW p \in Processes, NEW d \in Deliveries, NoQueue(p, d) PROVE TypeOK'
  BY <1>11, RememberType DEF NoQueue, TypeOK, stream, handed
<1>12. ASSUME NEW p \in Processes, NEW d \in Deliveries, PublishFails(p, d) PROVE TypeOK'
  <2>1. /\ window' \subseteq Deliveries
        /\ copies' \in [Deliveries -> Nat]
        /\ closings' \subseteq Deliveries
    BY <1>12, StoreType DEF PublishFails, TypeOK, stream
  <2> QED BY <1>12, <2>1 DEF PublishFails, TypeOK, handed
<1>13. ASSUME NEW p \in Processes, RowTaken(p) PROVE TypeOK'
  <2> DEFINE e == Oldest(batch[p])
  <2>1. e \in Events
    BY <1>13, OldestIsARow DEF RowTaken, UnderWay, TypeOK
  <2>2. batch[p] \ {e} \in SUBSET Events /\ published[p] \cup {e} \in SUBSET Events
    BY <2>1 DEF TypeOK
  <2>3. taken' \in [Processes -> [Events -> SUBSET Triggers]]
    BY <1>13 DEF RowTaken, TypeOK
  <2>4. NextRow(p, batch[p] \ {e}, published[p] \cup {e})
    BY <1>13 DEF RowTaken
  <2> HIDE DEF e
  <2> QED BY <1>13, <2>2, <2>3, <2>4, NextRowType DEF RowTaken, TypeOK, stream, handed
<1>14. ASSUME NEW p \in Processes, RowKept(p) PROVE TypeOK'
  <2> DEFINE left == batch[p] \ {Oldest(batch[p])}
  <2>1. EndPass(p) \/ NextRow(p, left, published[p])
    BY <1>14 DEF RowKept
  <2>2. left \in SUBSET Events /\ published[p] \in SUBSET Events
    BY DEF TypeOK
  <2> HIDE DEF left
  <2> QED BY <1>14, <2>1, <2>2, EndPassType, NextRowType DEF RowKept, TypeOK, stream, handed
<1>15. ASSUME NEW p \in Processes, ForgetEvents(p) PROVE TypeOK'
  <2>1. taken' \in [Processes -> [Events -> SUBSET Triggers]]
    BY <1>15 DEF ForgetEvents, TypeOK
  <2> QED BY <1>15, <2>1, EndPassType DEF ForgetEvents, TypeOK, stream, handed
<1>16. ASSUME NEW p \in Processes, ForgetFails(p) PROVE TypeOK'
  <2>1. acked' \in [Processes -> SUBSET Deliveries]
    BY <1>16 DEF ForgetFails, TypeOK
  <2> QED BY <1>16, <2>1, EndPassType DEF ForgetFails, TypeOK, stream
<1>17. ASSUME NEW p \in Processes, Crash(p) PROVE TypeOK'
  BY <1>17, EndPassType DEF Crash, TypeOK, stream
<1>18. CASE UNCHANGED vars
  BY <1>18 DEF vars, TypeOK, pass, stream, handed
<1> QED
  BY <1>1, <1>2, <1>3, <1>4, <1>5, <1>6, <1>7, <1>8, <1>9, <1>10, <1>11, <1>12, <1>13,
     <1>14, <1>15, <1>16, <1>17, <1>18 DEF Next, Loop, Match

\* A pass has a row under way for as long as it publishes.
LEMMA NextUnderWay == TypeOK /\ UnderWay /\ [Next]_vars => UnderWay'
<1> SUFFICES ASSUME TypeOK, UnderWay, [Next]_vars PROVE UnderWay'
  OBVIOUS
<1>1. ASSUME NEW p \in Processes, EndPass(p) PROVE UnderWay'
  BY <1>1 DEF EndPass, UnderWay, TypeOK
<1>2. ASSUME NEW p \in Processes, NEW left, NEW leaving, NextRow(p, left, leaving)
      PROVE  UnderWay'
  BY <1>2 DEF NextRow, UnderWay, TypeOK
<1>3. ASSUME NEW p \in Processes, ReadPending(p) PROVE UnderWay'
  BY <1>1, <1>3 DEF ReadPending, UnderWay, TypeOK
<1>4. ASSUME NEW p \in Processes, Claim(p) \/ EnsureTopology(p) PROVE UnderWay'
  BY <1>4 DEF Claim, EnsureTopology, UnderWay, TypeOK, pass
<1>5. ASSUME NEW p \in Processes, PassFails(p) \/ ForgetEvents(p) \/ ForgetFails(p) \/ Crash(p)
      PROVE  UnderWay'
  BY <1>1, <1>5 DEF PassFails, ForgetEvents, ForgetFails, Crash
<1>6. ASSUME NEW p \in Processes, RowTaken(p) \/ RowKept(p) PROVE UnderWay'
  BY <1>1, <1>2, <1>6 DEF RowTaken, RowKept
<1>7. ASSUME UNCHANGED <<pc, batch>> PROVE UnderWay'
  BY <1>7 DEF UnderWay
<1>8. ASSUME NEW p \in Processes, NEW d \in Deliveries,
             SkipTaken(p, d) \/ Delivered(p, d) \/ NoQueue(p, d) \/ PublishFails(p, d)
      PROVE  UNCHANGED <<pc, batch>>
  BY <1>8 DEF SkipTaken, Delivered, NoQueue, PublishFails
<1>9. ASSUME \/ \E e \in Events : Commit(e)
             \/ Tick
             \/ \E d \in Deliveries : WindowCloses(d)
             \/ \E p \in Processes : ClaimLost(p)
             \/ UNCHANGED vars
      PROVE  UNCHANGED <<pc, batch>>
  BY <1>9 DEF Commit, Tick, WindowCloses, ClaimLost, vars, pass
<1> QED
  BY <1>3, <1>4, <1>5, <1>6, <1>7, <1>8, <1>9 DEF Next, Loop, Match

\* Type correctness, with the row under way it rests on.
LEMMA TypeInvariant == Spec => [](TypeOK /\ UnderWay)
<1>1. Init => TypeOK /\ UnderWay
  BY InitType DEF Init, UnderWay
<1>2. TypeOK /\ UnderWay /\ [Next]_vars => (TypeOK /\ UnderWay)'
  BY NextType, NextUnderWay
<1> QED BY <1>1, <1>2, PTL DEF Spec

\* Every variable keeps its type, whatever the fleet and the declarations.
THEOREM TypeCorrect == Spec => []TypeOK
BY TypeInvariant, PTL

-----------------------------------------------------------------------------
(* The marker.                                                             *)

\* A pass that ends, and nothing else, leaves the marker's invariant.
LEMMA EndPassMarker ==
    ASSUME TypeOK, MarkerInv, NEW p \in Processes, EndPass(p), UNCHANGED lockLeft
    PROVE  MarkerInv'
BY DEF EndPass, MarkerInv, OverlapOnlyPastTheMarker, Draining, TypeOK

\* With no marker left, every pass under way has outlived its own.
LEMMA FreeMarker ==
    ASSUME TypeOK, MarkerInv, lockLeft = 0, NEW q \in Processes, Draining(q)
    PROVE  age[q] = LockHeldFor
<1>1. age[q] \in 0..LockHeldFor /\ LockHeldFor \in Nat
  BY ConstantsAssumption DEF TypeOK
<1>2. age[q] < LockHeldFor => 0 = LockHeldFor - age[q]
  BY DEF MarkerInv
<1> QED BY <1>1, <1>2

\* Every step keeps a young pass the only one.
LEMMA NextMarker == TypeOK /\ MarkerInv /\ [Next]_vars => MarkerInv'
<1> SUFFICES ASSUME TypeOK, MarkerInv, [Next]_vars PROVE MarkerInv'
  OBVIOUS
<1> USE ConstantsAssumption
<1>1. CASE Tick
  <2>1. ASSUME NEW p \in Processes PROVE (~Draining(p) => age[p] = 0)'
    BY <1>1, <2>1 DEF Tick, MarkerInv, Draining, TypeOK
  <2>2. ASSUME NEW p \in Processes
        PROVE  (Draining(p) /\ age[p] < LockHeldFor => lockLeft = LockHeldFor - age[p])'
    BY <1>1, <2>2 DEF Tick, MarkerInv, Draining, TypeOK
  <2>3. OverlapOnlyPastTheMarker'
    BY <1>1 DEF Tick, MarkerInv, OverlapOnlyPastTheMarker, Draining, TypeOK
  <2> QED BY <2>1, <2>2, <2>3 DEF MarkerInv
<1>2. ASSUME NEW p \in Processes, Claim(p) PROVE MarkerInv'
  <2>1. \A q \in Processes : Draining(q) => age[q] = LockHeldFor
    BY <1>2, FreeMarker DEF Claim
  <2>2. /\ \A q \in Processes : Draining(q)' <=> (q = p \/ Draining(q))
        /\ age' = age
        /\ age[p] = 0
        /\ lockLeft' = LockHeldFor
    BY <1>2 DEF Claim, MarkerInv, Draining, TypeOK, pass
  <2> QED
    BY <2>1, <2>2 DEF MarkerInv, OverlapOnlyPastTheMarker
<1>3. ASSUME NEW p \in Processes, ClaimLost(p) PROVE MarkerInv'
  <2>1. \A q \in Processes : Draining(q) => age[q] = LockHeldFor
    BY <1>3, FreeMarker DEF ClaimLost
  <2> QED
    BY <1>3, <2>1 DEF ClaimLost, MarkerInv, OverlapOnlyPastTheMarker, Draining, pass
<1>4. ASSUME UNCHANGED <<lockLeft, age>>, NEW p \in Processes, Draining(p),
             \E c \in {"read", "ensure", "publish", "forget"} : pc' = [pc EXCEPT ![p] = c]
      PROVE  MarkerInv'
  BY <1>4 DEF MarkerInv, OverlapOnlyPastTheMarker, Draining, TypeOK
<1>5. ASSUME NEW p \in Processes, ReadPending(p) PROVE MarkerInv'
  BY <1>4, <1>5, EndPassMarker DEF ReadPending, Draining
<1>6. ASSUME NEW p \in Processes, EnsureTopology(p) PROVE MarkerInv'
  BY <1>4, <1>6 DEF EnsureTopology, Draining
<1>7. ASSUME NEW p \in Processes, RowTaken(p) \/ RowKept(p) PROVE MarkerInv'
  <2>1. EndPass(p) \/ \E c \in {"publish", "forget"} : pc' = [pc EXCEPT ![p] = c] /\ age' = age
    BY <1>7 DEF RowTaken, RowKept, NextRow
  <2> QED
    BY <1>4, <1>7, <2>1, EndPassMarker DEF RowTaken, RowKept, Draining
<1>8. ASSUME NEW p \in Processes, PassFails(p) \/ ForgetEvents(p) \/ ForgetFails(p) \/ Crash(p)
      PROVE  MarkerInv'
  BY <1>8, EndPassMarker DEF PassFails, ForgetEvents, ForgetFails, Crash
<1>9. ASSUME UNCHANGED <<pc, age, lockLeft>> PROVE MarkerInv'
  BY <1>9 DEF MarkerInv, OverlapOnlyPastTheMarker, Draining
<1>10. ASSUME NEW p \in Processes, NEW d \in Deliveries,
              SkipTaken(p, d) \/ Delivered(p, d) \/ NoQueue(p, d) \/ PublishFails(p, d)
       PROVE  UNCHANGED <<pc, age, lockLeft>>
  BY <1>10 DEF SkipTaken, Delivered, NoQueue, PublishFails
<1>11. ASSUME \/ \E e \in Events : Commit(e)
              \/ \E d \in Deliveries : WindowCloses(d)
              \/ UNCHANGED vars
       PROVE  UNCHANGED <<pc, age, lockLeft>>
  BY <1>11 DEF Commit, WindowCloses, vars, pass
<1> QED
  BY <1>1, <1>2, <1>3, <1>5, <1>6, <1>7, <1>8, <1>9, <1>10, <1>11 DEF Next, Loop, Match

\* Two passes are under way together only behind one that outlived the marker.
THEOREM DrainsOverlapOnlyPastTheMarker == Spec => []OverlapOnlyPastTheMarker
<1>1. Init => MarkerInv
  BY DEF Init, MarkerInv, OverlapOnlyPastTheMarker, Draining
<1>2. MarkerInv => OverlapOnlyPastTheMarker
  BY DEF MarkerInv
<1> QED
  BY <1>1, <1>2, TypeInvariant, NextMarker, PTL DEF Spec

-----------------------------------------------------------------------------
(* The duplicate window.                                                   *)

\* Storing a delivery twice within the window stores it once.
LEMMA StoreWindow ==
    ASSUME TypeOK, WindowInv, NEW p \in Processes, NEW d \in Deliveries, Store(p, d)
    PROVE  WindowInv'
<1>1. MsgId(p, d) = d
  BY MsgIdIsTheDelivery
<1>2. CASE d \in window
  BY <1>1, <1>2 DEF Store, WindowInv, TypeOK
<1>3. CASE d \notin window
  <2>1. /\ \A c \in Deliveries : copies'[c] = IF c = d THEN copies[d] + 1 ELSE copies[c]
        /\ window' = window \cup {d}
        /\ closings' = closings
    BY <1>1, <1>3 DEF Store, TypeOK
  <2>2. \A c \in Deliveries :
          copies'[c] <= (IF c \in window' THEN 1 ELSE 0) + (IF c \in closings' THEN 1 ELSE 0)
    BY <1>3, <2>1 DEF WindowInv, TypeOK
  <2>3. \A c \in window' : copies'[c] > 0
    BY <2>1 DEF WindowInv, TypeOK
  <2> QED BY <2>2, <2>3 DEF WindowInv
<1> QED BY <1>2, <1>3

\* Every step accounts for the copies it makes.
LEMMA NextWindow == TypeOK /\ WindowInv /\ [Next]_vars => WindowInv'
<1> SUFFICES ASSUME TypeOK, WindowInv, [Next]_vars PROVE WindowInv'
  OBVIOUS
<1>1. ASSUME NEW d \in Deliveries, WindowCloses(d) PROVE WindowInv'
  <2>1. d \in window /\ d \notin closings /\ closings' = closings \cup {d} /\ copies' = copies
    BY <1>1, MsgIdIsTheDelivery DEF WindowCloses
  <2>2. window' = window \ {d}
    BY <1>1, MsgIdIsTheDelivery DEF WindowCloses
  <2> QED BY <2>1, <2>2 DEF WindowInv, TypeOK
<1>2. ASSUME UNCHANGED stream PROVE WindowInv'
  BY <1>2 DEF WindowInv, stream
<1>3. ASSUME NEW p \in Processes, NEW d \in Deliveries, Delivered(p, d) \/ PublishFails(p, d)
      PROVE  WindowInv'
  BY <1>2, <1>3, StoreWindow DEF Delivered, PublishFails
<1>4. ASSUME NEW p \in Processes, NEW d \in Deliveries, SkipTaken(p, d) \/ NoQueue(p, d)
      PROVE  UNCHANGED stream
  BY <1>4 DEF SkipTaken, NoQueue
<1>5. ASSUME NEW p \in Processes,
             \/ Claim(p) \/ ClaimLost(p) \/ ReadPending(p) \/ EnsureTopology(p)
             \/ PassFails(p) \/ RowTaken(p) \/ RowKept(p) \/ ForgetEvents(p)
             \/ ForgetFails(p) \/ Crash(p)
      PROVE  UNCHANGED stream
  BY <1>5 DEF Claim, ClaimLost, ReadPending, EnsureTopology, PassFails, RowTaken, RowKept,
              ForgetEvents, ForgetFails, Crash
<1>6. ASSUME (\E e \in Events : Commit(e)) \/ Tick \/ UNCHANGED vars
      PROVE  UNCHANGED stream
  BY <1>6 DEF Commit, Tick, vars
<1> QED
  BY <1>1, <1>2, <1>3, <1>4, <1>5, <1>6 DEF Next, Loop, Match

\* However often a change is handed over, the stream holds a second copy of a
\* delivery only once its duplicate window closed on the first.
THEOREM OneCopyUntilTheWindowCloses == Spec => []OneCopyPerWindow
<1>1. Init => WindowInv
  BY DEF Init, WindowInv
<1>2. TypeOK /\ WindowInv => OneCopyPerWindow
  BY DEF TypeOK, WindowInv, OneCopyPerWindow
<1> QED
  BY <1>1, <1>2, TypeInvariant, NextWindow, PTL DEF Spec

-----------------------------------------------------------------------------
(* What a pass holds.                                                      *)

\* A pass that ends holds nothing.
LEMMA EndPassHolds ==
    ASSUME TypeOK, PassInv, NEW p \in Processes, EndPass(p),
           written' = written, outbox' \subseteq outbox
    PROVE  PassInv'
BY DEF EndPass, PassInv, TypeOK, Current

\* A pass that goes on holds the rows that are left and those that may leave.
LEMMA NextRowHolds ==
    ASSUME TypeOK, PassInv, NEW p \in Processes, NEW left, NEW leaving,
           NextRow(p, left, leaving), UNCHANGED <<outbox, written>>,
           left \subseteq batch[p], leaving \subseteq batch[p] \cup published[p],
           left \cap leaving = {}
    PROVE  PassInv'
BY DEF NextRow, PassInv, TypeOK, Current

\* Every step keeps a pass to committed rows, each handled at most once.
LEMMA NextPass == TypeOK /\ UnderWay /\ PassInv /\ [Next]_vars => PassInv'
<1> SUFFICES ASSUME TypeOK, UnderWay, PassInv, [Next]_vars PROVE PassInv'
  OBVIOUS
<1>1. ASSUME NEW e \in Events, Commit(e) PROVE PassInv'
  BY <1>1 DEF Commit, PassInv, pass, Current, MatchesOf
<1>2. ASSUME NEW p \in Processes, Claim(p) PROVE PassInv'
  BY <1>2 DEF Claim, PassInv, TypeOK, pass, Current
<1>3. ASSUME NEW p \in Processes, ReadPending(p) PROVE PassInv'
  <2>1. CASE EndPass(p)
    BY <1>3, <2>1, EndPassHolds DEF ReadPending
  <2>2. CASE ~ EndPass(p)
    <3>1. PendingEvents \subseteq written
      BY DEF PendingEvents, PassInv
    <3>2. /\ batch' = [batch EXCEPT ![p] = PendingEvents]
          /\ pc' = [pc EXCEPT ![p] = "ensure"]
          /\ UNCHANGED <<todo, published, outbox, written>>
          /\ pc[p] = "read"
      BY <1>3, <2>2 DEF ReadPending
    <3> QED BY <3>1, <3>2 DEF PassInv, TypeOK, Current
  <2> QED BY <2>1, <2>2
<1>4. ASSUME NEW p \in Processes, EnsureTopology(p) PROVE PassInv'
  BY <1>4 DEF EnsureTopology, PassInv, TypeOK, Current
<1>5. ASSUME NEW p \in Processes, PassFails(p) \/ ForgetEvents(p) \/ ForgetFails(p) \/ Crash(p)
      PROVE  PassInv'
  <2>1. outbox' \subseteq outbox /\ written' = written /\ EndPass(p)
    BY <1>5 DEF PassFails, ForgetEvents, ForgetFails, Crash
  <2> QED BY <2>1, EndPassHolds
<1>6. ASSUME NEW p \in Processes, NEW d \in Deliveries,
             SkipTaken(p, d) \/ Delivered(p, d) \/ NoQueue(p, d) \/ PublishFails(p, d)
      PROVE  PassInv'
  <2>1. /\ UNCHANGED <<outbox, written, pc, batch, published>>
        /\ todo' = [todo EXCEPT ![p] = @ \ {d}]
    BY <1>6 DEF SkipTaken, Delivered, NoQueue, PublishFails, Remember
  <2> QED BY <2>1 DEF PassInv, TypeOK, Current
<1>7. ASSUME NEW p \in Processes, RowTaken(p) PROVE PassInv'
  <2> DEFINE e == Oldest(batch[p])
  <2>1. e \in batch[p]
    BY <1>7, OldestIsARow DEF RowTaken, UnderWay, TypeOK
  <2>2. (batch[p] \ {e}) \cap (published[p] \cup {e}) = {}
    BY DEF PassInv
  <2>3. NextRow(p, batch[p] \ {e}, published[p] \cup {e}) /\ UNCHANGED <<outbox, written>>
    BY <1>7 DEF RowTaken
  <2> HIDE DEF e
  <2> QED BY <2>1, <2>2, <2>3, NextRowHolds
<1>8. ASSUME NEW p \in Processes, RowKept(p) PROVE PassInv'
  <2> DEFINE left == batch[p] \ {Oldest(batch[p])}
  <2>1. UNCHANGED <<outbox, written>> /\ (EndPass(p) \/ NextRow(p, left, published[p]))
    BY <1>8 DEF RowKept
  <2>2. left \subseteq batch[p] /\ left \cap published[p] = {}
    BY DEF PassInv
  <2> HIDE DEF left
  <2> QED BY <2>1, <2>2, EndPassHolds, NextRowHolds
<1>9. ASSUME UNCHANGED <<outbox, written, pc, batch, todo, published>> PROVE PassInv'
  BY <1>9 DEF PassInv, Current, MatchesOf
<1>10. ASSUME \/ Tick
              \/ \E d \in Deliveries : WindowCloses(d)
              \/ \E p \in Processes : ClaimLost(p)
              \/ UNCHANGED vars
       PROVE  UNCHANGED <<outbox, written, pc, batch, todo, published>>
  BY <1>10 DEF Tick, WindowCloses, ClaimLost, vars, pass
<1> QED
  BY <1>1, <1>2, <1>3, <1>4, <1>5, <1>6, <1>7, <1>8, <1>9, <1>10 DEF Next, Loop, Match

\* What a pass holds, with the facts it rests on.
LEMMA PassInvariant == Spec => [](TypeOK /\ UnderWay /\ PassInv)
<1>1. Init => PassInv
  BY DEF Init, PassInv
<1> QED BY <1>1, TypeInvariant, NextPass, PTL DEF Spec

-----------------------------------------------------------------------------
(* No change is lost.                                                      *)

\* What the copies account for, as an invariant.
LEMMA WindowInvariant == Spec => []WindowInv
<1>1. Init => WindowInv
  BY DEF Init, WindowInv
<1> QED BY <1>1, TypeInvariant, NextWindow, PTL DEF Spec

\* The stream gives up no copy: what was reached stays reached.
LEMMA ReachedStays ==
    ASSUME TypeOK, [Next]_vars, NEW e \in Events, NEW t \in Triggers, Reached(t, e)
    PROVE  Reached(t, e)'
<1>1. ASSUME UNCHANGED copies PROVE Reached(t, e)'
  BY <1>1 DEF Reached
<1>2. ASSUME NEW p \in Processes, NEW d \in Deliveries, Store(p, d) PROVE Reached(t, e)'
  <2>1. PICK f \in Fields \cup {Row} : copies[<<t, e, f>>] > 0
    BY DEF Reached
  <2>2. <<t, e, f>> \in Deliveries
    BY DEF Deliveries
  <2>3. copies'[<<t, e, f>>] > 0
    <3> DEFINE c == <<t, e, f>>
    <3>1. copies'[c] >= copies[c] /\ copies'[c] \in Nat /\ copies[c] \in Nat
      BY <1>2, <2>2, StoreType DEF TypeOK
    <3> QED BY <2>1, <3>1
  <2> QED BY <2>3 DEF Reached
<1>3. ASSUME NEW p \in Processes, NEW d \in Deliveries, Delivered(p, d) \/ PublishFails(p, d)
      PROVE  Reached(t, e)'
  BY <1>1, <1>2, <1>3 DEF Delivered, PublishFails, stream
<1>4. ASSUME NEW p \in Processes, NEW d \in Deliveries, SkipTaken(p, d) \/ NoQueue(p, d)
      PROVE  UNCHANGED copies
  BY <1>4 DEF SkipTaken, NoQueue, stream
<1>5. ASSUME NEW p \in Processes,
             \/ Claim(p) \/ ClaimLost(p) \/ ReadPending(p) \/ EnsureTopology(p)
             \/ PassFails(p) \/ RowTaken(p) \/ RowKept(p) \/ ForgetEvents(p)
             \/ ForgetFails(p) \/ Crash(p)
      PROVE  UNCHANGED copies
  BY <1>5 DEF Claim, ClaimLost, ReadPending, EnsureTopology, PassFails, RowTaken, RowKept,
              ForgetEvents, ForgetFails, Crash, stream
<1>6. ASSUME \/ \E f \in Events : Commit(f)
             \/ Tick
             \/ \E d \in Deliveries : WindowCloses(d)
             \/ UNCHANGED vars
      PROVE  UNCHANGED copies
  BY <1>6 DEF Commit, Tick, WindowCloses, vars, stream
<1> QED
  BY <1>1, <1>3, <1>4, <1>5, <1>6 DEF Next, Loop, Match

\* A delivery that is stored reaches its declaration, the window remembering it or not.
LEMMA StoreReaches ==
    ASSUME TypeOK, WindowInv, NEW p \in Processes, NEW d \in Deliveries, Store(p, d)
    PROVE  Reached(d[1], d[2])'
<1>1. MsgId(p, d) = d /\ d = <<d[1], d[2], d[3]>> /\ d[3] \in Fields \cup {Row}
  BY MsgIdIsTheDelivery DEF Deliveries
<1>2. copies'[d] > 0
  BY <1>1 DEF Store, WindowInv, TypeOK
<1> QED BY <1>1, <1>2 DEF Reached

\* Every step remembers only declarations that were reached or have no queue.
LEMMA NextRemembered ==
    TypeOK /\ WindowInv /\ PassInv /\ RememberedInv /\ [Next]_vars => RememberedInv'
<1> SUFFICES ASSUME TypeOK, WindowInv, PassInv, RememberedInv, [Next]_vars
             PROVE  RememberedInv'
  OBVIOUS
<1>1. ASSUME \A p \in Processes, e \in Events : taken'[p][e] \subseteq taken[p][e]
      PROVE  RememberedInv'
  BY <1>1, ReachedStays DEF RememberedInv, TypeOK
<1>2. ASSUME NEW p \in Processes, NEW d \in Deliveries, Remember(p, d), d[2] = Current(p),
             d[1] \in Queued => Reached(d[1], d[2])'
      PROVE  RememberedInv'
  <2> SUFFICES ASSUME NEW q \in Processes, NEW e \in Events, NEW t \in taken'[q][e], t \in Queued
               PROVE  Reached(t, e)'
    BY DEF RememberedInv
  <2>1. t \in taken[q][e] \/ (t = d[1] /\ e = d[2])
    BY <1>2 DEF Remember, TypeOK
  <2>2. t \in taken[q][e] => t \in Triggers
    BY DEF TypeOK
  <2> QED BY <1>2, <2>1, <2>2, ReachedStays DEF RememberedInv
<1>3. ASSUME NEW p \in Processes, NEW d \in Deliveries, Untaken(p, d) PROVE d[2] = Current(p)
  BY <1>3, MatchesType DEF Untaken, PassInv
<1>4. ASSUME NEW p \in Processes, NEW d \in Deliveries, Delivered(p, d) PROVE RememberedInv'
  BY <1>2, <1>3, <1>4, StoreReaches DEF Delivered
<1>5. ASSUME NEW p \in Processes, NEW d \in Deliveries, NoQueue(p, d) PROVE RememberedInv'
  BY <1>2, <1>3, <1>5 DEF NoQueue
<1>6. ASSUME NEW p \in Processes, RowTaken(p) \/ ForgetEvents(p) \/ Crash(p) PROVE RememberedInv'
  <2>1. CASE RowTaken(p)
    BY <1>1, <2>1 DEF RowTaken, TypeOK
  <2>2. CASE ForgetEvents(p)
    BY <1>1, <2>2 DEF ForgetEvents, TypeOK
  <2>3. CASE Crash(p)
    BY <1>1, <2>3 DEF Crash, TypeOK
  <2> QED BY <1>6, <2>1, <2>2, <2>3
<1>7. ASSUME UNCHANGED taken PROVE RememberedInv'
  BY <1>1, <1>7
<1>8. ASSUME NEW p \in Processes,
             \/ Claim(p) \/ ClaimLost(p) \/ ReadPending(p) \/ EnsureTopology(p)
             \/ PassFails(p) \/ RowKept(p) \/ ForgetFails(p)
             \/ \E d \in Deliveries : SkipTaken(p, d) \/ PublishFails(p, d)
      PROVE  UNCHANGED taken
  BY <1>8 DEF Claim, ClaimLost, ReadPending, EnsureTopology, PassFails, RowKept,
              ForgetFails, SkipTaken, PublishFails
<1>9. ASSUME \/ \E e \in Events : Commit(e)
             \/ Tick
             \/ \E d \in Deliveries : WindowCloses(d)
             \/ UNCHANGED vars
      PROVE  UNCHANGED taken
  BY <1>9 DEF Commit, Tick, WindowCloses, vars
<1> QED
  BY <1>4, <1>5, <1>6, <1>7, <1>8, <1>9 DEF Next, Loop, Match

\* What was tried stays reached, unless a new row is under way or one was refused.
LEMMA StillTried ==
    ASSUME TypeOK, TriedInv, [Next]_vars,
           \A q \in Processes : pc'[q] = "publish" /\ everyone'[q] =>
              \/ todo'[q] = MatchesOf(Oldest(batch'[q]))
              \/ /\ pc[q] = "publish" /\ everyone[q] /\ batch'[q] = batch[q]
                 /\ \A d \in todo[q] \ todo'[q] : d[1] \in Queued => Reached(d[1], d[2])'
    PROVE  TriedInv'
<1> SUFFICES ASSUME NEW q \in Processes, pc'[q] = "publish", everyone'[q],
                    NEW d \in MatchesOf(Oldest(batch'[q])), d \notin todo'[q], d[1] \in Queued
             PROVE  Reached(d[1], d[2])'
  BY DEF TriedInv, Current
<1>1. /\ pc[q] = "publish" /\ everyone[q] /\ batch'[q] = batch[q]
      /\ d \in todo[q] \ todo'[q] => Reached(d[1], d[2])'
  OBVIOUS
<1>2. d \notin todo[q] => Reached(d[1], d[2])
  BY <1>1 DEF TriedInv, Current
<1>3. d[1] \in Triggers /\ d[2] \in Events
  BY MatchesType DEF Deliveries
<1> QED BY <1>1, <1>2, <1>3, ReachedStays

\* Every step tries declarations by reaching them, or notes the refusal.
LEMMA NextTried ==
    TypeOK /\ WindowInv /\ PassInv /\ RememberedInv /\ TriedInv /\ [Next]_vars => TriedInv'
<1> SUFFICES ASSUME TypeOK, WindowInv, PassInv, RememberedInv, TriedInv, [Next]_vars
             PROVE  TriedInv'
  OBVIOUS
<1>1. ASSUME NEW p \in Processes, EndPass(p) PROVE TriedInv'
  BY <1>1, StillTried DEF EndPass, TypeOK
<1>2. ASSUME NEW p \in Processes, NEW left, NEW leaving, NextRow(p, left, leaving) PROVE TriedInv'
  BY <1>2, StillTried DEF NextRow, TypeOK
<1>3. ASSUME NEW p \in Processes, NEW d \in Deliveries, UNCHANGED <<pc, batch>>,
             everyone' = everyone,
             todo' = [todo EXCEPT ![p] = @ \ {d}],
             d[1] \in Queued => Reached(d[1], d[2])'
      PROVE  TriedInv'
  BY <1>3, StillTried DEF TypeOK
<1>4. ASSUME NEW p \in Processes, NEW d \in Deliveries, d \in todo[p], pc[p] = "publish"
      PROVE  d[2] = Current(p) /\ d[1] \in Triggers /\ d[2] \in Events
  BY <1>4, MatchesType DEF PassInv, Deliveries
<1>5. ASSUME NEW p \in Processes, NEW d \in Deliveries, SkipTaken(p, d) PROVE TriedInv'
  <2>1. d[1] \in Queued => Reached(d[1], d[2])
    BY <1>4, <1>5 DEF SkipTaken, RememberedInv
  <2>2. d[1] \in Queued => Reached(d[1], d[2])'
    BY <1>4, <1>5, <2>1, ReachedStays DEF SkipTaken
  <2> QED BY <1>3, <1>5, <2>2 DEF SkipTaken
<1>6. ASSUME NEW p \in Processes, NEW d \in Deliveries, Delivered(p, d) PROVE TriedInv'
  BY <1>3, <1>6, StoreReaches DEF Delivered, Remember
<1>7. ASSUME NEW p \in Processes, NEW d \in Deliveries, NoQueue(p, d) PROVE TriedInv'
  BY <1>3, <1>7 DEF NoQueue, Remember
<1>8. ASSUME NEW p \in Processes, NEW d \in Deliveries, PublishFails(p, d) PROVE TriedInv'
  BY <1>8, StillTried DEF PublishFails, TypeOK
<1>9. ASSUME NEW p \in Processes, ReadPending(p) \/ EnsureTopology(p) PROVE TriedInv'
  <2>1. CASE EndPass(p)
    BY <1>1, <2>1
  <2>2. CASE ReadPending(p) /\ ~ EndPass(p)
    BY <2>2, StillTried DEF ReadPending, TypeOK
  <2>3. CASE EnsureTopology(p)
    BY <2>3, StillTried DEF EnsureTopology, TypeOK
  <2> QED BY <1>9, <2>1, <2>2, <2>3
<1>10. ASSUME NEW p \in Processes,
              \/ PassFails(p) \/ RowTaken(p) \/ RowKept(p) \/ ForgetEvents(p)
              \/ ForgetFails(p) \/ Crash(p)
       PROVE  TriedInv'
  BY <1>1, <1>2, <1>10 DEF PassFails, RowTaken, RowKept, ForgetEvents, ForgetFails, Crash
<1>11. ASSUME NEW p \in Processes, Claim(p) PROVE TriedInv'
  BY <1>11, StillTried DEF Claim, TypeOK, pass
<1>12. ASSUME UNCHANGED <<pc, batch, todo, everyone>> PROVE TriedInv'
  BY <1>12, StillTried
<1>13. ASSUME \/ \E e \in Events : Commit(e)
              \/ Tick
              \/ \E d \in Deliveries : WindowCloses(d)
              \/ \E p \in Processes : ClaimLost(p)
              \/ UNCHANGED vars
       PROVE  UNCHANGED <<pc, batch, todo, everyone>>
  BY <1>13 DEF Commit, Tick, WindowCloses, ClaimLost, vars, pass
<1> QED
  BY <1>5, <1>6, <1>7, <1>8, <1>9, <1>10, <1>11, <1>12, <1>13 DEF Next, Loop, Match

\* A row nobody has still to try, and nobody refused, reached everyone it is owed to.
LEMMA TriedAll ==
    ASSUME TypeOK, UnderWay, TriedInv, NEW p \in Processes,
           pc[p] = "publish", todo[p] = {}, everyone[p]
    PROVE  /\ Current(p) \in batch[p]
           /\ \A t \in Owed(Current(p)) : Reached(t, Current(p))
<1>1. Current(p) \in batch[p] /\ Current(p) \in Events
  BY OldestIsARow DEF Current, UnderWay, TypeOK
<1>2. ASSUME NEW t \in Owed(Current(p)) PROVE Reached(t, Current(p))
  <2>1. t \in Triggers /\ t \in Queued /\ t \in Concerns[Current(p)]
    BY <1>1, ConstantsAssumption DEF Owed
  <2>2. PICK f \in FieldsOf(t, Current(p)) : TRUE
    BY DEF Owed
  <2>3. f \in Fields \cup {Row}
    BY <2>1, <2>2, ConstantsAssumption DEF FieldsOf
  <2> DEFINE d == <<t, Current(p), f>>
  <2>4. d \in MatchesOf(Current(p))
    BY <1>1, <2>1, <2>2, <2>3 DEF MatchesOf, Deliveries
  <2>5. d[1] \in Queued => Reached(d[1], d[2])
    BY <2>4 DEF TriedInv
  <2> QED BY <2>1, <2>5
<1> QED BY <1>1, <1>2

\* Declarations are owed rows they concern.
LEMMA OwedType == \A e \in Events : Owed(e) \subseteq Triggers
BY ConstantsAssumption DEF Owed

\* Every step lets only rows that reached everyone leave.
LEMMA NextLeaving ==
    TypeOK /\ UnderWay /\ TriedInv /\ LeavingInv /\ [Next]_vars => LeavingInv'
<1> SUFFICES ASSUME TypeOK, UnderWay, TriedInv, LeavingInv, [Next]_vars PROVE LeavingInv'
  OBVIOUS
<1>1. ASSUME \A p \in Processes : \A e \in published'[p] :
               e \in published[p] \/ (e \in Events /\ \A t \in Owed(e) : Reached(t, e))
      PROVE  LeavingInv'
  <2> SUFFICES ASSUME NEW p \in Processes, NEW e \in published'[p], NEW t \in Owed(e)
               PROVE  Reached(t, e)'
    BY DEF LeavingInv
  <2>1. e \in Events /\ t \in Triggers
    BY <1>1, OwedType DEF TypeOK
  <2>2. Reached(t, e)
    BY <1>1 DEF LeavingInv
  <2> QED BY <2>1, <2>2, ReachedStays
<1>2. ASSUME NEW p \in Processes, EndPass(p) PROVE LeavingInv'
  BY <1>1, <1>2 DEF EndPass, TypeOK
<1>3. ASSUME NEW p \in Processes, RowTaken(p) PROVE LeavingInv'
  <2>1. published' = [published EXCEPT ![p] = published[p] \cup {Current(p)}]
    BY <1>3 DEF RowTaken, NextRow, Current
  <2>2. /\ Current(p) \in Events
        /\ \A t \in Owed(Current(p)) : Reached(t, Current(p))
    BY <1>3, TriedAll DEF RowTaken, TypeOK
  <2> QED BY <1>1, <2>1, <2>2 DEF TypeOK
<1>4. ASSUME NEW p \in Processes, RowKept(p) PROVE LeavingInv'
  <2>1. EndPass(p) \/ published' = [published EXCEPT ![p] = published[p]]
    BY <1>4 DEF RowKept, NextRow
  <2> QED BY <1>1, <1>2, <2>1 DEF TypeOK
<1>5. ASSUME NEW p \in Processes, ReadPending(p) PROVE LeavingInv'
  BY <1>1, <1>2, <1>5 DEF ReadPending
<1>6. ASSUME NEW p \in Processes, PassFails(p) \/ ForgetEvents(p) \/ ForgetFails(p) \/ Crash(p)
      PROVE  LeavingInv'
  BY <1>2, <1>6 DEF PassFails, ForgetEvents, ForgetFails, Crash
<1>7. ASSUME UNCHANGED published PROVE LeavingInv'
  BY <1>1, <1>7
<1>8. ASSUME NEW p \in Processes,
             \/ Claim(p) \/ ClaimLost(p) \/ EnsureTopology(p)
             \/ \E d \in Deliveries : SkipTaken(p, d) \/ Delivered(p, d) \/ NoQueue(p, d)
                                         \/ PublishFails(p, d)
      PROVE  UNCHANGED published
  BY <1>8 DEF Claim, ClaimLost, EnsureTopology, SkipTaken, Delivered, NoQueue, PublishFails, pass
<1>9. ASSUME \/ \E e \in Events : Commit(e)
             \/ Tick
             \/ \E d \in Deliveries : WindowCloses(d)
             \/ UNCHANGED vars
      PROVE  UNCHANGED published
  BY <1>9 DEF Commit, Tick, WindowCloses, vars, pass
<1> QED
  BY <1>3, <1>4, <1>5, <1>6, <1>7, <1>8, <1>9 DEF Next, Loop, Match

\* Every step takes out of the table only rows that reached everyone.
LEMMA NextNoChangeLost ==
    TypeOK /\ LeavingInv /\ NoChangeLost /\ [Next]_vars => NoChangeLost'
<1> SUFFICES ASSUME TypeOK, LeavingInv, NoChangeLost, [Next]_vars PROVE NoChangeLost'
  OBVIOUS
<1>1. ASSUME \A e \in written' \ outbox' :
               \/ e \in written \ outbox
               \/ \E p \in Processes : e \in published[p]
      PROVE  NoChangeLost'
  <2> SUFFICES ASSUME NEW e \in written' \ outbox', NEW t \in Owed(e) PROVE Reached(t, e)'
    BY DEF NoChangeLost
  <2>1. e \in Events /\ t \in Triggers
    BY <1>1, OwedType DEF TypeOK
  <2>2. Reached(t, e)
    BY <1>1 DEF NoChangeLost, LeavingInv
  <2> QED BY <2>1, <2>2, ReachedStays
<1>2. ASSUME NEW e \in Events, Commit(e) PROVE NoChangeLost'
  BY <1>1, <1>2 DEF Commit
<1>3. ASSUME NEW p \in Processes, ForgetEvents(p) \/ ForgetFails(p) PROVE NoChangeLost'
  BY <1>1, <1>3 DEF ForgetEvents, ForgetFails
<1>4. ASSUME UNCHANGED <<outbox, written>> PROVE NoChangeLost'
  BY <1>1, <1>4
<1>5. ASSUME NEW p \in Processes,
             \/ Claim(p) \/ ClaimLost(p) \/ ReadPending(p) \/ EnsureTopology(p)
             \/ PassFails(p) \/ RowTaken(p) \/ RowKept(p) \/ Crash(p)
             \/ \E d \in Deliveries : SkipTaken(p, d) \/ Delivered(p, d) \/ NoQueue(p, d)
                                         \/ PublishFails(p, d)
      PROVE  UNCHANGED <<outbox, written>>
  BY <1>5 DEF Claim, ClaimLost, ReadPending, EnsureTopology, PassFails, RowTaken, RowKept,
              Crash, SkipTaken, Delivered, NoQueue, PublishFails
<1>6. ASSUME Tick \/ (\E d \in Deliveries : WindowCloses(d)) \/ UNCHANGED vars
      PROVE  UNCHANGED <<outbox, written>>
  BY <1>6 DEF Tick, WindowCloses, vars
<1> QED
  BY <1>2, <1>3, <1>4, <1>5, <1>6 DEF Next, Loop, Match

\* A row is gone from the table only once every declaration it is owed to found it
\* in the stream, whichever replicas overlap, die or are refused on the way.
THEOREM NoCommittedChangeIsLost == Spec => []NoChangeLost
<1> DEFINE Held == RememberedInv /\ TriedInv /\ LeavingInv /\ NoChangeLost
<1>1. Init => Held
  BY DEF Init, RememberedInv, TriedInv, LeavingInv, NoChangeLost
<1>2. TypeOK /\ UnderWay /\ PassInv /\ WindowInv /\ Held /\ [Next]_vars => Held'
  BY NextRemembered, NextTried, NextLeaving, NextNoChangeLost
<1> QED
  BY <1>1, <1>2, PassInvariant, WindowInvariant, PTL DEF Spec

-----------------------------------------------------------------------------
(* Nobody is handed a change twice by the same process.                    *)

\* A step that acknowledges nothing new and forgets nothing it should not keeps
\* what was handed over accounted for.
LEMMA StillHanded ==
    ASSUME TypeOK, HandedInv, repeated' = repeated, written \subseteq written',
           \A q \in Processes : \A d \in acked'[q] :
              /\ d \in acked[q]
              /\ d[1] \in taken[q][d[2]] => d[1] \in taken'[q][d[2]]
                                           \/ d[2] \in published'[q]
                                           \/ d[2] \notin outbox' \cup batch'[q]
              /\ d[2] \in published[q] => d[2] \in published'[q]
                                           \/ d[2] \notin outbox' \cup batch'[q]
              /\ d[2] \in written /\ d[2] \notin outbox \cup batch[q]
                   => d[2] \notin outbox' \cup batch'[q]
    PROVE  HandedInv'
BY DEF HandedInv, HandedOverOnce

\* Every step hands a declaration only what it was not told it took.
LEMMA NextHanded ==
    TypeOK /\ UnderWay /\ PassInv /\ HandedInv /\ [Next]_vars => HandedInv'
<1> SUFFICES ASSUME TypeOK, UnderWay, PassInv, HandedInv, [Next]_vars PROVE HandedInv'
  OBVIOUS
<1>1. ASSUME NEW p \in Processes, NEW d \in Deliveries, Delivered(p, d) PROVE HandedInv'
  <2>1. /\ d[2] = Current(p)
        /\ d[2] \in batch[p]
        /\ d[2] \in written
        /\ d[2] \notin published[p]
    <3>1. d[2] = Current(p)
      BY <1>1, MatchesType DEF Delivered, Untaken, PassInv
    <3>2. Current(p) \in batch[p]
      BY <1>1, OldestIsARow DEF Delivered, Untaken, Current, UnderWay, TypeOK
    <3> QED BY <3>1, <3>2 DEF PassInv
  <2>2. d \notin acked[p]
    BY <1>1, <2>1 DEF Delivered, Untaken, HandedInv
  <2>3. repeated' = repeated /\ UNCHANGED <<written, outbox, batch, published>>
    BY <1>1, <2>2 DEF Delivered
  <2>4. /\ acked' = [acked EXCEPT ![p] = @ \cup {d}]
        /\ taken' = [taken EXCEPT ![p][d[2]] = @ \cup {d[1]}]
    BY <1>1, <2>1 DEF Delivered, Remember
  <2>5. ASSUME NEW q \in Processes, NEW c \in acked[q], q # p \/ c # d
        PROVE  d[2] \in Events /\ taken[q][c[2]] \subseteq taken'[q][c[2]]
    BY <2>1, <2>4 DEF TypeOK
  <2>6. d[1] \in taken'[p][d[2]]
    BY <2>1, <2>4 DEF TypeOK
  <2> SUFFICES ASSUME NEW q \in Processes, NEW c \in acked'[q]
               PROVE  /\ c[2] \in written'
                      /\ \/ c[1] \in taken'[q][c[2]]
                         \/ c[2] \in published'[q]
                         \/ c[2] \notin outbox' \cup batch'[q]
    BY <2>3 DEF HandedInv, HandedOverOnce
  <2>7. CASE q = p /\ c = d
    BY <2>1, <2>3, <2>6, <2>7
  <2>8. CASE c \in acked[q] /\ (q # p \/ c # d)
    BY <2>3, <2>5, <2>8 DEF HandedInv
  <2>9. c \in acked[q] \/ (q = p /\ c = d)
    BY <2>4 DEF TypeOK
  <2> QED BY <2>7, <2>8, <2>9
<1>2. ASSUME NEW p \in Processes, NEW d \in Deliveries,
             SkipTaken(p, d) \/ NoQueue(p, d) \/ PublishFails(p, d)
      PROVE  HandedInv'
  <2>1. UNCHANGED <<repeated, written, outbox, batch, published, acked>>
    BY <1>2 DEF SkipTaken, NoQueue, PublishFails, handed
  <2>2. \A q \in Processes, e \in Events : taken[q][e] \subseteq taken'[q][e]
    BY <1>2 DEF SkipTaken, NoQueue, PublishFails, Remember, TypeOK
  <2>3. \A q \in Processes : \A c \in acked[q] : c[2] \in Events
    BY DEF TypeOK, Deliveries
  <2> QED BY <2>1, <2>2, <2>3, StillHanded
<1>3. ASSUME NEW p \in Processes, RowTaken(p) PROVE HandedInv'
  <2> DEFINE e == Oldest(batch[p])
  <2>1. /\ UNCHANGED <<repeated, written, outbox, acked>>
        /\ batch' = [batch EXCEPT ![p] = batch[p] \ {e}]
        /\ published' = [published EXCEPT ![p] = published[p] \cup {e}]
        /\ taken' = [taken EXCEPT ![p][e] = {}]
    BY <1>3 DEF RowTaken, NextRow, handed
  <2> HIDE DEF e
  <2>2. \A q \in Processes, f \in Events : (q # p \/ f # e) => taken'[q][f] = taken[q][f]
    BY <2>1 DEF TypeOK
  <2>3. \A q \in Processes : \A c \in acked[q] : c[2] \in Events
    BY DEF TypeOK, Deliveries
  <2>4. /\ \A q \in Processes : published[q] \subseteq published'[q] /\ batch'[q] \subseteq batch[q]
        /\ e \in published'[p]
    BY <2>1 DEF TypeOK
  <2> QED BY <2>1, <2>2, <2>3, <2>4, StillHanded
<1>4. ASSUME NEW p \in Processes, RowKept(p) PROVE HandedInv'
  <2>1. UNCHANGED <<repeated, written, outbox, acked, taken>>
    BY <1>4 DEF RowKept, handed
  <2>2. published' = published /\ \A q \in Processes : batch'[q] \subseteq batch[q]
    <3>1. CASE published[p] = {} /\ EndPass(p)
      BY <3>1 DEF EndPass, TypeOK
    <3>2. CASE NextRow(p, batch[p] \ {Oldest(batch[p])}, published[p])
      BY <3>2 DEF NextRow, TypeOK
    <3> QED BY <1>4, <3>1, <3>2 DEF RowKept
  <2> QED BY <2>1, <2>2, StillHanded
<1>5. ASSUME NEW p \in Processes, ForgetEvents(p) PROVE HandedInv'
  <2>1. /\ UNCHANGED <<repeated, written, acked>>
        /\ outbox' = outbox \ published[p]
        /\ batch' = [batch EXCEPT ![p] = {}]
        /\ published' = [published EXCEPT ![p] = {}]
        /\ \A q \in Processes, e \in Events :
             taken'[q][e] = IF q = p /\ e \in published[p] THEN {} ELSE taken[q][e]
    BY <1>5 DEF ForgetEvents, EndPass, handed, TypeOK
  <2>2. \A q \in Processes : \A c \in acked[q] : c[2] \in Events
    BY DEF TypeOK, Deliveries
  <2> QED BY <2>1, <2>2, StillHanded DEF TypeOK
<1>6. ASSUME NEW p \in Processes, ForgetFails(p) PROVE HandedInv'
  <2>1. /\ UNCHANGED <<repeated, written, taken>>
        /\ outbox' \subseteq outbox
        /\ batch' = [batch EXCEPT ![p] = {}]
        /\ published' = [published EXCEPT ![p] = {}]
        /\ acked' = [acked EXCEPT ![p] = {d \in @ : d[2] \notin published[p]}]
    BY <1>6 DEF ForgetFails, EndPass
  <2> QED BY <2>1, StillHanded DEF TypeOK
<1>7. ASSUME NEW p \in Processes, Crash(p) PROVE HandedInv'
  <2>1. /\ UNCHANGED <<repeated, written, outbox>>
        /\ acked' = [acked EXCEPT ![p] = {}]
        /\ batch' = [batch EXCEPT ![p] = {}]
        /\ published' = [published EXCEPT ![p] = {}]
        /\ taken' = [taken EXCEPT ![p] = [e \in Events |-> {}]]
    BY <1>7 DEF Crash, EndPass
  <2> QED BY <2>1, StillHanded DEF TypeOK
<1>8. ASSUME NEW p \in Processes, ReadPending(p) \/ PassFails(p) PROVE HandedInv'
  <2>1. UNCHANGED <<repeated, written, outbox, acked, taken>> /\ published[p] = {}
    BY <1>8 DEF ReadPending, PassFails, handed, PassInv
  <2>2. CASE EndPass(p)
    <3>1. published' = published /\ \A q \in Processes : batch'[q] \subseteq batch[q]
      BY <2>1, <2>2 DEF EndPass, TypeOK
    <3> QED BY <2>1, <3>1, StillHanded
  <2>3. CASE ~ EndPass(p)
    <3>1. published' = published /\ batch' = [batch EXCEPT ![p] = PendingEvents]
      BY <1>8, <2>3 DEF ReadPending, PassFails
    <3>2. PendingEvents \subseteq outbox
      BY DEF PendingEvents
    <3> QED BY <2>1, <3>1, <3>2, StillHanded DEF TypeOK
  <2> QED BY <2>2, <2>3
<1>9. ASSUME NEW e \in Events, Commit(e) PROVE HandedInv'
  BY <1>9, StillHanded DEF Commit, pass, handed
<1>10. ASSUME UNCHANGED <<repeated, written, outbox, acked, taken, batch, published>>
       PROVE  HandedInv'
  BY <1>10, StillHanded
<1>11. ASSUME \/ Tick
              \/ \E d \in Deliveries : WindowCloses(d)
              \/ \E p \in Processes : Claim(p) \/ ClaimLost(p) \/ EnsureTopology(p)
              \/ UNCHANGED vars
       PROVE  UNCHANGED <<repeated, written, outbox, acked, taken, batch, published>>
  BY <1>11 DEF Tick, WindowCloses, Claim, ClaimLost, EnsureTopology, vars, pass, handed
<1> QED
  BY <1>1, <1>2, <1>3, <1>4, <1>5, <1>6, <1>7, <1>8, <1>9, <1>10, <1>11 DEF Next, Loop, Match

\* A process hands a declaration the same change once, however many passes the
\* refusals of the others keep its row in the table for.
THEOREM ADeclarationIsHandedAChangeOnce == Spec => []HandedOverOnce
<1>1. Init => HandedInv
  BY DEF Init, HandedInv, HandedOverOnce
<1>2. HandedInv => HandedOverOnce
  BY DEF HandedInv
<1> QED
  BY <1>1, <1>2, PassInvariant, NextHanded, PTL DEF Spec

-----------------------------------------------------------------------------
(* Seen from outside, the drain is ChangeDelivery.                         *)

\* A delivery the stream stores is one of a change committed, to a declaration the
\* change is owed to.
LEMMA StoredIsOwed ==
    ASSUME TypeOK, UnderWay, PassInv, NEW p \in Processes, NEW d \in Deliveries,
           Untaken(p, d), d[1] \in Queued
    PROVE  d[2] \in Events /\ d[2] \in written /\ d[1] \in Triggers /\ d[1] \in Owed(d[2])
<1>1. d \in MatchesOf(Current(p)) /\ d[2] = Current(p)
  BY MatchesType DEF Untaken, PassInv
<1>2. Current(p) \in batch[p]
  BY OldestIsARow DEF Untaken, Current, UnderWay, TypeOK
<1>3. d[2] \in Events /\ d[2] \in written /\ d[1] \in Triggers
  BY <1>1, <1>2 DEF PassInv, Deliveries
<1>4. d[1] \in Concerns[d[2]] /\ d[3] \in FieldsOf(d[1], d[2])
  BY <1>1 DEF MatchesOf
<1> QED BY <1>3, <1>4 DEF Owed

\* Storing a delivery adds its declaration and its change to what was reached, and
\* nothing else.
LEMMA StoreReachesOne ==
    ASSUME TypeOK, WindowInv, [Next]_vars, NEW p \in Processes, NEW d \in Deliveries, Store(p, d),
           NEW t \in Triggers, NEW e \in Events
    PROVE  Reached(t, e)' <=> Reached(t, e) \/ <<t, e>> = <<d[1], d[2]>>
<1>1. <<t, e>> = <<d[1], d[2]>> => Reached(t, e)'
  BY StoreReaches
<1>2. Reached(t, e) => Reached(t, e)'
  BY ReachedStays
<1>3. ASSUME Reached(t, e)', <<t, e>> # <<d[1], d[2]>> PROVE Reached(t, e)
  <2>1. PICK f \in Fields \cup {Row} : copies'[<<t, e, f>>] > 0
    BY <1>3 DEF Reached
  <2>2. <<t, e, f>> \in Deliveries /\ <<t, e, f>> # d
    BY <1>3 DEF Deliveries
  <2>3. copies'[<<t, e, f>>] = copies[<<t, e, f>>]
    BY <2>2 DEF Store, TypeOK
  <2> QED BY <2>1, <2>3 DEF Reached
<1> QED BY <1>1, <1>2, <1>3

\* Every step does from outside what ChangeDelivery says, or nothing.
LEMMA NextOutside ==
    TypeOK /\ UnderWay /\ PassInv /\ WindowInv /\ LeavingInv /\ [Next]_vars
        => [Outside!Next]_(Outside!deliveryVars)
<1> SUFFICES ASSUME TypeOK, UnderWay, PassInv, WindowInv, LeavingInv, [Next]_vars
             PROVE  Outside!Next \/ UNCHANGED Outside!deliveryVars
  OBVIOUS
<1> DEFINE Had == {x \in Triggers \X Events : Reached(x[1], x[2])}
<1>1. ASSUME UNCHANGED copies PROVE Had' = Had
  BY <1>1 DEF Reached
<1>2. ASSUME UNCHANGED <<outbox, written, copies>> PROVE UNCHANGED Outside!deliveryVars
  BY <1>1, <1>2 DEF Outside!deliveryVars
<1>3. ASSUME NEW e \in Events, Commit(e) PROVE Outside!Next
  <2>1. Outside!Write(e)
    BY <1>1, <1>3 DEF Commit, stream, Outside!Write
  <2> QED BY <2>1 DEF Outside!Next
<1>4. ASSUME NEW p \in Processes, NEW d \in Deliveries, Untaken(p, d), d[1] \in Queued,
             Store(p, d), UNCHANGED <<outbox, written>>
      PROVE  Outside!Next
  <2>1. d[2] \in Events /\ d[2] \in written /\ d[1] \in Triggers /\ d[1] \in Owed(d[2])
    BY <1>4, StoredIsOwed
  <2>2. Had' = Had \cup {<<d[1], d[2]>>}
    BY <1>4, <2>1, StoreReachesOne
  <2>3. Outside!Reach(d[1], d[2])
    BY <1>4, <2>1, <2>2 DEF Outside!Reach
  <2> QED BY <2>1, <2>3 DEF Outside!Next
<1>5. ASSUME NEW p \in Processes, ForgetEvents(p) \/ ForgetFails(p) PROVE Outside!Next
  <2>1. /\ outbox' \subseteq outbox /\ outbox \ outbox' \subseteq published[p]
        /\ UNCHANGED <<written, copies>>
    BY <1>5 DEF ForgetEvents, ForgetFails, stream
  <2>2. \A e \in outbox \ outbox' : \A t \in Owed(e) : e \in Events /\ <<t, e>> \in Had
    BY <2>1, OwedType DEF LeavingInv, TypeOK
  <2>3. Outside!Leave
    BY <1>1, <2>1, <2>2 DEF Outside!Leave, TypeOK
  <2> QED BY <2>3 DEF Outside!Next
<1>6. ASSUME NEW p \in Processes, NEW d \in Deliveries, Delivered(p, d) PROVE Outside!Next
  BY <1>4, <1>6 DEF Delivered
<1>7. ASSUME NEW p \in Processes, NEW d \in Deliveries, PublishFails(p, d)
      PROVE  Outside!Next \/ UNCHANGED Outside!deliveryVars
  BY <1>2, <1>4, <1>7 DEF PublishFails, stream
<1>8. ASSUME NEW p \in Processes,
             \/ Claim(p) \/ ClaimLost(p) \/ ReadPending(p) \/ EnsureTopology(p)
             \/ PassFails(p) \/ RowTaken(p) \/ RowKept(p) \/ Crash(p)
             \/ \E d \in Deliveries : SkipTaken(p, d) \/ NoQueue(p, d)
      PROVE  UNCHANGED <<outbox, written, copies>>
  BY <1>8 DEF Claim, ClaimLost, ReadPending, EnsureTopology, PassFails, RowTaken, RowKept,
              Crash, SkipTaken, NoQueue, stream
<1>9. ASSUME Tick \/ (\E d \in Deliveries : WindowCloses(d)) \/ UNCHANGED vars
      PROVE  UNCHANGED <<outbox, written, copies>>
  BY <1>9 DEF Tick, WindowCloses, vars, stream
<1> QED
  BY <1>2, <1>3, <1>5, <1>6, <1>7, <1>8, <1>9 DEF Next, Loop, Match

\* The outbox and the replicas that drain it implement ChangeDelivery: a change is
\* written, reaches the declarations it is owed to, and leaves once it reached them
\* all, whichever passes overlap, die, are refused or lose an answer.
THEOREM DrainDeliversChanges == Spec => DeliversChanges
<1> DEFINE Held == RememberedInv /\ TriedInv /\ LeavingInv
<1>1. Init => Held /\ Outside!Init
  <2> SUFFICES ASSUME Init PROVE Held /\ Outside!Init
    OBVIOUS
  <2>1. Held
    BY DEF Init, RememberedInv, TriedInv, LeavingInv
  <2>2. ASSUME NEW t \in Triggers, NEW e \in Events PROVE ~ Reached(t, e)
    <3>1. ASSUME NEW f \in Fields \cup {Row} PROVE ~ (copies[<<t, e, f>>] > 0)
      <4>1. <<t, e, f>> \in Deliveries
        BY DEF Deliveries
      <4>2. copies[<<t, e, f>>] = 0
        BY <4>1 DEF Init
      <4> QED BY <4>2
    <3> QED BY <3>1 DEF Reached
  <2>3. {x \in Triggers \X Events : Reached(x[1], x[2])} = {}
    BY <2>2
  <2> QED BY <2>1, <2>3 DEF Init, Outside!Init
<1>2. TypeOK /\ UnderWay /\ PassInv /\ WindowInv /\ Held /\ [Next]_vars => Held'
  BY NextRemembered, NextTried, NextLeaving
<1>3. TypeOK /\ UnderWay /\ PassInv /\ WindowInv /\ Held /\ [Next]_vars
        => [Outside!Next]_(Outside!deliveryVars)
  BY NextOutside
<1> QED
  BY <1>1, <1>2, <1>3, PassInvariant, WindowInvariant, PTL
     DEF Spec, DeliversChanges, Outside!Spec
=============================================================================
