------------------------- MODULE QueueDelivery_proofs -------------------------
(* Theorems of QueueDelivery, for any messages, queues, replicas and faults. *)
EXTENDS QueueDelivery, FiniteSetTheorems, WellFoundedInduction, TLAPS

-----------------------------------------------------------------------------
(* The greatest number of deliveries.                                      *)

\* A finite set of naturals has a greatest element: of those that had none, one that is
\* smallest by inclusion would have it as soon as an element is taken out.
LEMMA FiniteHasMax ==
    ASSUME NEW S \in SUBSET Nat, IsFiniteSet(S), S # {}
    PROVE  Max(S) \in S /\ \A n \in S : Max(S) >= n
<1> DEFINE R == StrictSubsetOrdering(Nat)
<1> DEFINE F == FiniteSubsetsOf(Nat)
<1> DEFINE T == {U \in F : U # {} /\ ~ \E n \in U : \A k \in U : n >= k}
<1>1. T = {}
  <2> SUFFICES ASSUME T # {} PROVE FALSE
    OBVIOUS
  <2>1. IsWellFoundedOn(R, F) /\ T \subseteq F
    BY FS_StrictSubsetOrderingWellFounded
  <2> HIDE DEF R, F
  <2>2. PICK U \in T : \A V \in T : ~(<<V, U>> \in R)
    BY <2>1, WFMin
  <2> USE DEF R, F
  <2>3. PICK x : x \in U
    OBVIOUS
  <2>4. U \subseteq Nat /\ IsFiniteSet(U)
    BY DEF FiniteSubsetsOf
  <2>5. U \ {x} \in F
    BY <2>4, FS_RemoveElement DEF FiniteSubsetsOf
  <2>6. <<U \ {x}, U>> \in R
    BY <2>3, <2>4 DEF StrictSubsetOrdering
  <2>7. U \ {x} = {} \/ \E n \in U \ {x} : \A k \in U \ {x} : n >= k
    BY <2>2, <2>5, <2>6
  <2>8. \E n \in U : \A k \in U : n >= k
    BY <2>3, <2>4, <2>7
  <2> QED BY <2>8
<1>2. S \in F
  BY DEF FiniteSubsetsOf
<1>3. \E n \in S : \A k \in S : n >= k
  BY <1>1, <1>2
<1> QED BY <1>3 DEF Max

\* max_deliver is one more than any queue tries.
LEMMA MaxDeliverAboveRetries ==
    ASSUME QueueAssumption
    PROVE  /\ MaxDeliver \in Nat /\ MaxDeliver > 0
           /\ \A q \in Queues : MaxRetries[q] \in Nat \ {0} /\ MaxRetries[q] < MaxDeliver
<1> DEFINE policies == {MaxRetries[q] : q \in Queues}
<1> DEFINE all == {DefaultRetries} \cup policies
<1>1. MaxRetries \in Surjection(Queues, policies)
  BY DEF QueueAssumption, Surjection
<1>2. IsFiniteSet(policies)
  BY <1>1, FS_Surjection DEF QueueAssumption
<1>3. IsFiniteSet(all)
  BY <1>2, FS_AddElement
<1>4. all \in SUBSET Nat /\ all # {}
  BY DEF QueueAssumption
<1>5. PICK top : top = Max(all) /\ top \in all /\ \A n \in all : top >= n
  BY <1>3, <1>4, FiniteHasMax
<1>6. MaxDeliver = top + 1 /\ top \in Nat
  BY <1>4, <1>5 DEF MaxDeliver
<1>7. \A q \in Queues : MaxRetries[q] \in all /\ MaxRetries[q] \in Nat \ {0}
  BY DEF QueueAssumption
<1> HIDE DEF all
<1>8. \A q \in Queues : MaxRetries[q] < MaxDeliver
  BY <1>5, <1>6, <1>7
<1> QED BY <1>6, <1>7, <1>8

\* Numbers of deliveries make finite sets, of no more elements than a set they are in.
LEMMA NumbersFinite ==
    ASSUME NEW k \in Nat, NEW T \in SUBSET (1..k), NEW S \in SUBSET T
    PROVE  /\ IsFiniteSet(T) /\ Cardinality(T) \in Nat /\ IsFiniteSet(S) /\ Cardinality(S) \in Nat
           /\ Cardinality(S) <= Cardinality(T)
           /\ \A n : n \notin S => Cardinality(S \cup {n}) = Cardinality(S) + 1
<1>1. IsFiniteSet(1..k)
  BY FS_Interval
<1>2. IsFiniteSet(T)
  BY <1>1, FS_Subset
<1>3. IsFiniteSet(S) /\ Cardinality(S) <= Cardinality(T)
  BY <1>2, FS_Subset
<1> QED BY <1>2, <1>3, FS_CardinalityType, FS_AddElement

\* The deliveries counted from the first are as many as the last one's number.
LEMMA FirstDeliveries == \A k \in Nat : IsFiniteSet(1..k) /\ Cardinality(1..k) = k
BY FS_Interval

-----------------------------------------------------------------------------
(* What a step does to the deliveries in hand.                             *)

Stages == {"held", "failed", "spent"}

\* The numbers of the deliveries of m among cs.
Numbers(cs, m) == {c.nth : c \in {d \in cs : d.msg = m}}

InHand(m, n) == \E c \in copies : c.msg = m /\ c.nth = n

\* A delivery is the same at another stage.
LEMMA MovedCopy ==
    ASSUME NEW c \in Copies, NEW stage \in Stages
    PROVE  LET d == [c EXCEPT !.stage = stage]
           IN  d \in Copies /\ d.msg = c.msg /\ d.by = c.by /\ d.nth = c.nth /\ d.stage = stage
BY DEF Copies, Stages

\* History gains the numbers of the deliveries it is given.
LEMMA WithNumbers ==
    ASSUME NEW f, NEW cs, NEW m \in Msgs
    PROVE  /\ With(f, cs)[m] = f[m] \cup Numbers(cs, m)
           /\ \A n : n \in Numbers(cs, m) <=> \E c \in cs : c.msg = m /\ c.nth = n
           /\ \A c \in cs : c.msg = m => c.nth \in Numbers(cs, m)
BY DEF With, Numbers

-----------------------------------------------------------------------------
(* The inductive invariant.                                                *)

Deliveries(m) == 1..count[m]
Over(m) == server[m] \in {"done", "stopped"}
Tried(m) == Cardinality(tried[m] \cup lost[m] \cup misread[m])
Ended(m) == m \in dead \cup succeeded

\* The deliveries of a message are numbered one after the other, and each is in the hands
\* of one replica until it is over.
Numbered ==
    /\ \A c \in copies : c.nth \in Deliveries(c.msg) /\ c.nth \notin handed[c.msg]
    /\ \A c, d \in copies : c.msg = d.msg /\ c.nth = d.nth => c = d
    /\ \A m \in Msgs : /\ tried[m] \cup handed[m] \cup lost[m] \subseteq Deliveries(m)
                       /\ misread[m] \subseteq handed[m]
                       /\ server[m] = "none" => count[m] = 0
                       /\ server[m] = "stopped" => count[m] = MaxDeliver

\* What a delivery in hand is at its stage for.
Staged ==
    \A c \in copies : IF c.stage = "held" THEN c.nth \notin tried[c.msg]
                      ELSE c.msg \notin unreadable /\ c.nth \in tried[c.msg] \cup lost[c.msg]

\* A delivery in hand is the last one made, or is lost.
HeldIsLast == \A c \in copies : c.nth = count[c.msg] \/ c.nth \in lost[c.msg]

\* With none lost, the server waits for the one in hand and is done once the message ends.
NoneLost ==
    \A m \in Msgs : lost[m] = {} => /\ \A c \in copies : c.msg = m => server[m] = "out"
                                    /\ Ended(m) => server[m] = "done"

\* Every delivery is accounted for.
Accounted ==
    \A m \in Msgs : \A n \in Deliveries(m) :
        \/ n \in tried[m] \cup handed[m] \cup lost[m]
        \/ InHand(m, n)
        \/ n = count[m] /\ Over(m) /\ Ended(m)

\* The note of the hand-backs is theirs, but for those misread.
NotedAsHanded ==
    \A m \in Msgs :
        /\ noted[m] <= Cardinality(handed[m])
        /\ noted[m] >= Cardinality(handed[m] \ misread[m]) \/ m \in dead

SpentAfterItsTries == \A c \in copies : c.stage = "spent" => Tried(c.msg) >= Retries(c.msg)

\* One that was refused and went back had tries left, or hand-backs before it to take off.
WeighedBack ==
    \A m \in Msgs \ dead : \A n \in tried[m] \ lost[m] :
        InHand(m, n) \/ n < Retries(m) + Cardinality({h \in handed[m] : h < n})

IInv ==
    /\ TypeOK /\ Numbered /\ Staged /\ HeldIsLast /\ NoneLost /\ Accounted
    /\ NotedAsHanded /\ SpentAfterItsTries /\ WeighedBack
    /\ FiledAfterItsTries /\ SuccessFiledOnlyUnanswered

-----------------------------------------------------------------------------
(* What the steps that handle deliveries in hand have in common: those of   *)
(* gone leave the stage they are at, those of on for another stage.         *)

HandlesCopies(gone, on, stage) ==
    /\ gone \subseteq copies /\ on \subseteq gone /\ stage \in {"failed", "spent"}
    /\ copies' = (copies \ gone) \cup Moved(on, stage)
    /\ UNCHANGED <<queue, unreadable, count>>
    /\ \A c \in on : c.msg \notin unreadable /\ c.nth \in tried'[c.msg] \cup lost'[c.msg]

HandlesServer(gone, on) ==
    /\ server' \in [Msgs -> {"none", "ready", "out", "done", "stopped"}]
    /\ \A m \in Msgs :
         /\ \/ server'[m] = server[m]
            \/ server[m] = "out" /\ server'[m] = "ready"
            \/ server[m] \in {"out", "ready"} /\ server'[m] = "done"
         /\ server'[m] # server[m] => lost'[m] # {} \/ \E c \in gone \ on : c.msg = m

HandlesHistory(gone, on) ==
    /\ tried' \in [Msgs -> SUBSET Nat] /\ handed' \in [Msgs -> SUBSET Nat]
    /\ misread' \in [Msgs -> SUBSET Nat] /\ lost' \in [Msgs -> SUBSET Nat]
    /\ \A m \in Msgs :
         /\ tried[m] \subseteq tried'[m] /\ tried'[m] \subseteq tried[m] \cup Numbers(on, m)
         /\ handed[m] \subseteq handed'[m]
         /\ handed'[m] \subseteq handed[m] \cup Numbers(gone \ on, m)
         /\ misread[m] \subseteq misread'[m] /\ misread'[m] \subseteq misread[m] \cup handed'[m]
         /\ lost[m] \subseteq lost'[m] /\ lost'[m] \subseteq lost[m] \cup Numbers(gone, m)

\* A message that ends is done for the server, or one of its deliveries is lost; and what
\* leaves the hands of a replica is accounted for.
HandlesFates(gone, on) ==
    /\ dead \subseteq dead' /\ dead' \subseteq Msgs
    /\ succeeded \subseteq succeeded' /\ succeeded' \subseteq Msgs
    /\ dead' = dead \/ succeeded' = succeeded
    /\ \A m \in (dead' \ dead) \cup (succeeded' \ succeeded) :
         /\ \E c \in gone : c.msg = m
         /\ lost'[m] # {} \/ server'[m] \notin {"ready", "out"}
    /\ \A c \in gone \ on :
         \/ c.nth \in tried'[c.msg] \cup handed'[c.msg] \cup lost'[c.msg]
         \/ Ended(c.msg)' /\ server'[c.msg] \notin {"ready", "out"}

\* What goes back has tries left, or hand-backs to take off; what is spent or filed has
\* had its tries; and the note follows the hand-backs.
HandlesPolicy(gone, on, stage) ==
    /\ \A c \in gone \ on :
         \/ c.nth \notin tried[c.msg] \/ c.nth \in lost'[c.msg] \/ c.msg \in dead'
         \/ c.nth < Retries(c.msg) + Cardinality({h \in handed[c.msg] : h < c.nth})
    /\ \A c \in on : stage = "spent" => Tried(c.msg)' >= Retries(c.msg)
    /\ \A m \in dead' \ dead : m \in unreadable \/ \E c \in copies : c.msg = m /\ c.stage = "spent"
    /\ noted' \in [Msgs -> Nat]
    /\ \A m \in Msgs :
         \/ noted'[m] = noted[m] /\ handed'[m] \ misread'[m] \subseteq handed[m] \ misread[m]
         \/ noted'[m] = 0 /\ m \in dead'
         \/ /\ noted'[m] = noted[m] + 1 /\ misread'[m] = misread[m]
            /\ \E n \in Nat \ handed[m] : handed'[m] = handed[m] \cup {n}

Handles(gone, on, stage) ==
    /\ HandlesCopies(gone, on, stage) /\ HandlesServer(gone, on)
    /\ HandlesHistory(gone, on) /\ HandlesFates(gone, on) /\ HandlesPolicy(gone, on, stage)
    /\ faults' \in 0..MaxFaults

\* Each delivery in hand after such a step was in hand before it, and is one of its kind.
LEMMA CopiesHandled ==
    ASSUME TypeOK, Numbered, NEW gone, NEW on, NEW stage, HandlesCopies(gone, on, stage)
    PROVE  /\ copies' \subseteq Copies
           /\ \A c \in copies' : \/ c \in copies \ gone
                               \/ /\ c.stage = stage
                                  /\ \E d \in on : d.msg = c.msg /\ d.nth = c.nth
           /\ \A c, d \in copies' : c.msg = d.msg /\ c.nth = d.nth => c = d
           /\ \A m \in Msgs, n \in Nat : InHand(m, n) /\ ~InHand(m, n)'
                => \E c \in gone \ on : c.msg = m /\ c.nth = n
<1>1. /\ stage \in Stages /\ on \subseteq Copies /\ copies \subseteq Copies
      /\ on \subseteq copies
  BY DEF HandlesCopies, Stages, TypeOK
<1>2. \A c \in copies' : c \in copies \ gone \/ \E d \in on : c = [d EXCEPT !.stage = stage]
  BY DEF HandlesCopies, Moved
<1>3. \A d \in on : /\ [d EXCEPT !.stage = stage] \in Copies
                    /\ [d EXCEPT !.stage = stage].msg = d.msg
                    /\ [d EXCEPT !.stage = stage].nth = d.nth
                    /\ [d EXCEPT !.stage = stage].stage = stage
                    /\ [d EXCEPT !.stage = stage] \in copies'
  BY <1>1, MovedCopy DEF HandlesCopies, Moved
<1>4. copies' \subseteq Copies
  BY <1>1, <1>2, <1>3
<1>5. ASSUME NEW c \in copies', NEW d \in copies', c.msg = d.msg, c.nth = d.nth PROVE c = d
  <2>1. \A e, f \in copies : e.msg = f.msg /\ e.nth = f.nth => e = f
    BY DEF Numbered
  <2>2. on \subseteq gone
    BY DEF HandlesCopies
  <2>3. CASE c \in copies \ gone /\ d \in copies \ gone
    BY <1>5, <2>1, <2>3
  <2>4. CASE c \in copies \ gone /\ \E e \in on : d = [e EXCEPT !.stage = stage]
    BY <1>1, <1>3, <1>5, <2>1, <2>2, <2>4
  <2>5. CASE d \in copies \ gone /\ \E e \in on : c = [e EXCEPT !.stage = stage]
    BY <1>1, <1>3, <1>5, <2>1, <2>2, <2>5
  <2>6. ASSUME NEW e \in on, NEW f \in on, c = [e EXCEPT !.stage = stage],
               d = [f EXCEPT !.stage = stage]
        PROVE  c = d
    BY <1>1, <1>3, <1>5, <2>1, <2>6
  <2> QED BY <1>2, <2>3, <2>4, <2>5, <2>6
<1>6. ASSUME NEW m \in Msgs, NEW n \in Nat, InHand(m, n), ~InHand(m, n)'
      PROVE  \E c \in gone \ on : c.msg = m /\ c.nth = n
  <2>1. PICK c \in copies : c.msg = m /\ c.nth = n
    BY <1>6 DEF InHand
  <2>2. c \notin copies' /\ c \notin on
    BY <1>3, <1>6, <2>1 DEF InHand
  <2> QED BY <2>1, <2>2 DEF HandlesCopies
<1>7. \A c \in copies' : \/ c \in copies \ gone
                         \/ c.stage = stage /\ \E d \in on : d.msg = c.msg /\ d.nth = c.nth
  BY <1>2, <1>3
<1>8. \A c, d \in copies' : c.msg = d.msg /\ c.nth = d.nth => c = d
  BY <1>5
<1>9. \A m \in Msgs, n \in Nat : InHand(m, n) /\ ~InHand(m, n)'
        => \E c \in gone \ on : c.msg = m /\ c.nth = n
  BY <1>6
<1> QED BY <1>4, <1>7, <1>8, <1>9

-----------------------------------------------------------------------------
(* Such a step keeps the invariant.                                         *)

\* The numbers and the stages of the deliveries in hand.
LEMMA HandlesNumbers ==
    ASSUME IInv, NEW gone, NEW on, NEW stage, Handles(gone, on, stage)
    PROVE  Numbered' /\ Staged' /\ HeldIsLast'
<1> /\ TypeOK /\ Numbered /\ Staged /\ HeldIsLast
    /\ HandlesCopies(gone, on, stage) /\ HandlesHistory(gone, on) /\ HandlesServer(gone, on)
  BY DEF IInv, Handles
<1> USE DEF Deliveries
<1>1. /\ gone \subseteq copies /\ on \subseteq gone /\ stage # "held" /\ count' = count
      /\ UNCHANGED unreadable /\ copies \subseteq Copies
      /\ \A c \in copies : c.msg \in Msgs /\ c.nth \in Nat
      /\ \A c, d \in copies : c.msg = d.msg /\ c.nth = d.nth => c = d
  BY DEF HandlesCopies, TypeOK, Numbered, Copies
<1>2. \A m \in Msgs, n \in Nat :
        /\ n \in Numbers(on, m) <=> (\E c \in on : c.msg = m /\ c.nth = n)
        /\ n \in Numbers(gone, m) <=> (\E c \in gone : c.msg = m /\ c.nth = n)
        /\ n \in Numbers(gone \ on, m) <=> (\E c \in gone \ on : c.msg = m /\ c.nth = n)
  BY DEF Numbers
<1>3. \A c \in copies' : /\ c.msg \in Msgs /\ c.nth \in Nat
                         /\ \E d \in copies : /\ d.msg = c.msg /\ d.nth = c.nth
                                              /\ d \in copies \ gone \/ d \in on
                                              /\ d \in on \/ c = d
  BY <1>1, CopiesHandled DEF Copies
<1>4. Numbered'
  <2>1. \A c, d \in copies' : c.msg = d.msg /\ c.nth = d.nth => c = d
    BY CopiesHandled
  <2>2. ASSUME NEW c \in copies' PROVE c.nth \in Deliveries(c.msg)' /\ c.nth \notin handed'[c.msg]
    <3>1. PICK d \in copies : /\ d.msg = c.msg /\ d.nth = c.nth
                              /\ d \in copies \ gone \/ d \in on
      BY <1>3
    <3>2. d.nth \in Deliveries(d.msg) /\ d.nth \notin handed[d.msg]
      BY DEF Numbered
    <3>3. \A e \in gone \ on : ~(e.msg = d.msg /\ e.nth = d.nth)
      BY <1>1, <3>1
    <3>4. d.nth \notin Numbers(gone \ on, d.msg)
      BY <3>3 DEF Numbers
    <3> QED BY <1>1, <1>3, <3>1, <3>2, <3>4 DEF HandlesHistory
  <2>3. ASSUME NEW m \in Msgs
        PROVE  tried'[m] \cup handed'[m] \cup lost'[m] \subseteq Deliveries(m)'
    <3>1. \A c \in copies : c.nth \in Deliveries(c.msg)
      BY DEF Numbered
    <3>2. \A n \in Nat : n \in Numbers(gone, m) \cup Numbers(on, m) \cup Numbers(gone \ on, m)
                           => n \in Deliveries(m)
      BY <1>1, <1>2, <3>1
    <3>3. /\ tried'[m] \subseteq Nat /\ handed'[m] \subseteq Nat /\ lost'[m] \subseteq Nat
          /\ tried[m] \cup handed[m] \cup lost[m] \subseteq Deliveries(m)
      BY DEF HandlesHistory, Numbered
    <3>4. \A n \in tried'[m] \cup handed'[m] \cup lost'[m] : n \in Deliveries(m)
      BY <3>2, <3>3 DEF HandlesHistory
    <3> QED BY <1>1, <3>4
  <2>4. \A m \in Msgs : misread'[m] \subseteq handed'[m]
    BY DEF HandlesHistory, Numbered
  <2>5. \A m \in Msgs : /\ server'[m] = "none" => count'[m] = 0
                        /\ server'[m] = "stopped" => count'[m] = MaxDeliver
    BY <1>1 DEF HandlesServer, Numbered
  <2> QED BY <2>1, <2>2, <2>3, <2>4, <2>5 DEF Numbered
<1>5. Staged'
  <2> SUFFICES ASSUME NEW c \in copies'
               PROVE  IF c.stage = "held" THEN c.nth \notin tried'[c.msg]
                      ELSE c.msg \notin unreadable /\ c.nth \in tried'[c.msg] \cup lost'[c.msg]
    BY <1>1 DEF Staged
  <2>1. CASE c \in copies \ gone
    <3>1. c.nth \notin Numbers(on, c.msg)
      BY <1>1, <1>2, <2>1
    <3> QED BY <1>1, <2>1, <3>1 DEF Staged, HandlesHistory
  <2>2. CASE c.stage = stage /\ \E d \in on : d.msg = c.msg /\ d.nth = c.nth
    BY <1>1, <2>2 DEF HandlesCopies
  <2> QED BY <2>1, <2>2, CopiesHandled
<1>6. HeldIsLast'
  BY <1>1, <1>3 DEF HeldIsLast, HandlesHistory
<1> QED BY <1>4, <1>5, <1>6

\* What the server waits for and what is accounted for, message by message.
LEMMA HandlesMessages ==
    ASSUME IInv, NEW gone, NEW on, NEW stage, Handles(gone, on, stage)
    PROVE  NoneLost' /\ Accounted' /\ SuccessFiledOnlyUnanswered'
<1> /\ TypeOK /\ Numbered /\ HeldIsLast /\ NoneLost /\ Accounted
    /\ HandlesCopies(gone, on, stage) /\ HandlesServer(gone, on) /\ HandlesHistory(gone, on)
    /\ HandlesFates(gone, on)
  BY DEF IInv, Handles
<1>1. /\ gone \subseteq copies /\ on \subseteq gone /\ count' = count
      /\ \A c \in copies : c.msg \in Msgs /\ c.nth \in Nat
      /\ \A c, d \in copies : c.msg = d.msg /\ c.nth = d.nth => c = d
  BY DEF HandlesCopies, TypeOK, Numbered, Copies
<1>2. ASSUME NEW m \in Msgs, lost'[m] = {}
      PROVE  /\ lost[m] = {}
             /\ \A c, d \in copies : c.msg = m /\ d.msg = m => c = d
             /\ \A c \in copies : c.msg = m => server[m] = "out" /\ ~Ended(m)
  <2>1. lost[m] = {}
    BY <1>2 DEF HandlesHistory
  <2>2. \A c \in copies : c.msg = m => c.nth = count[m] /\ server[m] = "out"
    BY <2>1 DEF HeldIsLast, NoneLost
  <2>3. Ended(m) => server[m] = "done"
    BY <2>1 DEF NoneLost
  <2> QED BY <1>1, <2>1, <2>2, <2>3
<1>3. NoneLost'
  <2> SUFFICES ASSUME NEW m \in Msgs, lost'[m] = {}
               PROVE  /\ \A c \in copies' : c.msg = m => server'[m] = "out"
                      /\ Ended(m)' => server'[m] = "done"
    BY DEF NoneLost
  <2>1. ASSUME NEW c \in copies', c.msg = m PROVE server'[m] = "out"
    <3>1. PICK d \in copies : d.msg = m /\ (d \in copies \ gone \/ d \in on)
      BY <1>1, <2>1, CopiesHandled
    <3>2. \A e \in gone \ on : e.msg # m
      BY <1>1, <1>2, <3>1
    <3> QED BY <1>2, <3>1, <3>2 DEF HandlesServer
  <2>2. ASSUME Ended(m)' PROVE server'[m] = "done"
    <3>1. CASE Ended(m)
      <4>1. server[m] = "done"
        BY <1>2, <3>1 DEF NoneLost
      <4> QED BY <4>1 DEF HandlesServer
    <3>2. CASE ~Ended(m)
      <4>1. /\ \E c \in gone : c.msg = m
            /\ server'[m] \notin {"ready", "out"}
        BY <2>2, <3>2 DEF Ended, HandlesFates
      <4>2. server[m] = "out"
        BY <1>1, <1>2, <4>1
      <4> QED BY <4>1, <4>2 DEF HandlesServer
    <3> QED BY <3>1, <3>2
  <2> QED BY <2>1, <2>2
<1>4. Accounted'
  <2> SUFFICES ASSUME NEW m \in Msgs, NEW n \in Deliveries(m)
               PROVE  \/ n \in tried'[m] \cup handed'[m] \cup lost'[m]
                      \/ InHand(m, n)'
                      \/ n = count[m] /\ Over(m)' /\ Ended(m)'
    BY <1>1 DEF Accounted, Deliveries
  <2>1. CASE n \in tried[m] \cup handed[m] \cup lost[m]
    BY <2>1 DEF HandlesHistory
  <2>2. CASE n = count[m] /\ Over(m) /\ Ended(m)
    BY <2>2 DEF HandlesServer, HandlesFates, Over, Ended
  <2>3. CASE InHand(m, n) /\ ~InHand(m, n)'
    <3>1. n \in Nat
      BY DEF Deliveries, TypeOK
    <3>2. PICK c \in gone \ on : c.msg = m /\ c.nth = n
      BY <2>3, <3>1, CopiesHandled
    <3>3. n = count[m] \/ n \in lost[m]
      BY <1>1, <3>2 DEF HeldIsLast
    <3>4. server[m] # "none"
      BY <3>1 DEF Numbered, Deliveries
    <3>5. server'[m] \in {"none", "ready", "out", "done", "stopped"} /\ server'[m] # "none"
      BY <3>4 DEF HandlesServer
    <3> QED BY <3>2, <3>3, <3>5 DEF HandlesFates, HandlesHistory, Over
  <2> QED BY <2>1, <2>2, <2>3 DEF Accounted
<1>5. SuccessFiledOnlyUnanswered'
  <2> SUFFICES ASSUME NEW m \in Msgs, m \in dead', m \in succeeded', lost'[m] = {} PROVE FALSE
    BY DEF SuccessFiledOnlyUnanswered, HandlesFates
  <2>1. m \notin dead \cap succeeded
    BY <1>2 DEF SuccessFiledOnlyUnanswered, IInv
  <2>2. Ended(m) /\ \E c \in gone : c.msg = m
    BY <2>1 DEF Ended, HandlesFates
  <2> QED BY <1>1, <1>2, <2>2
<1> QED BY <1>3, <1>4, <1>5

\* Tries are never taken back.
LEMMA HandlesTried ==
    ASSUME IInv, NEW gone, NEW on, NEW stage, Handles(gone, on, stage)
    PROVE  \A m \in Msgs : /\ Tried(m) \in Nat /\ Tried(m)' \in Nat /\ Tried(m) <= Tried(m)'
                           /\ Retries(m)' = Retries(m)
<1> SUFFICES ASSUME NEW m \in Msgs
             PROVE  /\ Tried(m) \in Nat /\ Tried(m)' \in Nat /\ Tried(m) <= Tried(m)'
                    /\ Retries(m)' = Retries(m)
  OBVIOUS
<1> DEFINE before == tried[m] \cup lost[m] \cup misread[m]
<1> DEFINE after == tried'[m] \cup lost'[m] \cup misread'[m]
<1>1. after \in SUBSET (1..count[m]) /\ count[m] \in Nat /\ UNCHANGED queue
  BY HandlesNumbers DEF Numbered, Deliveries, Handles, HandlesCopies, IInv, TypeOK
<1>2. before \in SUBSET after
  BY DEF Handles, HandlesHistory
<1> HIDE DEF before, after
<1>3. /\ Cardinality(after) \in Nat /\ Cardinality(before) \in Nat
      /\ Cardinality(before) <= Cardinality(after)
  BY <1>1, <1>2, NumbersFinite
<1> QED BY <1>1, <1>3 DEF Tried, Retries, before, after

\* What the policy is after: the note of the hand-backs and the tries a message has left.
LEMMA HandlesTries ==
    ASSUME QueueAssumption, IInv, NEW gone, NEW on, NEW stage, Handles(gone, on, stage)
    PROVE  NotedAsHanded' /\ SpentAfterItsTries' /\ WeighedBack' /\ FiledAfterItsTries'
<1> /\ TypeOK /\ Numbered /\ NotedAsHanded /\ WeighedBack
    /\ HandlesCopies(gone, on, stage) /\ HandlesHistory(gone, on)
    /\ HandlesFates(gone, on) /\ HandlesPolicy(gone, on, stage)
  BY DEF IInv, Handles
<1>1. /\ \A m \in Msgs : /\ Tried(m) \in Nat /\ Tried(m)' \in Nat /\ Tried(m) <= Tried(m)'
                         /\ Retries(m)' = Retries(m) /\ Retries(m) \in Nat
      /\ gone \subseteq copies /\ on \subseteq gone /\ UNCHANGED unreadable
      /\ \A c \in copies : c.msg \in Msgs /\ c.nth \in Nat
  BY HandlesTried DEF HandlesCopies, TypeOK, Copies, Retries, QueueAssumption
<1>2. SpentAfterItsTries'
  <2> SUFFICES ASSUME NEW c \in copies', c.stage = "spent" PROVE Tried(c.msg)' >= Retries(c.msg)'
    BY DEF SpentAfterItsTries
  <2>1. CASE c \in copies \ gone
    BY <1>1, <2>1 DEF IInv, SpentAfterItsTries
  <2>2. CASE c.stage = stage /\ \E d \in on : d.msg = c.msg /\ d.nth = c.nth
    BY <1>1, <2>2 DEF HandlesPolicy
  <2> QED BY <2>1, <2>2, CopiesHandled
<1>3. FiledAfterItsTries'
  <2> SUFFICES ASSUME NEW m \in dead' \ unreadable PROVE Tried(m)' >= Retries(m)'
    BY <1>1 DEF FiledAfterItsTries, Tried
  <2>1. m \in Msgs
    BY DEF HandlesFates
  <2>2. CASE m \in dead
    <3>1. Tried(m) >= Retries(m)
      BY <2>2 DEF IInv, FiledAfterItsTries, Tried
    <3> QED BY <1>1, <2>1, <3>1
  <2>3. CASE m \notin dead
    <3>1. PICK c \in copies : c.msg = m /\ c.stage = "spent"
      BY <2>3 DEF HandlesPolicy
    <3> QED BY <1>1, <2>1, <3>1 DEF IInv, SpentAfterItsTries
  <2> QED BY <2>2, <2>3
<1>4. ASSUME NEW m \in Msgs
      PROVE  /\ handed'[m] \in SUBSET (1..count[m]) /\ count[m] \in Nat
             /\ handed[m] \in SUBSET handed'[m] /\ misread[m] \subseteq handed[m]
  BY HandlesNumbers DEF Numbered, Deliveries, HandlesHistory, HandlesCopies, TypeOK
<1>5. NotedAsHanded'
  <2> SUFFICES ASSUME NEW m \in Msgs
               PROVE  /\ noted'[m] <= Cardinality(handed'[m])
                      /\ noted'[m] >= Cardinality(handed'[m] \ misread'[m]) \/ m \in dead'
    BY DEF NotedAsHanded
  <2>1. /\ Cardinality(handed'[m]) \in Nat /\ Cardinality(handed[m]) \in Nat
        /\ Cardinality(handed[m]) <= Cardinality(handed'[m]) /\ noted[m] \in Nat
        /\ noted[m] <= Cardinality(handed[m])
        /\ noted[m] >= Cardinality(handed[m] \ misread[m]) \/ m \in dead
    BY <1>4, NumbersFinite DEF NotedAsHanded, TypeOK
  <2>2. /\ Cardinality(handed[m] \ misread[m]) \in Nat
        /\ \A S \in SUBSET (handed[m] \ misread[m]) :
             Cardinality(S) \in Nat /\ Cardinality(S) <= Cardinality(handed[m] \ misread[m])
    <3>1. handed[m] \ misread[m] \in SUBSET (1..count[m])
      BY <1>4
    <3> QED BY <1>4, <3>1, NumbersFinite
  <2>3. CASE noted'[m] = noted[m] /\ handed'[m] \ misread'[m] \subseteq handed[m] \ misread[m]
    <3>1. /\ Cardinality(handed'[m] \ misread'[m]) \in Nat
          /\ Cardinality(handed'[m] \ misread'[m]) <= Cardinality(handed[m] \ misread[m])
      BY <2>2, <2>3
    <3>2. m \in dead => m \in dead'
      BY DEF HandlesFates
    <3> QED BY <2>1, <2>2, <2>3, <3>1, <3>2
  <2>4. CASE noted'[m] = 0 /\ m \in dead'
    BY <2>1, <2>4
  <2>5. ASSUME noted'[m] = noted[m] + 1, misread'[m] = misread[m],
               NEW n \in Nat \ handed[m], handed'[m] = handed[m] \cup {n}
        PROVE  /\ noted'[m] <= Cardinality(handed'[m])
               /\ noted'[m] >= Cardinality(handed'[m] \ misread'[m]) \/ m \in dead'
    <3>1. Cardinality(handed'[m]) = Cardinality(handed[m]) + 1
      BY <1>4, <2>5, NumbersFinite
    <3>2. handed'[m] \ misread'[m] = (handed[m] \ misread[m]) \cup {n}
      BY <1>4, <2>5
    <3>3. handed[m] \ misread[m] \in SUBSET handed'[m] /\ n \notin handed[m] \ misread[m]
      BY <1>4
    <3>4. Cardinality(handed'[m] \ misread'[m]) = Cardinality(handed[m] \ misread[m]) + 1
      BY <1>4, <3>2, <3>3, NumbersFinite
    <3> QED BY <2>1, <2>2, <2>5, <3>1, <3>4 DEF HandlesFates
  <2> QED BY <2>3, <2>4, <2>5 DEF HandlesPolicy
<1>6. WeighedBack'
  <2> SUFFICES ASSUME NEW m \in Msgs, m \notin dead', NEW n \in tried'[m], n \notin lost'[m],
                      ~InHand(m, n)'
               PROVE  n < Retries(m) + Cardinality({h \in handed'[m] : h < n})
    BY <1>1 DEF WeighedBack
  <2>1. n \in Nat /\ \A c \in on : ~(c.msg = m /\ c.nth = n)
    <3>1. n \in Nat
      BY DEF HandlesHistory
    <3>2. ASSUME NEW c \in on, c.msg = m, c.nth = n PROVE FALSE
      <4>1. InHand(m, n)
        BY <1>1, <3>2 DEF InHand
      <4>2. PICK d \in gone \ on : d.msg = m /\ d.nth = n
        BY <3>1, <4>1, CopiesHandled
      <4> QED BY <1>1, <3>2, <4>2 DEF Numbered
    <3> QED BY <3>1, <3>2
  <2>2. n \in tried[m] /\ n \notin lost[m] /\ m \notin dead
    <3>1. n \notin Numbers(on, m)
      BY <2>1 DEF Numbers
    <3> QED BY <3>1 DEF HandlesHistory, HandlesFates
  <2>3. n < Retries(m) + Cardinality({h \in handed[m] : h < n})
    <3>1. CASE InHand(m, n)
      <4>1. PICK c \in gone \ on : c.msg = m /\ c.nth = n
        BY <2>1, <3>1, CopiesHandled
      <4> QED BY <2>2, <4>1 DEF HandlesPolicy
    <3>2. CASE ~InHand(m, n)
      BY <2>2, <3>2 DEF WeighedBack
    <3> QED BY <3>1, <3>2
  <2>4. /\ Cardinality({h \in handed[m] : h < n}) \in Nat
        /\ Cardinality({h \in handed'[m] : h < n}) \in Nat
        /\ Cardinality({h \in handed[m] : h < n}) <= Cardinality({h \in handed'[m] : h < n})
    <3>1. {h \in handed'[m] : h < n} \in SUBSET (1..count[m])
      BY <1>4
    <3>2. {h \in handed[m] : h < n} \in SUBSET {h \in handed'[m] : h < n}
      BY <1>4
    <3> QED BY <1>4, <3>1, <3>2, NumbersFinite
  <2> QED BY <1>1, <2>1, <2>3, <2>4
<1> QED BY <1>2, <1>3, <1>5, <1>6

\* The whole of the invariant.
LEMMA HandlesInv ==
    ASSUME QueueAssumption, IInv, NEW gone, NEW on, NEW stage, Handles(gone, on, stage)
    PROVE  IInv'
<1>1. /\ Numbered' /\ Staged' /\ HeldIsLast' /\ NoneLost' /\ Accounted'
      /\ NotedAsHanded' /\ SpentAfterItsTries' /\ WeighedBack'
      /\ FiledAfterItsTries' /\ SuccessFiledOnlyUnanswered'
  BY HandlesNumbers, HandlesMessages, HandlesTries
<1>2. TypeOK'
  <2>1. /\ TypeOK /\ copies' \subseteq Copies
        /\ HandlesCopies(gone, on, stage) /\ HandlesServer(gone, on)
        /\ HandlesHistory(gone, on) /\ HandlesFates(gone, on) /\ HandlesPolicy(gone, on, stage)
    BY CopiesHandled DEF IInv, Handles
  <2>2. /\ queue' \in [Msgs -> Queues] /\ unreadable' \subseteq Msgs
        /\ server' \in [Msgs -> {"none", "ready", "out", "done", "stopped"}]
        /\ count' \in [Msgs -> 0..MaxDeliver] /\ dead' \subseteq Msgs /\ succeeded' \subseteq Msgs
        /\ noted' \in [Msgs -> Nat] /\ faults' \in 0..MaxFaults
    BY <2>1 DEF TypeOK, HandlesCopies, HandlesServer, HandlesFates, HandlesPolicy, Handles
  <2>3. \A m \in Msgs : /\ tried'[m] \cup handed'[m] \cup lost'[m] \cup misread'[m]
                             \subseteq 1..count'[m]
                        /\ count'[m] \in 0..MaxDeliver
    BY <1>1, <2>2 DEF Numbered, Deliveries
  <2>4. MaxDeliver \in Nat
    BY MaxDeliverAboveRetries
  <2>5. \A m \in Msgs : /\ tried'[m] \subseteq 1..MaxDeliver /\ handed'[m] \subseteq 1..MaxDeliver
                        /\ lost'[m] \subseteq 1..MaxDeliver /\ misread'[m] \subseteq 1..MaxDeliver
    BY <2>3, <2>4
  <2>6. {tried', handed', misread', lost'} \subseteq [Msgs -> SUBSET (1..MaxDeliver)]
    BY <2>1, <2>5 DEF HandlesHistory
  <2> QED BY <1>1, <2>1, <2>2, <2>6 DEF TypeOK, NotedAsHanded
<1> QED BY <1>1, <1>2 DEF IInv

-----------------------------------------------------------------------------
(* Every step of a replica is such a step.                                  *)

\* A delivery in hand, and what it alone adds to history.
LEMMA CopyInHand ==
    ASSUME IInv, NEW c \in copies
    PROVE  /\ c \in Copies /\ c.msg \in Msgs /\ c.nth \in Nat \ {0} /\ c.stage \in Stages
           /\ c.nth \in 1..count[c.msg] /\ count[c.msg] \in Nat
           /\ \A m \in Msgs : Numbers({c}, m) = IF m = c.msg THEN {c.nth} ELSE {}
<1>1. c \in Copies /\ c.nth \in 1..count[c.msg] /\ count \in [Msgs -> 0..MaxDeliver]
  BY DEF IInv, TypeOK, Numbered, Deliveries
<1>2. \A m \in Msgs : Numbers({c}, m) = IF m = c.msg THEN {c.nth} ELSE {}
  BY DEF Numbers
<1> QED BY <1>1, <1>2 DEF Copies, Stages

\* The history of deliveries in hand.
LEMMA WithHistory ==
    ASSUME IInv, NEW f \in {tried, handed, misread, lost}, NEW cs \in SUBSET copies
    PROVE  /\ f \in [Msgs -> SUBSET Nat] /\ With(f, cs) \in [Msgs -> SUBSET Nat]
           /\ \A m \in Msgs : With(f, cs)[m] = f[m] \cup Numbers(cs, m)
           /\ \A c \in cs : c.msg \in Msgs /\ c.nth \in With(f, cs)[c.msg]
<1>1. f \in [Msgs -> SUBSET (1..MaxDeliver)] /\ \A c \in cs : c.msg \in Msgs /\ c.nth \in Nat
  BY DEF IInv, TypeOK, Copies
<1>2. \A m \in Msgs : f[m] \subseteq 1..MaxDeliver
  BY <1>1
<1>3. \A m \in Msgs : f[m] \subseteq Nat /\ Numbers(cs, m) \subseteq Nat
  BY <1>1, <1>2 DEF Numbers
<1>4. \A m \in Msgs : f[m] \cup Numbers(cs, m) \in SUBSET Nat
  BY <1>3
<1>5. With(f, cs) = [m \in Msgs |-> f[m] \cup Numbers(cs, m)]
  BY DEF With, Numbers
<1>6. \A c \in cs : c.nth \in Numbers(cs, c.msg)
  BY DEF Numbers
<1> QED BY <1>1, <1>3, <1>4, <1>5, <1>6

\* What an answer does to the server.
LEMMA Answered ==
    ASSUME IInv, NEW ms \in SUBSET Msgs, Nak(ms) \/ End(ms)
    PROVE  /\ server' \in [Msgs -> {"none", "ready", "out", "done", "stopped"}]
           /\ \A m \in Msgs : \/ server'[m] = server[m]
                              \/ m \in ms /\ server[m] = "out" /\ server'[m] = "ready"
                              \/ m \in ms /\ server[m] \in {"out", "ready"} /\ server'[m] = "done"
           /\ End(ms) => \A m \in ms : server'[m] \notin {"ready", "out"}
<1>1. server \in [Msgs -> {"none", "ready", "out", "done", "stopped"}]
  BY DEF IInv, TypeOK
<1>2. \A m \in Msgs : server[m] \in {"none", "ready", "out", "done", "stopped"}
  BY <1>1
<1>3. CASE Nak(ms)
  BY <1>2, <1>3 DEF Nak, End
<1>4. CASE End(ms)
  BY <1>2, <1>4 DEF End
<1> QED BY <1>3, <1>4

\* No delivery moves on where all are over.
LEMMA NoneMoved == \A stage : Moved({}, stage) = {} /\ \A m : Numbers({}, m) = {}
BY DEF Moved, Numbers

LEMMA HandBackHandles ==
    ASSUME QueueAssumption, IInv, NEW c \in copies, HandBack(c)
    PROVE  Handles({c}, {}, "failed")
<1> DEFINE its(m) == IF m = c.msg THEN {c.nth} ELSE {}
<1>1. /\ c.msg \in Msgs /\ c.nth \in Nat \ {0} /\ c.nth \notin handed[c.msg]
      /\ c.nth \notin tried[c.msg]
      /\ \A m \in Msgs : Numbers({c}, m) = its(m)
  BY CopyInHand DEF IInv, Numbered, Staged, HandBack, At
<1>2. /\ UNCHANGED <<queue, unreadable, count, dead, succeeded, tried, lost>>
      /\ copies' = copies \ {c} /\ Nak({c.msg})
      /\ handed' = With(handed, {c})
      /\ \/ noted' = [noted EXCEPT ![c.msg] = @ + 1] /\ UNCHANGED <<misread, faults>>
         \/ Fault /\ misread' = With(misread, {c}) /\ UNCHANGED noted
  BY DEF HandBack, Drop, pushed, fates
<1>3. /\ handed' \in [Msgs -> SUBSET Nat] /\ misread' \in [Msgs -> SUBSET Nat]
      /\ \A m \in Msgs : /\ handed'[m] = handed[m] \cup its(m)
                         /\ misread'[m] = misread[m] \/ misread'[m] = misread[m] \cup its(m)
                         /\ misread' = With(misread, {c}) => misread'[m] = misread[m] \cup its(m)
  <2>1. /\ With(handed, {c}) \in [Msgs -> SUBSET Nat]
        /\ \A m \in Msgs : With(handed, {c})[m] = handed[m] \cup Numbers({c}, m)
    BY WithHistory
  <2>2. /\ With(misread, {c}) \in [Msgs -> SUBSET Nat] /\ misread \in [Msgs -> SUBSET Nat]
        /\ \A m \in Msgs : With(misread, {c})[m] = misread[m] \cup Numbers({c}, m)
    BY WithHistory
  <2>3. handed' = With(handed, {c}) /\ (misread' = misread \/ misread' = With(misread, {c}))
    BY <1>2
  <2> QED BY <1>1, <2>1, <2>2, <2>3
<1>4. tried \in [Msgs -> SUBSET Nat] /\ lost \in [Msgs -> SUBSET Nat]
  BY WithHistory
<1>5. HandlesCopies({c}, {}, "failed")
  BY <1>2, NoneMoved DEF HandlesCopies
<1>6. HandlesServer({c}, {})
  <2>1. Nak({c.msg}) \/ End({c.msg})
    BY <1>2
  <2>2. {c.msg} \in SUBSET Msgs
    BY <1>1
  <2> QED BY <1>2, <2>1, <2>2, Answered DEF HandlesServer
<1>7. HandlesHistory({c}, {})
  <2>1. \A m \in Msgs : Numbers({c} \ {}, m) = its(m)
    BY <1>1
  <2> QED BY <1>2, <1>3, <1>4, <2>1 DEF HandlesHistory
<1>8. HandlesFates({c}, {})
  <2>1. c.nth \in handed'[c.msg]
    BY <1>1, <1>3
  <2> QED BY <1>2, <2>1 DEF HandlesFates, IInv, TypeOK
<1>9. HandlesPolicy({c}, {}, "failed")
  <2>1. noted \in [Msgs -> Nat]
    BY DEF IInv, TypeOK
  <2>2. CASE noted' = [noted EXCEPT ![c.msg] = @ + 1] /\ UNCHANGED <<misread, faults>>
    <3>1. /\ noted' \in [Msgs -> Nat] /\ noted'[c.msg] = noted[c.msg] + 1
          /\ \A m \in Msgs : m # c.msg => noted'[m] = noted[m]
      BY <1>1, <2>1, <2>2
    <3>2. \E n \in Nat \ handed[c.msg] : handed'[c.msg] = handed[c.msg] \cup {n}
      BY <1>1, <1>3
    <3>3. \A m \in Msgs : m # c.msg => handed'[m] = handed[m]
      BY <1>3
    <3> QED BY <1>1, <1>2, <2>2, <3>1, <3>2, <3>3 DEF HandlesPolicy
  <2>3. CASE Fault /\ misread' = With(misread, {c}) /\ UNCHANGED noted
    <3>1. \A m \in Msgs : misread'[m] = misread[m] \cup its(m)
      BY <1>3, <2>3
    <3>2. \A m \in Msgs : handed'[m] \ misread'[m] \subseteq handed[m] \ misread[m]
      BY <1>3, <3>1
    <3> QED BY <1>1, <1>2, <2>1, <2>3, <3>2 DEF HandlesPolicy
  <2> QED BY <1>2, <2>2, <2>3
<1>10. faults' \in 0..MaxFaults
  BY <1>2 DEF Fault, IInv, TypeOK, QueueAssumption
<1> QED BY <1>5, <1>6, <1>7, <1>8, <1>9, <1>10 DEF Handles

\* Filed, or not, a delivery is over, and counted lost unless the message ends with it.
LEMMA FilingHandles ==
    ASSUME QueueAssumption, IInv, NEW c \in copies, Drop({c}), Filed(c) \/ NotFiled(c),
           UNCHANGED <<queue, unreadable, count, succeeded, tried, handed, misread>>,
           \/ c.msg \in unreadable /\ c.stage = "held" /\ UNCHANGED noted
           \/ c.stage = "spent" /\ UNCHANGED noted
           \/ c.stage = "spent" /\ Filed(c) /\ noted' = [noted EXCEPT ![c.msg] = 0]
    PROVE  Handles({c}, {}, "failed")
<1> USE DEF Drop
<1>1. /\ c.msg \in Msgs /\ c.nth \in Nat \ {0}
      /\ c.stage = "held" => c.nth \notin tried[c.msg]
      /\ \A m \in Msgs : Numbers({c}, m) = IF m = c.msg THEN {c.nth} ELSE {}
  BY CopyInHand DEF IInv, Staged
<1>2. /\ With(lost, {c}) \in [Msgs -> SUBSET Nat] /\ c.nth \in With(lost, {c})[c.msg]
      /\ {tried, handed, misread, lost} \subseteq [Msgs -> SUBSET Nat]
      /\ \A m \in Msgs : With(lost, {c})[m] = lost[m] \cup Numbers({c}, m)
  BY WithHistory
<1>3. /\ lost' \in [Msgs -> SUBSET Nat]
      /\ \/ dead' = dead \cup {c.msg} /\ End({c.msg}) /\ UNCHANGED <<lost, faults>>
         \/ /\ Nak({c.msg}) \/ UNCHANGED server
            /\ dead' = dead \/ dead' = dead \cup {c.msg}
            /\ lost' = With(lost, {c}) /\ Fault
  BY <1>2 DEF Filed, NotFiled
<1>4. HandlesCopies({c}, {}, "failed")
  BY NoneMoved DEF HandlesCopies
<1>5. HandlesServer({c}, {})
  <2>1. server \in [Msgs -> {"none", "ready", "out", "done", "stopped"}]
    BY DEF IInv, TypeOK
  <2>2. CASE UNCHANGED server
    BY <2>1, <2>2 DEF HandlesServer
  <2>3. CASE Nak({c.msg}) \/ End({c.msg})
    BY <1>1, <2>3, Answered DEF HandlesServer
  <2> QED BY <1>3, <2>2, <2>3
<1>6. HandlesHistory({c}, {})
  BY <1>1, <1>2, <1>3, NoneMoved DEF HandlesHistory
<1>7. HandlesFates({c}, {})
  <2>1. dead \subseteq Msgs /\ succeeded \subseteq Msgs
    BY DEF IInv, TypeOK
  <2>2. CASE dead' = dead \cup {c.msg} /\ End({c.msg}) /\ UNCHANGED <<lost, faults>>
    <3>1. server'[c.msg] \notin {"ready", "out"}
      BY <1>1, <2>2, Answered
    <3> QED BY <1>1, <2>1, <2>2, <3>1 DEF HandlesFates, Ended
  <2>3. CASE lost' = With(lost, {c}) /\ (dead' = dead \/ dead' = dead \cup {c.msg})
    BY <1>1, <1>2, <2>1, <2>3 DEF HandlesFates
  <2> QED BY <1>3, <2>2, <2>3
<1>8. HandlesPolicy({c}, {}, "failed")
  <2>1. noted \in [Msgs -> Nat]
    BY DEF IInv, TypeOK
  <2>2. noted' \in [Msgs -> Nat]
    BY <1>1, <2>1
  <2>3. Filed(c) => c.msg \in dead'
    BY DEF Filed
  <2>4. \A m \in Msgs : \/ noted'[m] = noted[m] /\ handed'[m] \ misread'[m] \subseteq handed[m] \ misread[m]
                        \/ noted'[m] = 0 /\ m \in dead'
    BY <1>1, <2>1, <2>3
  <2>5. \A m \in dead' \ dead : m = c.msg /\ (m \in unreadable \/ c.stage = "spent")
    BY <1>3
  <2>6. \/ c.nth \notin tried[c.msg] \/ c.nth \in lost'[c.msg] \/ c.msg \in dead'
    BY <1>1, <1>2, <1>3
  <2> QED BY <2>2, <2>4, <2>5, <2>6 DEF HandlesPolicy
<1>9. faults' \in 0..MaxFaults
  BY <1>3 DEF Fault, IInv, TypeOK, QueueAssumption
<1> QED BY <1>4, <1>5, <1>6, <1>7, <1>8, <1>9 DEF Handles

\* A refused delivery that goes back, has tries left or hand-backs to take off.
LEMMA SentBackHandles ==
    ASSUME QueueAssumption, IInv, NEW c \in copies, c.stage = "failed", Drop({c}), Nak({c.msg}),
           UNCHANGED <<queue, unreadable, count, noted, dead, succeeded, tried, handed, lost>>,
           faults' \in 0..MaxFaults,
           UNCHANGED misread \/ misread' = [misread EXCEPT ![c.msg] = @ \cup handed[c.msg]],
           NEW k \in Nat, k <= noted[c.msg], c.nth - k < Retries(c.msg)
    PROVE  Handles({c}, {}, "failed")
<1> USE DEF Drop
<1>1. /\ c.msg \in Msgs /\ c.nth \in Nat \ {0} /\ c.nth \in 1..count[c.msg]
      /\ count[c.msg] \in Nat /\ c.nth \in tried[c.msg] \cup lost[c.msg]
      /\ Retries(c.msg) \in Nat
  BY CopyInHand DEF IInv, Staged, Retries, TypeOK, QueueAssumption
<1>2. {tried, handed, misread, lost} \subseteq [Msgs -> SUBSET Nat]
  BY WithHistory
<1>3. HandlesCopies({c}, {}, "failed")
  BY NoneMoved DEF HandlesCopies
<1>4. HandlesServer({c}, {})
  BY <1>1, Answered DEF HandlesServer
<1>5. misread' \in [Msgs -> SUBSET Nat] /\ \A m \in Msgs : /\ misread[m] \subseteq misread'[m]
                                                         /\ misread'[m] \subseteq misread[m] \cup handed[m]
  <2>1. misread[c.msg] \cup handed[c.msg] \in SUBSET Nat
    BY <1>1, <1>2
  <2> QED BY <1>2, <2>1
<1>6. HandlesHistory({c}, {})
  BY <1>2, <1>5 DEF HandlesHistory
<1>7. HandlesFates({c}, {})
  BY <1>1 DEF HandlesFates, IInv, TypeOK
<1>8. HandlesPolicy({c}, {}, "failed")
  <2>1. c.nth \in lost[c.msg] \/ c.nth < Retries(c.msg) + Cardinality({h \in handed[c.msg] : h < c.nth})
    <3> SUFFICES ASSUME c.nth \notin lost[c.msg]
                 PROVE  c.nth < Retries(c.msg) + Cardinality({h \in handed[c.msg] : h < c.nth})
      OBVIOUS
    <3>1. c.nth = count[c.msg]
      BY DEF IInv, HeldIsLast
    <3>2. handed[c.msg] \in SUBSET (1..count[c.msg]) /\ c.nth \notin handed[c.msg]
      BY <1>1 DEF IInv, Numbered, Deliveries
    <3>3. {h \in handed[c.msg] : h < c.nth} = handed[c.msg]
      BY <1>1, <3>1, <3>2
    <3>4. noted[c.msg] <= Cardinality(handed[c.msg]) /\ noted[c.msg] \in Nat
      BY <1>1 DEF IInv, NotedAsHanded, TypeOK
    <3>5. Cardinality(handed[c.msg]) \in Nat
      BY <1>1, <3>2, NumbersFinite
    <3>6. c.nth < Retries(c.msg) + Cardinality(handed[c.msg])
      BY <1>1, <3>4, <3>5
    <3> QED BY <3>3, <3>6
  <2>2. noted' \in [Msgs -> Nat]
    BY DEF IInv, TypeOK
  <2> QED BY <1>5, <2>1, <2>2 DEF HandlesPolicy
<1> QED BY <1>3, <1>4, <1>6, <1>7, <1>8 DEF Handles

\* A delivery whose message has had its tries: every delivery up to it was refused, lost
\* or handed back, and the hand-backs were taken off.
LEMMA SpentHandles ==
    ASSUME QueueAssumption, IInv, NEW c \in copies, c.stage = "failed",
           copies' = (copies \ {c}) \cup Moved({c}, "spent"),
           UNCHANGED <<queue, unreadable, server, count, noted, dead, succeeded, tried, handed, lost>>,
           faults' \in 0..MaxFaults,
           \/ UNCHANGED misread /\ c.nth - noted[c.msg] >= Retries(c.msg)
           \/ /\ misread' = [misread EXCEPT ![c.msg] = @ \cup handed[c.msg]]
              /\ c.nth >= Retries(c.msg)
    PROVE  Handles({c}, {c}, "spent")
<1>1. /\ c.msg \in Msgs /\ c.nth \in Nat \ {0} /\ c.nth \in 1..count[c.msg]
      /\ count[c.msg] \in Nat /\ c.nth \in tried[c.msg] \cup lost[c.msg]
      /\ c.msg \notin unreadable /\ Retries(c.msg) \in Nat
      /\ c.nth = count[c.msg] \/ c.nth \in lost[c.msg]
  BY CopyInHand DEF IInv, Staged, Retries, TypeOK, QueueAssumption, HeldIsLast
<1>2. tried \in [Msgs -> SUBSET Nat] /\ lost \in [Msgs -> SUBSET Nat]
  BY WithHistory
<1>3. handed \in [Msgs -> SUBSET Nat] /\ misread \in [Msgs -> SUBSET Nat]
  BY WithHistory
<1>4. HandlesCopies({c}, {c}, "spent")
  BY <1>1 DEF HandlesCopies
<1>5. HandlesServer({c}, {c})
  BY DEF HandlesServer, IInv, TypeOK
<1>6. misread' \in [Msgs -> SUBSET Nat] /\ \A m \in Msgs : /\ misread[m] \subseteq misread'[m]
                                                         /\ misread'[m] \subseteq misread[m] \cup handed[m]
  <2>1. misread[c.msg] \cup handed[c.msg] \in SUBSET Nat
    BY <1>1, <1>3
  <2> QED BY <1>3, <2>1
<1>7. HandlesHistory({c}, {c})
  BY <1>2, <1>3, <1>6 DEF HandlesHistory
<1>8. HandlesFates({c}, {c})
  BY <1>1 DEF HandlesFates, IInv, TypeOK
<1>9. Tried(c.msg)' >= Retries(c.msg)
  <2> DEFINE m == c.msg
  <2> DEFINE spent == tried[m] \cup lost[m] \cup misread'[m]
  <2>1. 1..c.nth \subseteq tried[m] \cup handed[m] \cup lost[m]
    <3> SUFFICES ASSUME NEW n \in 1..c.nth PROVE n \in tried[m] \cup handed[m] \cup lost[m]
      OBVIOUS
    <3>1. n \in Deliveries(m) /\ (n = count[m] => n = c.nth)
      BY <1>1 DEF Deliveries
    <3>2. InHand(m, n) => n = count[m] \/ n \in lost[m]
      BY DEF InHand, IInv, HeldIsLast
    <3> QED BY <1>1, <3>1, <3>2 DEF IInv, Accounted
  <2>2. /\ handed[m] \in SUBSET (1..count[m]) /\ spent \in SUBSET (1..count[m])
        /\ misread[m] \in SUBSET handed[m]
    BY <1>1, <1>6 DEF IInv, Numbered, Deliveries
  <2>3. Tried(m)' = Cardinality(spent)
    BY DEF Tried
  <2>4. /\ IsFiniteSet(spent) /\ Cardinality(spent) \in Nat
        /\ IsFiniteSet(handed[m]) /\ IsFiniteSet(handed[m] \ misread[m])
        /\ Cardinality(handed[m] \ misread[m]) \in Nat
    <3> HIDE DEF spent, m
    <3> QED BY <1>1, <2>2, NumbersFinite DEF m
  <2>5. CASE misread' = [misread EXCEPT ![c.msg] = @ \cup handed[c.msg]] /\ c.nth >= Retries(c.msg)
    <3>1. misread'[m] = misread[m] \cup handed[m]
      BY <1>1, <1>3, <2>5
    <3>2. 1..c.nth \in SUBSET spent
      BY <2>1, <3>1
    <3> HIDE DEF spent
    <3>3. Cardinality(1..c.nth) <= Cardinality(spent) /\ Cardinality(1..c.nth) = c.nth
      BY <1>1, <2>2, <3>2, NumbersFinite, FirstDeliveries
    <3> QED BY <1>1, <2>3, <2>4, <2>5, <3>3
  <2>6. CASE UNCHANGED misread /\ c.nth - noted[c.msg] >= Retries(c.msg)
    <3>1. CASE m \in dead
      <4>1. Tried(m) >= Retries(m)
        BY <1>1, <3>1 DEF IInv, FiledAfterItsTries, Tried
      <4>2. Tried(m)' = Tried(m)
        BY <2>6 DEF Tried
      <4> QED BY <4>1, <4>2
    <3>2. CASE m \notin dead
      <4>1. noted[m] \in Nat /\ noted[m] >= Cardinality(handed[m] \ misread[m])
        BY <1>1, <3>2 DEF IInv, NotedAsHanded, TypeOK
      <4>2. 1..c.nth \in SUBSET (spent \cup (handed[m] \ misread[m]))
        BY <2>1, <2>6
      <4> HIDE DEF spent
      <4>3. /\ IsFiniteSet(spent \cup (handed[m] \ misread[m]))
            /\ Cardinality(spent \cup (handed[m] \ misread[m]))
                 <= Cardinality(spent) + Cardinality(handed[m] \ misread[m])
            /\ Cardinality(spent \cup (handed[m] \ misread[m])) \in Nat
        <5>1. spent \cup (handed[m] \ misread[m]) \in SUBSET (1..count[m])
          BY <2>2
        <5>2. Cardinality(spent \cup (handed[m] \ misread[m])) \in Nat
          BY <1>1, <5>1, NumbersFinite
        <5>3. Cardinality(spent \cap (handed[m] \ misread[m])) \in Nat
          BY <2>4, FS_Intersection, FS_CardinalityType
        <5>4. /\ IsFiniteSet(spent \cup (handed[m] \ misread[m]))
              /\ Cardinality(spent \cup (handed[m] \ misread[m]))
                   = Cardinality(spent) + Cardinality(handed[m] \ misread[m])
                       - Cardinality(spent \cap (handed[m] \ misread[m]))
          <6> HIDE DEF m
          <6> QED BY <2>4, FS_Union
        <5>5. \A i, j, k \in Nat : i = j + Cardinality(handed[m] \ misread[m]) - k
                => i <= j + Cardinality(handed[m] \ misread[m])
          BY <2>4
        <5> QED BY <2>4, <5>2, <5>3, <5>4, <5>5
      <4>4. Cardinality(1..c.nth) <= Cardinality(spent \cup (handed[m] \ misread[m]))
        BY <4>2, <4>3, FS_Subset
      <4>5. Cardinality(1..c.nth) = c.nth
        BY <1>1, FirstDeliveries
      <4> QED BY <1>1, <2>3, <2>4, <2>6, <4>1, <4>3, <4>4, <4>5
    <3> QED BY <3>1, <3>2
  <2> QED BY <2>5, <2>6
<1>10. HandlesPolicy({c}, {c}, "spent")
  <2>1. noted' \in [Msgs -> Nat]
    BY DEF IInv, TypeOK
  <2> QED BY <1>6, <1>9, <2>1 DEF HandlesPolicy
<1> QED BY <1>4, <1>5, <1>7, <1>8, <1>10 DEF Handles

\* The answers to one delivery.
LEMMA AnswerHandles ==
    ASSUME QueueAssumption, IInv, NEW c \in copies, Answer(c)
    PROVE  \E on \in {{}, {c}} : \E stage \in {"failed", "spent"} : Handles({c}, on, stage)
<1> USE DEF At, pushed, fates, history
<1>1. /\ c.msg \in Msgs /\ c.nth \in Nat \ {0} /\ noted[c.msg] \in Nat
      /\ Retries(c.msg) \in Nat /\ MaxFaults \in Nat /\ faults \in 0..MaxFaults
  BY CopyInHand DEF IInv, TypeOK, Retries, QueueAssumption
<1>2. CASE HandBack(c)
  BY <1>2, HandBackHandles
<1>3. CASE Discard(c)
  <2>1. Handles({c}, {}, "failed")
    BY <1>3, FilingHandles DEF Discard, Readable
  <2> QED BY <2>1
<1>4. CASE FileSpent(c)
  <2>1. Handles({c}, {}, "failed")
    BY <1>4, FilingHandles DEF FileSpent
  <2> QED BY <2>1
<1>5. CASE Retry(c)
  <2>1. c.nth - 0 < Retries(c.msg)
    BY <1>1, <1>5 DEF Retry
  <2>2. Handles({c}, {}, "failed")
    BY <1>1, <1>5, <2>1, SentBackHandles DEF Retry
  <2> QED BY <2>2
<1>6. CASE Weigh(c)
  <2>1. PICK handedBack \in {noted[c.msg], 0} :
          /\ IF handedBack = noted[c.msg]
               THEN UNCHANGED <<misread, faults>>
               ELSE Fault /\ misread' = [misread EXCEPT ![c.msg] = @ \cup handed[c.msg]]
          /\ IF c.nth - handedBack < Retries(c.msg)
               THEN Nak({c.msg}) /\ Drop({c})
               ELSE copies' = (copies \ {c}) \cup Moved({c}, "spent") /\ UNCHANGED server
    BY <1>6 DEF Weigh
  <2>2. /\ handedBack \in Nat /\ handedBack <= noted[c.msg] /\ faults' \in 0..MaxFaults
        /\ UNCHANGED misread \/ misread' = [misread EXCEPT ![c.msg] = @ \cup handed[c.msg]]
        /\ c.stage = "failed" /\ c.nth >= Retries(c.msg)
        /\ UNCHANGED <<queue, unreadable, count, noted, dead, succeeded, tried, handed, lost>>
    BY <1>1, <1>6, <2>1 DEF Weigh, Fault
  <2>3. CASE c.nth - handedBack < Retries(c.msg)
    <3>1. Handles({c}, {}, "failed")
      BY <2>1, <2>2, <2>3, SentBackHandles
    <3> QED BY <3>1
  <2>4. CASE ~(c.nth - handedBack < Retries(c.msg))
    <3>1. /\ copies' = (copies \ {c}) \cup Moved({c}, "spent") /\ UNCHANGED server
          /\ \/ UNCHANGED misread /\ c.nth - noted[c.msg] >= Retries(c.msg)
             \/ misread' = [misread EXCEPT ![c.msg] = @ \cup handed[c.msg]]
      <4>1. c.nth - handedBack >= Retries(c.msg)
        BY <1>1, <2>2, <2>4
      <4>2. CASE handedBack = noted[c.msg]
        BY <2>1, <2>4, <4>1, <4>2
      <4>3. CASE handedBack # noted[c.msg]
        BY <2>1, <2>4, <4>3
      <4> QED BY <4>2, <4>3
    <3>2. Handles({c}, {c}, "spent")
      BY <2>2, <3>1, SpentHandles
    <3> QED BY <3>2
  <2> QED BY <2>3, <2>4
<1> QED BY <1>2, <1>3, <1>4, <1>5, <1>6 DEF Answer

\* The bodies a replica runs.
LEMMA BodyHandles ==
    ASSUME QueueAssumption, IInv, NEW r \in Replicas, BodyAgrees(r) \/ BodyRefuses(r)
    PROVE  \E gone \in SUBSET copies : \E on \in SUBSET gone : Handles(gone, on, "failed")
<1> USE DEF pushed, fates, history
<1>1. ASSUME NEW cs \in Groups(r)
      PROVE  /\ cs \in SUBSET copies
             /\ \A c \in cs : /\ c.msg \notin unreadable /\ c.nth \notin tried[c.msg]
                              /\ c.msg \in Msgs
  <2>1. \A c \in cs : c \in copies /\ c.stage = "held" /\ c.msg \notin unreadable
    BY <1>1 DEF Groups, At, Readable
  <2> QED BY <2>1, CopyInHand DEF IInv, Staged
<1>2. \A f \in {handed, misread, tried, lost} : f \in [Msgs -> SUBSET Nat]
  BY WithHistory
<1>3. CASE BodyAgrees(r)
  <2> DEFINE Agrees(cs, bad, refused) ==
               /\ succeeded' = succeeded \cup MsgsOf(cs)
               /\ End(MsgsOf(cs \ bad))
               /\ copies' = (copies \ cs) \cup Moved(Refusals(cs, refused), "failed")
               /\ lost' = With(lost, bad)
               /\ (IF bad = {} THEN UNCHANGED faults ELSE Fault)
               /\ UNCHANGED <<queue, unreadable, count, noted, dead, tried, handed, misread>>
  <2>a. PICK cs \in Groups(r) : \E bad \in SUBSET cs : \E refused \in {{}, bad} :
          Agrees(cs, bad, refused)
    BY <1>3 DEF BodyAgrees
  <2>b. PICK bad \in SUBSET cs : \E refused \in {{}, bad} : Agrees(cs, bad, refused)
    BY <2>a
  <2>1. PICK refused \in {{}, bad} : Agrees(cs, bad, refused)
    BY <2>b
  <2> DEFINE on == Refusals(cs, refused)
  <2>2. cs \in SUBSET copies /\ on \in SUBSET bad /\ bad \in SUBSET copies
    BY <1>1 DEF Refusals
  <2>3. /\ With(lost, bad) \in [Msgs -> SUBSET Nat]
        /\ \A m \in Msgs : With(lost, bad)[m] = lost[m] \cup Numbers(bad, m)
        /\ \A c \in bad : c.nth \in With(lost, bad)[c.msg]
    BY <2>2, WithHistory
  <2> HIDE DEF on
  <2>4. HandlesCopies(cs, on, "failed")
    BY <1>1, <2>1, <2>2, <2>3 DEF HandlesCopies, on
  <2>5. /\ MsgsOf(cs \ bad) \in SUBSET Msgs
        /\ \A m \in MsgsOf(cs \ bad) : server'[m] \notin {"ready", "out"}
        /\ HandlesServer(cs, on)
    <3>1. MsgsOf(cs \ bad) \in SUBSET Msgs
      BY <1>1 DEF MsgsOf
    <3>2. \A m \in MsgsOf(cs \ bad) : \E c \in cs \ on : c.msg = m
      BY <2>2 DEF MsgsOf
    <3> QED BY <2>1, <3>1, <3>2, Answered DEF HandlesServer
  <2>6. HandlesHistory(cs, on)
    <3>1. \A m \in Msgs : Numbers(bad, m) \subseteq Numbers(cs, m)
      BY DEF Numbers
    <3> QED BY <1>2, <2>1, <2>3, <3>1 DEF HandlesHistory
  <2>7. HandlesFates(cs, on)
    <3>1. \A c \in cs \ bad : c.msg \in MsgsOf(cs \ bad) /\ c.msg \in succeeded'
      BY <2>1 DEF MsgsOf
    <3>2. \A m \in succeeded' \ succeeded : \E c \in cs : c.msg = m
      BY <2>1 DEF MsgsOf
    <3>3. \A c \in cs : \/ c.nth \in lost'[c.msg]
                        \/ c.msg \in succeeded' /\ server'[c.msg] \notin {"ready", "out"}
      BY <2>1, <2>3, <2>5, <3>1
    <3>4. \A m \in succeeded' \ succeeded : lost'[m] # {} \/ server'[m] \notin {"ready", "out"}
      BY <3>2, <3>3
    <3>5. succeeded' \subseteq Msgs /\ dead \subseteq Msgs
      BY <1>1, <2>1 DEF IInv, TypeOK, MsgsOf
    <3> QED BY <2>1, <3>2, <3>3, <3>4, <3>5 DEF HandlesFates, Ended
  <2>8. HandlesPolicy(cs, on, "failed")
    <3>1. noted' \in [Msgs -> Nat]
      BY <2>1 DEF IInv, TypeOK
    <3> QED BY <1>1, <2>1, <3>1 DEF HandlesPolicy
  <2>9. faults' \in 0..MaxFaults
    BY <2>1 DEF Fault, IInv, TypeOK, QueueAssumption
  <2>10. on \in SUBSET cs
    BY <2>2
  <2> QED BY <2>2, <2>4, <2>5, <2>6, <2>7, <2>8, <2>9, <2>10 DEF Handles
<1>4. CASE BodyRefuses(r)
  <2>1. PICK cs \in Groups(r) :
          /\ copies' = (copies \ cs) \cup Moved(cs, "failed")
          /\ tried' = With(tried, cs)
          /\ UNCHANGED <<queue, unreadable, server, count, noted, dead, succeeded,
                         handed, misread, lost, faults>>
    BY <1>4 DEF BodyRefuses
  <2>2. cs \in SUBSET copies
    BY <1>1
  <2>3. /\ With(tried, cs) \in [Msgs -> SUBSET Nat]
        /\ \A m \in Msgs : With(tried, cs)[m] = tried[m] \cup Numbers(cs, m)
        /\ \A c \in cs : c.nth \in With(tried, cs)[c.msg]
    BY <2>2, WithHistory
  <2>4. HandlesCopies(cs, cs, "failed")
    BY <1>1, <2>1, <2>2, <2>3 DEF HandlesCopies
  <2>5. HandlesServer(cs, cs)
    BY <2>1 DEF HandlesServer, IInv, TypeOK
  <2>6. HandlesHistory(cs, cs)
    BY <1>2, <2>1, <2>3 DEF HandlesHistory
  <2>7. HandlesFates(cs, cs)
    BY <2>1 DEF HandlesFates, IInv, TypeOK
  <2>8. HandlesPolicy(cs, cs, "failed")
    <3>1. noted' \in [Msgs -> Nat]
      BY <2>1 DEF IInv, TypeOK
    <3> QED BY <2>1, <3>1 DEF HandlesPolicy
  <2>9. faults' \in 0..MaxFaults
    BY <2>1 DEF IInv, TypeOK
  <2> QED BY <2>2, <2>4, <2>5, <2>6, <2>7, <2>8, <2>9 DEF Handles
<1> QED BY <1>3, <1>4

\* A replica that dies.
LEMMA AbandonHandles ==
    ASSUME QueueAssumption, IInv, NEW r \in Replicas, Abandon(r)
    PROVE  \E gone \in SUBSET copies : Handles(gone, {}, "failed")
<1> USE DEF pushed, fates, history
<1>a. PICK cs \in SUBSET copies :
        /\ Fault
        /\ Drop(cs)
        /\ \E stored \in SUBSET (cs \cap At("spent")) : dead' = dead \cup MsgsOf(stored)
        /\ lost' = With(lost, cs)
        /\ UNCHANGED <<pushed, server, count, noted, succeeded, tried, handed, misread>>
  BY DEF Abandon
<1>1. PICK stored \in SUBSET (cs \cap At("spent")) :
        /\ Fault
        /\ copies' = copies \ cs
        /\ dead' = dead \cup MsgsOf(stored)
        /\ lost' = With(lost, cs)
        /\ UNCHANGED <<queue, unreadable, server, count, noted, succeeded, tried, handed, misread>>
  BY <1>a DEF Drop
<1>2. \A f \in {handed, misread, tried, lost} : f \in [Msgs -> SUBSET Nat]
  BY WithHistory
<1>3. /\ With(lost, cs) \in [Msgs -> SUBSET Nat]
      /\ \A m \in Msgs : With(lost, cs)[m] = lost[m] \cup Numbers(cs, m)
      /\ \A c \in cs : c.msg \in Msgs /\ c.nth \in With(lost, cs)[c.msg]
  BY WithHistory
<1>4. HandlesCopies(cs, {}, "failed")
  BY <1>1, NoneMoved DEF HandlesCopies
<1>5. HandlesServer(cs, {})
  BY <1>1 DEF HandlesServer, IInv, TypeOK
<1>6. HandlesHistory(cs, {})
  BY <1>1, <1>2, <1>3 DEF HandlesHistory
<1>7. \A m \in dead' \ dead : \E c \in cs : c.msg = m /\ c.stage = "spent"
  BY <1>1 DEF MsgsOf, At
<1>8. HandlesFates(cs, {})
  <2>1. \A m \in dead' \ dead : lost'[m] # {} /\ m \in Msgs
    BY <1>1, <1>3, <1>7
  <2>2. dead \subseteq Msgs /\ succeeded \subseteq Msgs
    BY DEF IInv, TypeOK
  <2> QED BY <1>1, <1>3, <1>7, <2>1, <2>2 DEF HandlesFates
<1>9. HandlesPolicy(cs, {}, "failed")
  <2>1. noted' \in [Msgs -> Nat]
    BY <1>1 DEF IInv, TypeOK
  <2> QED BY <1>1, <1>3, <1>7, <2>1 DEF HandlesPolicy
<1>10. faults' \in 0..MaxFaults
  BY <1>1 DEF Fault, IInv, TypeOK, QueueAssumption
<1> QED BY <1>4, <1>5, <1>6, <1>8, <1>9, <1>10 DEF Handles

-----------------------------------------------------------------------------
(* The steps of the server.                                                 *)

\* They add deliveries, and find some lost.
Serves ==
    /\ UNCHANGED <<queue, unreadable, noted, dead, succeeded, tried, handed, misread>>
    /\ copies \subseteq copies' /\ \A c \in copies' \ copies : c.stage = "held"
    /\ lost' \in [Msgs -> SUBSET Nat] /\ count' \in [Msgs -> 0..MaxDeliver]
    /\ \A m \in Msgs : /\ lost[m] \subseteq lost'[m] /\ lost'[m] \subseteq 1..count'[m]
                       /\ count[m] <= count'[m]

LEMMA ServesTries ==
    ASSUME QueueAssumption, IInv, Serves
    PROVE  /\ NotedAsHanded' /\ SpentAfterItsTries' /\ WeighedBack'
           /\ FiledAfterItsTries' /\ SuccessFiledOnlyUnanswered'
<1>1. ASSUME NEW m \in Msgs
      PROVE  /\ Tried(m) \in Nat /\ Tried(m)' \in Nat /\ Tried(m) <= Tried(m)'
             /\ Retries(m)' = Retries(m) /\ Retries(m) \in Nat
  <2> DEFINE before == tried[m] \cup lost[m] \cup misread[m]
  <2> DEFINE after == tried'[m] \cup lost'[m] \cup misread'[m]
  <2>1. /\ count'[m] \in Nat /\ count[m] \in Nat /\ count[m] <= count'[m]
        /\ tried[m] \cup lost[m] \cup misread[m] \subseteq 1..count[m]
    BY DEF IInv, TypeOK, Numbered, Deliveries, Serves
  <2>2. tried[m] \cup misread[m] \subseteq 1..count'[m]
    BY <2>1
  <2>3. after \in SUBSET (1..count'[m]) /\ before \in SUBSET after
    BY <2>2 DEF Serves
  <2> HIDE DEF before, after
  <2>4. /\ Cardinality(after) \in Nat /\ Cardinality(before) \in Nat
        /\ Cardinality(before) <= Cardinality(after)
    BY <2>1, <2>3, NumbersFinite
  <2>5. Retries(m)' = Retries(m) /\ Retries(m) \in Nat
    BY DEF Retries, Serves, QueueAssumption, IInv, TypeOK
  <2> QED BY <2>4, <2>5 DEF Tried, before, after
<1>2. NotedAsHanded'
  BY DEF NotedAsHanded, Serves, IInv
<1>3. SpentAfterItsTries'
  <2> SUFFICES ASSUME NEW c \in copies', c.stage = "spent" PROVE Tried(c.msg)' >= Retries(c.msg)'
    BY DEF SpentAfterItsTries
  <2>1. c \in copies /\ c.msg \in Msgs
    BY DEF Serves, IInv, TypeOK, Copies
  <2>2. Tried(c.msg) >= Retries(c.msg)
    BY <2>1 DEF SpentAfterItsTries, IInv
  <2> QED BY <1>1, <2>1, <2>2
<1>4. FiledAfterItsTries'
  <2> SUFFICES ASSUME NEW m \in dead \ unreadable PROVE Tried(m)' >= Retries(m)'
    BY DEF FiledAfterItsTries, Tried, Serves
  <2>1. m \in Msgs
    BY DEF IInv, TypeOK
  <2>2. Tried(m) >= Retries(m)
    BY DEF FiledAfterItsTries, Tried, IInv
  <2> QED BY <1>1, <2>1, <2>2
<1>5. WeighedBack'
  <2> SUFFICES ASSUME NEW m \in Msgs, m \notin dead, NEW n \in tried[m], n \notin lost[m],
                      ~InHand(m, n)
               PROVE  n < Retries(m) + Cardinality({h \in handed[m] : h < n})
    BY <1>1 DEF WeighedBack, Serves, InHand
  <2> QED BY DEF IInv, WeighedBack
<1>6. SuccessFiledOnlyUnanswered'
  <2> SUFFICES ASSUME NEW m \in dead \cap succeeded PROVE lost'[m] # {}
    BY DEF SuccessFiledOnlyUnanswered, Serves
  <2>1. m \in Msgs /\ lost[m] # {} /\ lost[m] \subseteq lost'[m]
    BY DEF IInv, TypeOK, SuccessFiledOnlyUnanswered, Serves
  <2> QED BY <2>1
<1> QED BY <1>2, <1>3, <1>4, <1>5, <1>6

LEMMA PushKeeps == ASSUME QueueAssumption, IInv, NEW m \in Msgs, Push(m) PROVE IInv'
<1> USE DEF pushed, fates, history
<1> DEFINE Servers == {"none", "ready", "out", "done", "stopped"}
<1>1. /\ server \in [Msgs -> Servers] /\ server[m] = "none" /\ server' = [server EXCEPT ![m] = "ready"]
      /\ UNCHANGED <<queue, unreadable, count, copies, noted, dead, succeeded,
                     tried, handed, misread, lost, faults>>
  BY DEF Push, IInv, TypeOK
<1>2. server' \in [Msgs -> Servers] /\ \A k \in Msgs : server'[k] = IF k = m THEN "ready" ELSE server[k]
  BY <1>1
<1>3. TypeOK'
  BY <1>1, <1>2 DEF IInv, TypeOK
<1>4. Numbered' /\ Staged' /\ HeldIsLast'
  BY <1>1, <1>2 DEF IInv, Numbered, Staged, HeldIsLast, Deliveries
<1>5. count[m] = 0 /\ (\A c \in copies : c.msg # m) /\ (lost[m] = {} => ~Ended(m))
  BY <1>1 DEF IInv, Numbered, Deliveries, NoneLost
<1>6. NoneLost'
  BY <1>1, <1>2, <1>5 DEF IInv, NoneLost, Ended
<1>7. Accounted'
  BY <1>1, <1>2, <1>5 DEF IInv, Accounted, Deliveries, InHand, Over, Ended
<1>8. Serves
  BY <1>1 DEF Serves, IInv, TypeOK, Numbered, Deliveries
<1> QED BY <1>3, <1>4, <1>6, <1>7, <1>8, ServesTries DEF IInv

LEMMA ServerStopsKeeps == ASSUME QueueAssumption, IInv, NEW m \in Msgs, ServerStops(m) PROVE IInv'
<1> USE DEF pushed, fates, history
<1> DEFINE Servers == {"none", "ready", "out", "done", "stopped"}
<1>1. /\ server \in [Msgs -> Servers] /\ server[m] = "ready" /\ count[m] = MaxDeliver
      /\ server' = [server EXCEPT ![m] = "stopped"]
      /\ UNCHANGED <<queue, unreadable, count, copies, noted, dead, succeeded,
                     tried, handed, misread, lost, faults>>
  BY DEF ServerStops, IInv, TypeOK
<1>2. server' \in [Msgs -> Servers] /\ \A k \in Msgs : server'[k] = IF k = m THEN "stopped" ELSE server[k]
  BY <1>1
<1>3. TypeOK'
  BY <1>1, <1>2 DEF IInv, TypeOK
<1>4. Numbered' /\ Staged' /\ HeldIsLast'
  BY <1>1, <1>2 DEF IInv, Numbered, Staged, HeldIsLast, Deliveries
<1>5. NoneLost'
  BY <1>1, <1>2 DEF IInv, NoneLost, Ended
<1>6. Accounted'
  BY <1>1, <1>2 DEF IInv, Accounted, Deliveries, InHand, Over, Ended
<1>7. Serves
  BY <1>1 DEF Serves, IInv, TypeOK, Numbered, Deliveries
<1> QED BY <1>3, <1>4, <1>5, <1>6, <1>7, ServesTries DEF IInv

\* A wait that ends with the delivery in hand makes it a lost one.
LEMMA AckWaitElapsesKeeps ==
    ASSUME QueueAssumption, IInv, NEW m \in Msgs, AckWaitElapses(m) PROVE IInv'
<1> USE DEF pushed, fates, history
<1> DEFINE Servers == {"none", "ready", "out", "done", "stopped"}
<1>1. /\ server \in [Msgs -> Servers] /\ server[m] = "out" /\ server' = [server EXCEPT ![m] = "ready"]
      /\ UNCHANGED <<queue, unreadable, count, copies, noted, dead, succeeded,
                     tried, handed, misread>>
      /\ IF InHand(m, count[m]) THEN Fault /\ lost' = [lost EXCEPT ![m] = @ \cup {count[m]}]
                                ELSE UNCHANGED <<lost, faults>>
  BY DEF AckWaitElapses, IInv, TypeOK, InHand
<1>2. server' \in [Msgs -> Servers] /\ \A k \in Msgs : server'[k] = IF k = m THEN "ready" ELSE server[k]
  BY <1>1
<1>3. /\ lost \in [Msgs -> SUBSET (1..MaxDeliver)] /\ count \in [Msgs -> 0..MaxDeliver]
      /\ MaxDeliver \in Nat /\ \A k \in Msgs : lost[k] \subseteq 1..count[k]
      /\ InHand(m, count[m]) => count[m] \in 1..MaxDeliver
  BY MaxDeliverAboveRetries DEF IInv, TypeOK, Numbered, Deliveries, InHand, Copies
<1>4. \A k \in Msgs : lost'[k] = IF k = m /\ InHand(m, count[m]) THEN lost[k] \cup {count[k]}
                                                               ELSE lost[k]
  BY <1>1, <1>3
<1>5. lost' \in [Msgs -> SUBSET (1..MaxDeliver)]
  <2>1. CASE InHand(m, count[m])
    <3>1. lost[m] \cup {count[m]} \in SUBSET (1..MaxDeliver)
      BY <1>3, <2>1
    <3> QED BY <1>1, <1>3, <2>1, <3>1
  <2>2. CASE ~InHand(m, count[m])
    BY <1>1, <1>3, <2>2
  <2> QED BY <2>1, <2>2
<1>6. /\ \A k \in Msgs : lost[k] \subseteq lost'[k] /\ lost'[k] \subseteq 1..count[k]
      /\ faults' \in 0..MaxFaults
  <2>1. \A k \in Msgs : lost[k] \subseteq lost'[k]
    BY <1>4
  <2>2. InHand(m, count[m]) => count[m] \in 1..count[m]
    BY <1>3
  <2>3. \A k \in Msgs : lost'[k] \subseteq 1..count[k]
    BY <1>3, <1>4, <2>2
  <2> QED BY <1>1, <2>1, <2>3 DEF Fault, IInv, TypeOK, QueueAssumption
<1>7. TypeOK'
  BY <1>1, <1>2, <1>5, <1>6 DEF IInv, TypeOK
<1>8. Numbered'
  BY <1>1, <1>2, <1>6 DEF IInv, Numbered, Deliveries
<1>9. Staged' /\ HeldIsLast'
  <2>1. \A c \in copies : c.msg \in Msgs
    BY DEF IInv, TypeOK, Copies
  <2> QED BY <1>1, <1>6, <2>1 DEF IInv, Staged, HeldIsLast
<1>10. NoneLost'
  <2> SUFFICES ASSUME NEW k \in Msgs, lost'[k] = {}
               PROVE  /\ \A c \in copies : c.msg = k => server'[k] = "out"
                      /\ Ended(k) => server'[k] = "done"
    BY <1>1 DEF NoneLost, Ended
  <2>1. lost[k] = {} /\ (k = m => ~InHand(m, count[m]))
    BY <1>4
  <2>2. \A c \in copies : c.msg = k => c.nth = count[k]
    BY <2>1 DEF IInv, HeldIsLast
  <2> QED BY <1>1, <1>2, <2>1, <2>2 DEF IInv, NoneLost, InHand
<1>11. Accounted'
  <2>1. ~Over(m)
    BY <1>1 DEF Over
  <2> QED BY <1>1, <1>2, <1>6, <2>1 DEF IInv, Accounted, Deliveries, InHand, Over, Ended
<1>12. Serves
  <2>1. lost' \in [Msgs -> SUBSET Nat]
    <3>1. \A k \in Msgs : lost'[k] \in SUBSET Nat
      BY <1>3, <1>6
    <3> QED BY <1>5, <3>1
  <2>2. \A k \in Msgs : count[k] <= count[k]
    BY <1>3
  <2> QED BY <1>1, <1>3, <1>6, <2>1, <2>2 DEF Serves
<1> QED BY <1>7, <1>8, <1>9, <1>10, <1>11, <1>12, ServesTries DEF IInv

\* The next delivery overtakes the ones in hand.
LEMMA DeliverKeeps ==
    ASSUME QueueAssumption, IInv, NEW m \in Msgs, NEW r \in Replicas, Deliver(m, r) PROVE IInv'
<1> USE DEF pushed, fates
<1> DEFINE Servers == {"none", "ready", "out", "done", "stopped"}
<1> DEFINE new == [msg |-> m, by |-> r, nth |-> count[m] + 1, stage |-> "held"]
<1> DEFINE overtaken == {c \in copies : c.msg = m}
<1>1. /\ server \in [Msgs -> Servers] /\ server[m] = "ready" /\ server' = [server EXCEPT ![m] = "out"]
      /\ count[m] < MaxDeliver /\ count' = [count EXCEPT ![m] = @ + 1]
      /\ copies' = copies \cup {new} /\ lost' = With(lost, overtaken)
      /\ UNCHANGED <<queue, unreadable, noted, dead, succeeded, tried, handed, misread, faults>>
  BY DEF Deliver, IInv, TypeOK
<1>2. server' \in [Msgs -> Servers] /\ \A k \in Msgs : server'[k] = IF k = m THEN "out" ELSE server[k]
  BY <1>1
<1>3. /\ count \in [Msgs -> 0..MaxDeliver] /\ MaxDeliver \in Nat
      /\ count' \in [Msgs -> 0..MaxDeliver]
      /\ \A k \in Msgs : /\ count[k] \in Nat /\ count'[k] = IF k = m THEN count[k] + 1 ELSE count[k]
                         /\ count[k] <= count'[k] /\ 1..count[k] \subseteq 1..count'[k]
  <2>1. count \in [Msgs -> 0..MaxDeliver] /\ MaxDeliver \in Nat
    BY MaxDeliverAboveRetries DEF IInv, TypeOK
  <2>2. count[m] + 1 \in 0..MaxDeliver
    BY <1>1, <2>1
  <2>3. \A k \in Msgs : count[k] \in Nat /\ count'[k] = IF k = m THEN count[k] + 1 ELSE count[k]
    BY <1>1, <2>1
  <2> QED BY <1>1, <2>1, <2>2, <2>3
<1>4. /\ new \in Copies /\ new.msg = m /\ new.nth = count[m] + 1 /\ new.stage = "held"
      /\ new.nth \in 1..count'[m] /\ new.nth = count'[m] /\ new.nth \notin 1..count[m]
  BY <1>3 DEF Copies
<1>5. /\ copies \subseteq Copies
      /\ \A c \in copies : c.msg \in Msgs /\ c.nth \in 1..count[c.msg]
  BY DEF IInv, TypeOK, Copies, Numbered, Deliveries
<1>6. /\ lost' \in [Msgs -> SUBSET Nat]
      /\ \A k \in Msgs : lost'[k] = lost[k] \cup Numbers(overtaken, k)
      /\ \A c \in copies : c.msg = m => c.nth \in lost'[m]
  <2>1. overtaken \in SUBSET copies
    OBVIOUS
  <2>2. /\ With(lost, overtaken) \in [Msgs -> SUBSET Nat]
        /\ \A k \in Msgs : With(lost, overtaken)[k] = lost[k] \cup Numbers(overtaken, k)
        /\ \A c \in overtaken : c.nth \in With(lost, overtaken)[c.msg]
    BY <2>1, WithHistory
  <2> QED BY <1>1, <2>2
<1> HIDE DEF new, overtaken
<1>7. \A k \in Msgs : lost[k] \subseteq lost'[k] /\ lost'[k] \subseteq 1..count[k]
  <2>1. \A k \in Msgs : Numbers(overtaken, k) \subseteq 1..count[k]
    BY <1>5 DEF Numbers, overtaken
  <2>2. \A k \in Msgs : lost[k] \subseteq 1..count[k]
    BY DEF IInv, Numbered, Deliveries
  <2> QED BY <1>6, <2>1, <2>2
<1>8. TypeOK'
  <2>1. lost' \in [Msgs -> SUBSET (1..MaxDeliver)]
    <3>1. \A k \in Msgs : 1..count[k] \subseteq 1..MaxDeliver
      BY <1>3
    <3>2. \A k \in Msgs : lost'[k] \in SUBSET (1..MaxDeliver)
      BY <1>7, <3>1
    <3> QED BY <1>6, <3>2
  <2> QED BY <1>1, <1>2, <1>3, <1>4, <2>1 DEF IInv, TypeOK
<1>9. Numbered'
  <2>1. \A c \in copies' : c.nth \in 1..count'[c.msg] /\ c.nth \notin handed[c.msg]
    <3>1. new.nth \notin handed[m]
      BY <1>4 DEF IInv, Numbered, Deliveries
    <3> QED BY <1>1, <1>3, <1>4, <1>5, <3>1 DEF IInv, Numbered
  <2>2. \A c, d \in copies' : c.msg = d.msg /\ c.nth = d.nth => c = d
    <3>1. \A c \in copies : ~(c.msg = m /\ c.nth = new.nth)
      BY <1>4, <1>5
    <3>2. \A c, d \in copies : c.msg = d.msg /\ c.nth = d.nth => c = d
      BY DEF IInv, Numbered
    <3> QED BY <1>1, <1>4, <3>1, <3>2
  <2>3. \A k \in Msgs : /\ tried[k] \cup handed[k] \cup lost'[k] \subseteq 1..count'[k]
                        /\ misread[k] \subseteq handed[k]
                        /\ server'[k] = "none" => count'[k] = 0
                        /\ server'[k] = "stopped" => count'[k] = MaxDeliver
    BY <1>2, <1>3, <1>7 DEF IInv, Numbered, Deliveries
  <2> QED BY <1>1, <2>1, <2>2, <2>3 DEF Numbered, Deliveries
<1>10. Staged'
  <2>1. new.nth \notin tried[m]
    BY <1>4 DEF IInv, Numbered, Deliveries
  <2> QED BY <1>1, <1>4, <1>5, <1>7, <2>1 DEF IInv, Staged
<1>11. HeldIsLast'
  <2>1. \A c \in copies : c.msg # m => c.nth = count'[c.msg] \/ c.nth \in lost'[c.msg]
    BY <1>3, <1>5, <1>7 DEF IInv, HeldIsLast
  <2> QED BY <1>1, <1>4, <1>6, <2>1 DEF HeldIsLast
<1>12. NoneLost'
  <2> SUFFICES ASSUME NEW k \in Msgs, lost'[k] = {}
               PROVE  /\ \A c \in copies' : c.msg = k => server'[k] = "out"
                      /\ Ended(k) => server'[k] = "done"
    BY <1>1 DEF NoneLost, Ended
  <2>1. lost[k] = {}
    BY <1>7
  <2> QED BY <1>1, <1>2, <1>4, <2>1 DEF IInv, NoneLost
<1>13. Accounted'
  <2> SUFFICES ASSUME NEW k \in Msgs, NEW n \in 1..count'[k]
               PROVE  \/ n \in tried[k] \cup handed[k] \cup lost'[k]
                      \/ \E c \in copies' : c.msg = k /\ c.nth = n
                      \/ n = count'[k] /\ server'[k] \in {"done", "stopped"} /\ Ended(k)
    BY <1>1 DEF Accounted, Deliveries, InHand, Over, Ended
  <2>1. CASE k = m /\ n = count'[k]
    BY <1>1, <1>4, <2>1
  <2>2. CASE ~(k = m /\ n = count'[k])
    <3>1. n \in Deliveries(k)
      BY <1>3, <2>2 DEF Deliveries
    <3> QED BY <1>1, <1>2, <1>3, <1>7, <3>1 DEF IInv, Accounted, InHand, Over
  <2> QED BY <2>1, <2>2
<1>14. Serves
  <2>1. \A k \in Msgs : lost'[k] \subseteq 1..count'[k]
    BY <1>3, <1>7
  <2> QED BY <1>1, <1>3, <1>4, <1>6, <1>7, <2>1 DEF Serves
<1> QED BY <1>8, <1>9, <1>10, <1>11, <1>12, <1>13, <1>14, ServesTries DEF IInv

-----------------------------------------------------------------------------
(* The theorems.                                                            *)

LEMMA Starts == ASSUME QueueAssumption, Init PROVE IInv
<1>1. MaxDeliver \in Nat /\ MaxFaults \in Nat /\ Cardinality({}) = 0
  BY MaxDeliverAboveRetries, FS_EmptySet DEF QueueAssumption
<1>2. TypeOK
  BY <1>1 DEF Init, TypeOK
<1>3. Numbered /\ Staged /\ HeldIsLast /\ NoneLost /\ SpentAfterItsTries /\ WeighedBack
  BY DEF Init, Numbered, Staged, HeldIsLast, NoneLost, SpentAfterItsTries, WeighedBack,
         Deliveries, Ended
<1>4. Accounted
  BY DEF Init, Accounted, Deliveries
<1>5. NotedAsHanded
  BY <1>1 DEF Init, NotedAsHanded
<1>6. FiledAfterItsTries /\ SuccessFiledOnlyUnanswered
  BY DEF Init, FiledAfterItsTries, SuccessFiledOnlyUnanswered
<1> QED BY <1>2, <1>3, <1>4, <1>5, <1>6 DEF IInv

\* Every step keeps the invariant.
LEMMA Steps == ASSUME QueueAssumption, IInv, [Next]_vars PROVE IInv'
<1>1. ASSUME NEW m \in Msgs, Serve(m) PROVE IInv'
  BY <1>1, PushKeeps, ServerStopsKeeps, AckWaitElapsesKeeps, DeliverKeeps DEF Serve
<1>2. ASSUME NEW c \in copies, Answer(c) PROVE IInv'
  BY <1>2, AnswerHandles, HandlesInv
<1>3. ASSUME NEW r \in Replicas, BodyAgrees(r) \/ BodyRefuses(r) PROVE IInv'
  BY <1>3, BodyHandles, HandlesInv
<1>4. ASSUME NEW r \in Replicas, Abandon(r) PROVE IInv'
  BY <1>4, AbandonHandles, HandlesInv
<1>5. CASE UNCHANGED vars
  <2>1. UNCHANGED <<queue, unreadable, server, count, copies, noted, dead, succeeded, tried,
                    handed, misread, lost, faults>>
    BY <1>5 DEF vars, pushed, fates, history
  <2>2. TypeOK'
    BY <2>1 DEF IInv, TypeOK
  <2>3. Numbered' /\ Staged' /\ HeldIsLast'
    BY <2>1 DEF IInv, Numbered, Staged, HeldIsLast, Deliveries
  <2>4. NoneLost' /\ Accounted'
    BY <2>1 DEF IInv, NoneLost, Accounted, Deliveries, InHand, Over, Ended
  <2>5. \A m \in Msgs : count[m] <= count[m]
    BY DEF IInv, TypeOK
  <2>6. lost \in [Msgs -> SUBSET Nat] /\ \A m \in Msgs : lost[m] \subseteq 1..count[m]
    BY WithHistory DEF IInv, Numbered, Deliveries
  <2>7. Serves
    BY <2>1, <2>5, <2>6 DEF Serves, IInv, TypeOK
  <2> QED BY <2>2, <2>3, <2>4, <2>7, ServesTries DEF IInv
<1> QED BY <1>1, <1>2, <1>3, <1>4, <1>5 DEF Next

\* The deliveries of every message are accounted for, and the tries of its policy with them.
THEOREM AccountedFor == ASSUME QueueAssumption PROVE Spec => []IInv
<1>1. Init => IInv
  BY Starts
<1>2. IInv /\ [Next]_vars => IInv'
  BY Steps
<1> QED BY <1>1, <1>2, PTL DEF Spec

\* The state of the server, of the replicas and of Redis stays in its types.
THEOREM TypeCorrect == ASSUME QueueAssumption PROVE Spec => []TypeOK
<1>1. IInv => TypeOK
  BY DEF IInv
<1> QED BY <1>1, AccountedFor, PTL

\* A message filed in the dead letter had the tries of its queue, whatever the replicas
\* that do not declare it did in between.
THEOREM TriedBeforeFiled == ASSUME QueueAssumption PROVE Spec => []FiledAfterItsTries
<1>1. IInv => FiledAfterItsTries
  BY DEF IInv
<1> QED BY <1>1, AccountedFor, PTL

\* A job that succeeded is filed as a failure only after an answer that came to nothing.
THEOREM SuccessKept == ASSUME QueueAssumption PROVE Spec => []SuccessFiledOnlyUnanswered
<1>1. IInv => SuccessFiledOnlyUnanswered
  BY DEF IInv
<1> QED BY <1>1, AccountedFor, PTL

\* The last two deliveries of a message dropped without a trace came to nothing both:
\* either one alone would have spent it.
LEMMA TwoLost == ASSUME QueueAssumption, IInv PROVE DroppedOnlyAfterTwoLosses
<1> SUFFICES ASSUME NEW m \in Msgs, Dropped(m), ~Ended(m)
             PROVE  Cardinality(lost[m] \cup handed[m]) >= 2
  BY DEF DroppedOnlyAfterTwoLosses, Ended
<1> DEFINE X == lost[m] \cup handed[m]
<1>1. /\ count[m] = MaxDeliver /\ MaxDeliver \in Nat /\ Retries(m) \in Nat \ {0}
      /\ Retries(m) < MaxDeliver /\ \A n : ~InHand(m, n)
      /\ tried[m] \cup lost[m] \cup handed[m] \subseteq 1..MaxDeliver
  BY MaxDeliverAboveRetries DEF Dropped, IInv, Numbered, Deliveries, InHand, Retries, TypeOK
<1>2. X \in SUBSET (1..MaxDeliver)
  BY <1>1
<1>3. \A n \in 1..MaxDeliver : n \in X \/ n \in tried[m] \ lost[m]
  BY <1>1 DEF IInv, Accounted, Deliveries
<1>4. \A n \in tried[m] \ lost[m] : n < Retries(m) + Cardinality({h \in handed[m] : h < n})
  BY <1>1 DEF IInv, WeighedBack, Ended
<1> HIDE DEF X
<1>5. Cardinality(X) \in Nat /\ IsFiniteSet(X)
  BY <1>1, <1>2, NumbersFinite
<1>6. MaxDeliver \in X \/ Cardinality(X) >= 2
  <2> SUFFICES ASSUME MaxDeliver \notin X PROVE Cardinality(X) >= 2
    OBVIOUS
  <2>1. MaxDeliver < Retries(m) + Cardinality({h \in handed[m] : h < MaxDeliver})
    BY <1>1, <1>3, <1>4
  <2>2. {h \in handed[m] : h < MaxDeliver} \in SUBSET X
    BY DEF X
  <2>3. /\ Cardinality({h \in handed[m] : h < MaxDeliver}) <= Cardinality(X)
        /\ Cardinality({h \in handed[m] : h < MaxDeliver}) \in Nat
    BY <1>1, <1>2, <2>2, NumbersFinite
  <2> QED BY <1>1, <1>5, <2>1, <2>3
<1>7. MaxDeliver \in X => Cardinality(X) >= 2
  <2> SUFFICES ASSUME MaxDeliver \in X PROVE Cardinality(X) >= 2
    OBVIOUS
  <2>1. \E n \in X : n # MaxDeliver
    <3> SUFFICES ASSUME \A n \in X : n = MaxDeliver PROVE FALSE
      OBVIOUS
    <3>1. MaxDeliver - 1 \in 1..MaxDeliver /\ MaxDeliver - 1 \notin X
      BY <1>1
    <3>2. MaxDeliver - 1 < Retries(m) + Cardinality({h \in handed[m] : h < MaxDeliver - 1})
      BY <1>3, <1>4, <3>1
    <3>3. {h \in handed[m] : h < MaxDeliver - 1} = {}
      BY <1>1 DEF X
    <3>4. Cardinality({h \in handed[m] : h < MaxDeliver - 1}) = 0
      BY <3>3, FS_EmptySet
    <3>5. MaxDeliver - 1 < Retries(m) + 0
      BY <3>2, <3>4
    <3> QED BY <1>1, <3>5
  <2>2. PICK n \in X : n # MaxDeliver
    BY <2>1
  <2>3. {n, MaxDeliver} \in SUBSET X
    BY <2>2
  <2>4. Cardinality({n, MaxDeliver}) <= Cardinality(X)
    BY <1>5, <2>3, FS_Subset
  <2>5. Cardinality({n, MaxDeliver}) = 2
    <3>1. IsFiniteSet({n}) /\ Cardinality({n}) = 1
      BY FS_Singleton
    <3>2. Cardinality({n} \cup {MaxDeliver}) = Cardinality({n}) + 1
      BY <2>2, <3>1, FS_AddElement
    <3>3. {n} \cup {MaxDeliver} = {n, MaxDeliver}
      OBVIOUS
    <3> QED BY <3>1, <3>2, <3>3
  <2> QED BY <1>5, <2>4, <2>5
<1> QED BY <1>6, <1>7 DEF X

\* The extra delivery of max_deliver pays for one that comes to nothing.
THEOREM OneLossPaidFor == ASSUME QueueAssumption PROVE Spec => []DroppedOnlyAfterTwoLosses
<1>1. IInv => DroppedOnlyAfterTwoLosses
  BY TwoLost
<1> QED BY <1>1, AccountedFor, PTL

\* A message that is filed is not delivered again, unless an answer that should have
\* ended it came to nothing.
LEMMA FiledKept == ASSUME IInv, [Next]_vars PROVE FiledStaysFiled
<1> SUFFICES ASSUME NEW m \in dead, count'[m] > count[m], lost[m] = {} PROVE FALSE
  BY DEF FiledStaysFiled
<1>1. m \in Msgs /\ server[m] = "done" /\ count[m] \in Nat
  BY DEF IInv, TypeOK, NoneLost, Ended
<1>2. ASSUME NEW k \in Msgs, NEW r \in Replicas, Deliver(k, r) PROVE count'[m] = count[m]
  BY <1>1, <1>2 DEF Deliver, IInv, TypeOK
<1>3. (\E k \in Msgs : \E r \in Replicas : Deliver(k, r)) \/ UNCHANGED count
  BY DEF Next, Serve, Answer, Push, ServerStops, AckWaitElapses, HandBack, Discard, Retry,
     Weigh, FileSpent, BodyAgrees, BodyRefuses, Abandon, vars
<1> QED BY <1>1, <1>2, <1>3

\* Filing a message ends it, unless an answer failed.
THEOREM FiledEnds == ASSUME QueueAssumption PROVE Spec => FiledForGood
<1>1. IInv /\ [Next]_vars => FiledStaysFiled
  BY FiledKept
<1> QED BY <1>1, AccountedFor, PTL DEF Spec, FiledForGood
=============================================================================
