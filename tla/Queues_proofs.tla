--------------------------- MODULE Queues_proofs ----------------------------
(* What the runs check of the queues holds for every value of the constants.   *)
(* Each queue has its part: its invariant, IInv in its module, holds at first *)
(* and every action keeps it; the last part puts them together. The variables *)
(* have the names their modules give them.                                    *)
EXTENDS MCQueues, FiniteSetTheorems, SequenceTheorems, TLAPS

\* SqsQueue
mode == v1
told == v2
place == v3
receipts == v4
dead == v5
stopped == v6
loop == v7
failed == v8
served == v9
lapsed == v10
lapses == v11
sqsFaults == v12
unreadable == v13
\* PubSubQueue
kind == v1
letter == v2
attempt == v3
copies == v4
quiet == v5
stream == v6
known == v7
buffer == v8
running == v9
settled == v10
missed == v11
pubSubFaults == v12
\* DelayedJobs
scheduled == v1
members == v2
due == v3
promoter == v5
keys == v6
forgotten == v7
promoted == v8
delayedFaults == v9
\* RunnerLoops
guard == v1
wanted == v2
generation == v3
restarts == v4
doubled == v5
revived == v6
crashes == v8
\* QueueTopology
consumer == v1
process == v2
provisioning == v3
narrowed == v4
raced == v5
topologyFaults == v7

USE DEF mode, told, place, receipts, dead, stopped, loop, failed, served, lapsed, lapses,
       sqsFaults, unreadable, kind, letter, attempt, copies, quiet, stream, known, buffer, running, settled,
       missed, pubSubFaults, scheduled, members, due, promoter, keys, forgotten, promoted,
       delayedFaults, guard, wanted, generation, restarts, doubled, revived, crashes, consumer,
       process, provisioning, narrowed, raced, topologyFaults

\* Each instance has the operators on finite sets under names of its own.
LEMMA DelayedSets ==
    /\ \A S : Delayed!IsFiniteSet(S) <=> IsFiniteSet(S)
    /\ \A S : Delayed!Cardinality(S) = Cardinality(S)
<1>1. \A S : Delayed!IsFiniteSet(S) <=> IsFiniteSet(S)
  BY DEF Delayed!IsFiniteSet, IsFiniteSet
<1>2. \A S : Delayed!Cardinality(S) = Cardinality(S)
  BY Zenon DEF Delayed!Cardinality, Cardinality
<1> QED BY <1>1, <1>2

LEMMA LoopsSets ==
    /\ \A S : Loops!IsFiniteSet(S) <=> IsFiniteSet(S)
    /\ \A S : Loops!Cardinality(S) = Cardinality(S)
<1>1. \A S : Loops!IsFiniteSet(S) <=> IsFiniteSet(S)
  BY DEF Loops!IsFiniteSet, IsFiniteSet
<1>2. \A S : Loops!Cardinality(S) = Cardinality(S)
  BY Zenon DEF Loops!Cardinality, Cardinality
<1> QED BY <1>1, <1>2

LEMMA SqsSets ==
    /\ \A S : Sqs!IsFiniteSet(S) <=> IsFiniteSet(S)
    /\ \A S : Sqs!Cardinality(S) = Cardinality(S)
<1>1. \A S : Sqs!IsFiniteSet(S) <=> IsFiniteSet(S)
  BY DEF Sqs!IsFiniteSet, IsFiniteSet
<1>2. \A S : Sqs!Cardinality(S) = Cardinality(S)
  BY Zenon DEF Sqs!Cardinality, Cardinality
<1> QED BY <1>1, <1>2

LEMMA TopologySets ==
    /\ \A S : Topology!IsFiniteSet(S) <=> IsFiniteSet(S)
    /\ \A S : Topology!Cardinality(S) = Cardinality(S)
<1>1. \A S : Topology!IsFiniteSet(S) <=> IsFiniteSet(S)
  BY DEF Topology!IsFiniteSet, IsFiniteSet
<1>2. \A S : Topology!Cardinality(S) = Cardinality(S)
  BY Zenon DEF Topology!Cardinality, Cardinality
<1> QED BY <1>1, <1>2

-----------------------------------------------------------------------------
(* Delayed jobs (queue/delayed).                                              *)

\* The invariant, but for what counts.
LEMMA DelayedParts == Delayed!IInv <=> Delayed!Settled /\ promoted \in 0..Cardinality(Jobs)
   /\ promoted <= Cardinality(Delayed!Gone)
BY DelayedSets DEF Delayed!IInv, Delayed!TypeOK, Delayed!PromotedOnce, Delayed!Settled,
   Delayed!Gone

\* A fault is counted within its bound.
LEMMA DelayedFault ==
    ASSUME Delayed!DelayedAssumption, Delayed!Settled, Delayed!Fault \/ UNCHANGED delayedFaults
    PROVE  delayedFaults' \in 0..MaxDelayedFaults
BY DEF Delayed!DelayedAssumption, Delayed!Settled, Delayed!Fault

\* Nothing is scheduled at first.
LEMMA DelayedStarts == ASSUME Delayed!DelayedAssumption PROVE Delayed!Init => Delayed!IInv
<1> SUFFICES ASSUME Delayed!Init PROVE Delayed!IInv
  OBVIOUS
<1>1. Delayed!Settled
  BY DEF Delayed!Init, Delayed!Settled, Delayed!DelayedAssumption, Delayed!Reading,
     Delayed!Remembering, Delayed!Idle, Delayed!Passes
<1>2. IsFiniteSet(Delayed!Gone) /\ IsFiniteSet(Jobs)
  BY FS_Subset, DelayedSets DEF Delayed!Gone, Delayed!DelayedAssumption
<1>3. Cardinality(Delayed!Gone) \in Nat /\ Cardinality(Jobs) \in Nat
  BY <1>2, FS_CardinalityType
<1>4. promoted = 0
  BY DEF Delayed!Init
<1> QED BY <1>1, <1>3, <1>4, DelayedParts

\* Promotions stay within the jobs that are gone while those only grow.
LEMMA DelayedCountKept ==
    ASSUME Delayed!DelayedAssumption, Delayed!IInv, Delayed!Gone \subseteq Delayed!Gone',
           promoted' = promoted
    PROVE  promoted' \in 0..Cardinality(Jobs) /\ promoted' <= Cardinality(Delayed!Gone')
<1>1. IsFiniteSet(Jobs) /\ Delayed!Gone' \subseteq Jobs
  BY DelayedSets DEF Delayed!DelayedAssumption, Delayed!Gone
<1>2. IsFiniteSet(Delayed!Gone') 
  BY <1>1, FS_Subset
<1>3. Cardinality(Delayed!Gone) <= Cardinality(Delayed!Gone')
  BY <1>2, FS_Subset
<1>4. IsFiniteSet(Delayed!Gone) 
  BY <1>2, FS_Subset
<1>5. Cardinality(Delayed!Gone) \in Nat /\ Cardinality(Delayed!Gone') \in Nat
  BY <1>2, <1>4, FS_CardinalityType
<1> QED BY <1>3, <1>5, DelayedParts

\* A job that is published is on its queue before it is taken for published.
LEMMA DelayedPublish ==
    ASSUME Delayed!DelayedAssumption, Delayed!Settled, NEW p \in Calls, NEW j \in Jobs,
           NEW stored \in BOOLEAN, NEW ok \in BOOLEAN, Delayed!Publish(p, j, stored, ok)
    PROVE  Delayed!Settled'
<1> DEFINE now == promoter[p]
           sent == j \notin Unreadable /\ stored
           done == j \notin Unreadable /\ ok
<1>1. /\ UNCHANGED <<scheduled, members, due, forgotten, promoted>>
      /\ j \in scheduled \cap due /\ now \in Delayed!Passes
  BY DEF Delayed!Publish, Delayed!Settled, Delayed!Reading
<1>2. /\ copies' = [copies EXCEPT ![j] = IF sent /\ j \notin keys THEN @ + 1 ELSE @]
      /\ keys' = IF sent THEN keys \union {j} ELSE keys
      /\ done => sent
  BY DEF Delayed!Publish
<1>3. /\ copies \in [Jobs -> Nat] /\ keys \subseteq Jobs
      /\ (j \in keys) => copies[j] > 0
      /\ copies[j] > 0 => j \in keys \cup forgotten
  BY DEF Delayed!Settled, Delayed!Remembering
<1>4. /\ copies' \in [Jobs -> Nat] /\ keys' \subseteq Jobs
      /\ \A i \in Jobs : i # j => copies'[i] = copies[i]
      /\ copies'[j] = copies[j] \/ (copies'[j] = copies[j] + 1 /\ j \notin keys /\ sent)
      /\ sent => copies'[j] > 0
      /\ (sent /\ keys' = keys \cup {j}) \/ (~sent /\ keys' = keys)
  <2>1. CASE sent
    <3>1. CASE j \in keys
      BY <1>2, <1>3, <2>1, <3>1
    <3>2. CASE j \notin keys
      <4>1. copies' = [copies EXCEPT ![j] = @ + 1] /\ keys' = keys \cup {j}
        BY <1>2, <2>1, <3>2
      <4>2. copies'[j] = copies[j] + 1 /\ copies[j] \in Nat
        BY <1>3, <4>1
      <4> HIDE DEF sent
      <4> QED BY <1>3, <2>1, <3>2, <4>1, <4>2
    <3> QED BY <3>1, <3>2
  <2>2. CASE ~sent
    <3>1. copies' = copies /\ keys' = keys
      BY <1>2, <1>3, <2>2
    <3> HIDE DEF sent
    <3> QED BY <1>3, <2>2, <3>1
  <2> QED BY <2>1, <2>2
<1> DEFINE x == [now EXCEPT !.todo = @ \ {j},
                            !.published = IF done THEN @ \union {j} ELSE @,
                            !.dropped = IF j \notin Unreadable THEN @ ELSE @ \union {j},
                            !.pc = IF now.todo = {j} THEN "forget" ELSE @]
<1>5. promoter' = [promoter EXCEPT ![p] = x]
  BY DEF Delayed!Publish
<1>6. /\ x \in Delayed!Passes /\ x.todo = now.todo \ {j}
      /\ x.published = IF done THEN now.published \union {j} ELSE now.published
      /\ x.dropped = IF j \notin Unreadable THEN now.dropped ELSE now.dropped \union {j}
  BY <1>1 DEF Delayed!Passes
<1> HIDE DEF x, sent, done
<1>7. promoter' \in [Calls -> Delayed!Passes] /\ promoter'[p] = x
      /\ \A q \in Calls : q # p => promoter'[q] = promoter[q]
  BY <1>5, <1>6 DEF Delayed!Settled
<1>8. Delayed!Reading'
  <2> SUFFICES ASSUME NEW q \in Calls
               PROVE /\ promoter'[q].todo \subseteq scheduled \cap due
                     /\ \A i \in promoter'[q].published : copies'[i] > 0
                     /\ promoter'[q].dropped \subseteq Unreadable
    BY <1>1 DEF Delayed!Reading
  <2>1. /\ promoter[q].todo \subseteq scheduled \cap due
        /\ \A i \in promoter[q].published : i \in Jobs /\ copies[i] > 0
        /\ promoter[q].dropped \subseteq Unreadable
    BY DEF Delayed!Settled, Delayed!Reading, Delayed!Passes
  <2>2. \A i \in promoter[q].published : copies'[i] > 0
    BY <1>3, <1>4, <2>1
  <2> QED BY <1>2, <1>4, <1>6, <1>7, <2>1, <2>2
<1>9. delayedFaults' \in 0..MaxDelayedFaults
  BY DelayedFault DEF Delayed!Publish
<1>10. Delayed!Remembering'
  BY <1>1, <1>3, <1>4 DEF Delayed!Settled, Delayed!Remembering
<1>11. \A i \in Jobs : copies'[i] > 1 => i \in forgotten
  BY <1>3, <1>4 DEF Delayed!Settled
<1>12. \A i \in Jobs : copies'[i] > 0 => i \in due
  BY <1>1, <1>4 DEF Delayed!Settled
<1>13. \A i \in scheduled \ Unreadable : i \in members \/ copies'[i] > 0
  BY <1>3, <1>4 DEF Delayed!Settled
<1> QED BY <1>1, <1>4, <1>7, <1>8, <1>9, <1>10, <1>11, <1>12, <1>13 DEF Delayed!Settled

\* Every step keeps all but the count.
LEMMA DelayedSettled ==
    ASSUME Delayed!DelayedAssumption, Delayed!IInv, Delayed!Next
    PROVE  Delayed!Settled'
<1> USE DelayedParts
<1> USE DEF Delayed!Settled
<1>1. ASSUME NEW j \in Jobs, Delayed!Schedule(j) PROVE Delayed!Settled'
  BY <1>1 DEF Delayed!Schedule, Delayed!Reading, Delayed!Remembering
<1>2. ASSUME NEW j \in Jobs, Delayed!ComesDue(j) PROVE Delayed!Settled'
  BY <1>2 DEF Delayed!ComesDue, Delayed!Reading, Delayed!Remembering
<1>3. ASSUME NEW j \in Jobs, Delayed!WindowCloses(j) PROVE Delayed!Settled'
  BY <1>3 DEF Delayed!WindowCloses, Delayed!Reading, Delayed!Remembering
<1>4. ASSUME NEW p \in Calls, Delayed!Read(p) PROVE Delayed!Settled'
  <2>0. PICK first \in SUBSET (members \intersect due) : promoter' =
                [promoter EXCEPT ![p].pc = "publish", ![p].todo = first]
    BY <1>4 DEF Delayed!Read
  <2>1. promoter' \in [Calls -> Delayed!Passes]
    BY <2>0 DEF Delayed!Passes
  <2>2. Delayed!Reading'
    BY <1>4, <2>0 DEF Delayed!Read, Delayed!Reading
  <2> QED BY <1>4, <2>1, <2>2 DEF Delayed!Read, Delayed!Remembering
<1>5. ASSUME NEW p \in Calls, Delayed!Die(p) \/ \E ok \in BOOLEAN : Delayed!Forget(p, ok)
      PROVE  Delayed!Settled'
  <2>1. promoter' = [promoter EXCEPT ![p] = Delayed!Idle] /\ Delayed!Idle \in Delayed!Passes
    BY <1>5 DEF Delayed!Die, Delayed!Forget, Delayed!Idle, Delayed!Passes
  <2>2. Delayed!Reading'
    BY <1>5, <2>1 DEF Delayed!Die, Delayed!Forget, Delayed!Reading, Delayed!Idle
  <2>3. delayedFaults' \in 0..MaxDelayedFaults
    BY <1>5, DelayedFault DEF Delayed!Die, Delayed!Forget
  <2>4. \A j \in scheduled \ Unreadable : j \in members' \/ copies[j] > 0
    BY <1>5 DEF Delayed!Die, Delayed!Forget, Delayed!Reading
  <2>5. members' \subseteq members /\ UNCHANGED <<scheduled, due, copies, keys, forgotten>>
    BY <1>5 DEF Delayed!Die, Delayed!Forget
  <2> QED BY <2>1, <2>2, <2>3, <2>4, <2>5 DEF Delayed!Remembering
<1>6. ASSUME NEW p \in Calls, NEW j \in Jobs, NEW stored \in BOOLEAN, NEW ok \in BOOLEAN,
             Delayed!Publish(p, j, stored, ok)
      PROVE Delayed!Settled'
  BY <1>6, DelayedPublish
<1> QED BY <1>1, <1>2, <1>3, <1>4, <1>5, <1>6 DEF Delayed!Next

\* A pass counts what it took out of the members, which is on a queue by then.
LEMMA DelayedCount == ASSUME Delayed!DelayedAssumption, Delayed!IInv, Delayed!Next
    PROVE  promoted' \in 0..Cardinality(Jobs) /\ promoted' <= Cardinality(Delayed!Gone')
<1> USE DelayedParts
<1>1. ASSUME NEW j \in Jobs, Delayed!Schedule(j)
      PROVE  Delayed!Gone \subseteq Delayed!Gone' /\ promoted' = promoted
  BY <1>1 DEF Delayed!Schedule, Delayed!Gone, Delayed!Settled, Delayed!Remembering
<1>2. ASSUME NEW j \in Jobs, Delayed!ComesDue(j) \/ Delayed!WindowCloses(j)
      PROVE  Delayed!Gone \subseteq Delayed!Gone' /\ promoted' = promoted
  BY <1>2 DEF Delayed!ComesDue, Delayed!WindowCloses, Delayed!Gone
<1>3. ASSUME NEW p \in Calls, Delayed!Read(p) \/ Delayed!Die(p)
      PROVE  Delayed!Gone \subseteq Delayed!Gone' /\ promoted' = promoted
  BY <1>3 DEF Delayed!Read, Delayed!Die, Delayed!Gone
<1>4. ASSUME NEW p \in Calls, NEW j \in Jobs, NEW stored \in BOOLEAN, NEW ok \in BOOLEAN,
             Delayed!Publish(p, j, stored, ok)
      PROVE Delayed!Gone \subseteq Delayed!Gone' /\ promoted' = promoted
  <2>1. \A i \in Jobs : copies'[i] \in {copies[i], copies[i] + 1} /\ copies[i] \in Nat
    BY <1>4 DEF Delayed!Publish, Delayed!Settled
  <2> QED BY <1>4, <2>1 DEF Delayed!Publish, Delayed!Gone
<1>5. ASSUME NEW p \in Calls, NEW ok \in BOOLEAN, Delayed!Forget(p, ok)
      PROVE  promoted' \in 0..Cardinality(Jobs) /\ promoted' <= Cardinality(Delayed!Gone')
  <2>1. CASE ~ok
    <3>1. members' = members /\ copies' = copies /\ promoted' = promoted + 0
      BY <1>5, <2>1 DEF Delayed!Forget
    <3>2. promoted' = promoted
      BY <3>1
    <3> QED BY <3>1, <3>2, DelayedCountKept DEF Delayed!Gone
  <2>2. CASE ok
    <3> DEFINE back == members \intersect promoter[p].published
    <3>1. /\ copies' = copies /\ promoted' = promoted + Cardinality(back)
          /\ members' = members \ (promoter[p].published \union promoter[p].dropped)
      BY <1>5, <2>2, DelayedSets DEF Delayed!Forget
    <3>2. \A j \in back : j \in Jobs /\ copies[j] > 0 /\ j \notin members'
      BY <3>1 DEF Delayed!Settled, Delayed!Reading
    <3>3. Delayed!Gone \union back \subseteq Delayed!Gone' /\ Delayed!Gone \intersect back = {}
             /\ Delayed!Gone' \subseteq Jobs
      BY <3>1, <3>2 DEF Delayed!Gone
    <3> HIDE DEF back
    <3>4. IsFiniteSet(Jobs)
      BY DelayedSets DEF Delayed!DelayedAssumption
    <3>5. IsFiniteSet(Delayed!Gone')
      BY <3>3, <3>4, FS_Subset
    <3>6. IsFiniteSet(Delayed!Gone) /\ IsFiniteSet(back) /\ IsFiniteSet(Delayed!Gone \union back)
      BY <3>3, <3>5, FS_Subset
    <3>7. Cardinality(Delayed!Gone \union back) = Cardinality(Delayed!Gone) + Cardinality(back)
       <4>1. Cardinality(Delayed!Gone \union back)
                = Cardinality(Delayed!Gone) + Cardinality(back) - Cardinality(Delayed!Gone \intersect back)
        BY <3>6, FS_Union
      <4>2. Cardinality(Delayed!Gone \intersect back) = 0
        BY <3>3, FS_EmptySet
      <4>3. Cardinality(Delayed!Gone) \in Nat /\ Cardinality(back) \in Nat
        BY <3>6, FS_CardinalityType
      <4> QED BY <4>1, <4>2, <4>3
    <3>8. Cardinality(Delayed!Gone \union back) <= Cardinality(Delayed!Gone')
             /\ Cardinality(Delayed!Gone') <= Cardinality(Jobs)
      BY <3>3, <3>4, <3>5, FS_Subset
    <3>9. Cardinality(Delayed!Gone) \in Nat /\ Cardinality(back) \in Nat
             /\ Cardinality(Delayed!Gone') \in Nat /\ Cardinality(Jobs) \in Nat
      BY <3>4, <3>5, <3>6, FS_CardinalityType
    <3> QED BY <3>1, <3>7, <3>8, <3>9
  <2> QED BY <2>1, <2>2
<1> QED BY <1>1, <1>2, <1>3, <1>4, <1>5, DelayedCountKept DEF Delayed!Next

\* So the invariant is inductive.
LEMMA DelayedSteps ==
    ASSUME Delayed!DelayedAssumption, Delayed!IInv, [Delayed!Next]_(Delayed!delayedVars)
    PROVE  Delayed!IInv'
<1>1. CASE Delayed!Next
  <2>1. Delayed!Settled
    BY DelayedParts
  <2>2. Delayed!Settled'
    BY <1>1, <2>1, DelayedSettled
  <2>3. promoted' \in 0..Cardinality(Jobs) /\ promoted' <= Cardinality(Delayed!Gone')
    BY <1>1, DelayedCount
  <2> QED BY <2>2, <2>3, DelayedSets DEF Delayed!Settled, Delayed!IInv, Delayed!TypeOK,
             Delayed!PromotedOnce, Delayed!Gone
<1>2. CASE UNCHANGED Delayed!delayedVars
  BY <1>2 DEF Delayed!delayedVars, Delayed!IInv, Delayed!TypeOK, Delayed!Reading,
     Delayed!Remembering, Delayed!PromotedOnce
<1> QED BY <1>1, <1>2

-----------------------------------------------------------------------------
(* The loops of a runner (queue/runner, trigger_runner.ts, cron_runner.ts).   *)

\* No loop has begun at first.
LEMMA LoopsStarts == ASSUME Loops!LoopAssumption PROVE Loops!Init => Loops!IInv
<1> SUFFICES ASSUME Loops!Init PROVE Loops!IInv
  OBVIOUS
<1>1. Loops!Begun = {} /\ Loops!Standing = {}
  BY DEF Loops!Init, Loops!Begun, Loops!Standing, Loops!Off
<1>2. Loops!TypeOK
  <2>1. 0 \in 0..MaxStarts /\ 0 \in 0..MaxCrashes /\ 0 \in 0..0 /\ generation = 0 /\ crashes = 0
    BY DEF Loops!Init, Loops!LoopAssumption
  <2> QED BY <2>1 DEF Loops!Init, Loops!TypeOK, Loops!Off
<1>3. Loops!Numbered
  <2>1. 0 \in 0..MaxStarts /\ 1..0 = {} /\ generation = 0
    BY DEF Loops!Init, Loops!LoopAssumption
  <2> QED BY <1>1, <2>1 DEF Loops!Numbered, Loops!Init, Loops!Off
<1>4. running = wanted /\ ~running /\ ~wanted
  BY DEF Loops!Init
<1> QED BY <1>1, <1>2, <1>3, <1>4 DEF Loops!IInv, Loops!ByGeneration, Loops!ByTheFlag

\* A loop begins under the next number.
LEMMA LoopBegins ==
    ASSUME Loops!LoopAssumption, Loops!TypeOK, Loops!Numbered, NEW of, Loops!Begin(of)
    PROVE  \E k \in Loops!Loops :
              /\ loop[k].pc = "off" /\ generation < k
              /\ loop' = [loop EXCEPT ![k] =
                            [pc |-> IF guard = "generation" THEN "prepare" ELSE "pass", of |-> of]]
              /\ Loops!Begun = 1..k - 1 /\ Loops!Begun' = 1..k
<1>1. PICK n \in 0..MaxStarts : Loops!Begun = 1..n /\ generation <= n
  BY DEF Loops!Numbered
<1>2. Cardinality(Loops!Begun) = n
  <2>1. Cardinality(1..n) = IF 1 > n THEN 0 ELSE n - 1 + 1
    BY <1>1, FS_Interval DEF Loops!LoopAssumption
  <2> QED BY <1>1, <2>1 DEF Loops!LoopAssumption
<1>3. n + 1 \in Loops!Loops /\ n + 1 \notin Loops!Begun
  BY <1>1, <1>2, LoopsSets DEF Loops!Begin, Loops!Loops, Loops!LoopAssumption
<1>4. loop' = [loop EXCEPT ![n + 1] =
                  [pc |-> IF guard = "generation" THEN "prepare" ELSE "pass", of |-> of]]
  BY <1>2, LoopsSets DEF Loops!Begin
<1>5. loop[n + 1].pc = "off"
  BY <1>3 DEF Loops!Begun
<1>6. \A l \in Loops!Loops : l \in Loops!Begun' <=> l \in Loops!Begun \/ l = n + 1
  BY <1>3, <1>4 DEF Loops!Begun, Loops!TypeOK
<1>7. Loops!Begun' = 1..n + 1
  <2>1. Loops!Begun' \subseteq Loops!Loops /\ Loops!Begun \subseteq Loops!Loops
    BY DEF Loops!Begun
  <2>2. \A l : l \in 1..n + 1 <=> l \in 1..n \/ l = n + 1
    BY <1>1 DEF Loops!LoopAssumption
  <2> QED BY <1>1, <1>3, <1>6, <2>1, <2>2
<1>8. generation < n + 1 /\ 1..n = 1..(n + 1) - 1
  BY <1>1 DEF Loops!TypeOK, Loops!LoopAssumption
<1> QED BY <1>1, <1>3, <1>4, <1>5, <1>7, <1>8

\* Beginning a loop keeps the loops numbered and adds it to those that stand.
LEMMA LoopBegunInv ==
    ASSUME Loops!LoopAssumption, Loops!IInv, NEW of \in 1..generation', Loops!Begin(of),
           generation' \in {generation, generation + 1}, UNCHANGED <<guard, crashes>>,
           restarts' \subseteq restarts, wanted' \in BOOLEAN, running' \in BOOLEAN,
           doubled' \in BOOLEAN, revived' \in BOOLEAN,
           guard = "generation" =>
              /\ running' = wanted'
              /\ generation' = of
              /\ of \notin restarts' /\ \A l \in Loops!Standing : loop[l].of # of,
           guard = "flag" =>
              /\ running' /\ (wanted' \/ revived')
              /\ doubled' \/ Loops!Standing = {}
    PROVE  Loops!IInv'
<1>1. PICK k \in Loops!Loops :
              /\ loop[k].pc = "off" /\ generation < k
              /\ loop' = [loop EXCEPT ![k] =
                            [pc |-> IF guard = "generation" THEN "prepare" ELSE "pass", of |-> of]]
              /\ Loops!Begun = 1..k - 1 /\ Loops!Begun' = 1..k
  BY LoopBegins DEF Loops!IInv
<1>2. /\ generation' \in 0..MaxStarts /\ generation' <= k /\ generation <= generation'
      /\ 0..generation \subseteq 0..generation' /\ 1..generation \subseteq 1..generation'
      /\ k \in 0..MaxStarts
  BY <1>1 DEF Loops!IInv, Loops!TypeOK, Loops!LoopAssumption, Loops!Loops
<1>3. Loops!TypeOK'
  <2>1. loop \in [Loops!Loops -> [pc : {"off", "prepare", "pass", "ended"}, of : 0..generation']]
    BY <1>2 DEF Loops!IInv, Loops!TypeOK
  <2>2. of \in 0..generation'
    BY <1>2 DEF Loops!LoopAssumption
  <2>3. loop' \in [Loops!Loops -> [pc : {"off", "prepare", "pass", "ended"}, of : 0..generation']]
    BY <1>1, <2>1, <2>2
  <2> QED BY <1>2, <2>3 DEF Loops!IInv, Loops!TypeOK
<1>4. /\ loop'[k] = [pc |-> IF guard = "generation" THEN "prepare" ELSE "pass", of |-> of]
      /\ \A l \in Loops!Loops : l # k => loop'[l] = loop[l]
      /\ k \notin Loops!Standing
  BY <1>1 DEF Loops!IInv, Loops!TypeOK, Loops!Standing
<1>5. Loops!Standing' = Loops!Standing \cup {k}
  BY <1>4 DEF Loops!Standing
<1>6. Loops!Numbered'
  <2>1. \A l \in Loops!Loops : loop'[l].pc # "off" => loop'[l].of # 0
    BY <1>2, <1>4 DEF Loops!IInv, Loops!Numbered, Loops!TypeOK, Loops!LoopAssumption
  <2> QED BY <1>1, <1>2, <2>1 DEF Loops!Numbered
<1>7. CASE guard = "generation"
  <2>1. \A l \in Loops!Standing : loop'[l] = loop[l] /\ loop[l].of # of
    BY <1>4, <1>7 DEF Loops!Standing
  <2>2. loop'[k].of = of
    BY <1>4
  <2>3. Loops!ByGeneration'
    <3>1. \A i, l \in Loops!Standing' : loop'[i].of = loop'[l].of => i = l
      BY <1>5, <1>7, <2>1, <2>2 DEF Loops!IInv, Loops!ByGeneration
    <3>2. \A l \in Loops!Standing' : loop'[l].of \notin restarts'
      BY <1>5, <1>7, <2>1, <2>2 DEF Loops!IInv, Loops!ByGeneration
    <3>3. \E l \in Loops!Standing' : loop'[l].of = generation'
      BY <1>5, <1>7, <2>2
    <3> QED BY <1>7, <3>1, <3>2, <3>3 DEF Loops!ByGeneration
  <2> QED BY <1>3, <1>6, <1>7, <2>3 DEF Loops!IInv
<1>8. CASE guard = "flag"
  <2>1. \A l \in Loops!Standing : loop'[l] = loop[l]
    BY <1>4 DEF Loops!Standing
  <2>2. loop'[k].pc = "pass"
    BY <1>4, <1>8
  <2>3. Loops!ByTheFlag'
    <3>1. \A l \in Loops!Standing' : loop'[l].pc = "pass"
      BY <1>5, <1>8, <2>1, <2>2 DEF Loops!IInv, Loops!ByTheFlag
    <3>2. doubled' \/ \A i, l \in Loops!Standing' : i = l
      BY <1>5, <1>8 
    <3> QED BY <1>5, <1>8, <3>1, <3>2 DEF Loops!ByTheFlag
  <2> QED BY <1>3, <1>6, <1>8, <2>3 DEF Loops!IInv
<1> QED BY <1>7, <1>8 DEF Loops!IInv, Loops!TypeOK

\* start begins a loop of a new generation where the runner does not run.
LEMMA LoopsStart == ASSUME Loops!LoopAssumption, Loops!IInv, Loops!Start PROVE Loops!IInv'
<1>1. CASE running
  <2>1. UNCHANGED <<guard, running, generation, loop, restarts, doubled, revived, crashes>>
           /\ wanted' = TRUE
    BY <1>1 DEF Loops!Start
  <2> QED BY <1>1, <2>1 DEF Loops!IInv, Loops!TypeOK, Loops!Numbered, Loops!ByGeneration,
             Loops!ByTheFlag, Loops!Begun, Loops!Standing, Loops!Loops
<1>2. CASE ~running
  <2>1. /\ wanted' /\ running' /\ generation' = generation + 1 /\ Loops!Begin(generation')
        /\ doubled' = (doubled \/ (guard = "flag" /\ Loops!Standing # {}))
        /\ wanted' \in BOOLEAN /\ running' \in BOOLEAN
              /\ UNCHANGED <<guard, restarts, revived, crashes>>
    BY <1>2 DEF Loops!Start
  <2>2. generation' \notin restarts /\ generation' \in 1..generation'
        /\ \A l \in Loops!Standing : loop[l].of # generation'
    BY <2>1 DEF Loops!IInv, Loops!TypeOK, Loops!LoopAssumption, Loops!Standing
  <2>3. doubled' \in BOOLEAN /\ revived' \in BOOLEAN
    BY <2>1 DEF Loops!IInv, Loops!TypeOK
  <2>4. guard = "flag" => doubled' \/ Loops!Standing = {}
    BY <2>1
  <2>5. guard = "generation" => running' = wanted'
    BY <2>1 DEF Loops!Start
  <2> QED BY <2>1, <2>2, <2>3, <2>4, <2>5, LoopBegunInv
<1> QED BY <1>1, <1>2

\* stop lowers the flag, or leaves no loop of the current generation.
LEMMA LoopsStop == ASSUME Loops!LoopAssumption, Loops!IInv, Loops!Stop PROVE Loops!IInv'
<1>1. /\ UNCHANGED <<guard, generation, loop, restarts, doubled, revived, crashes>>
      /\ ~wanted' /\ ~running' /\ wanted' = running' /\ wanted' \in BOOLEAN /\ running' \in BOOLEAN
  BY DEF Loops!Stop
<1> QED BY <1>1 DEF Loops!IInv, Loops!TypeOK, Loops!Numbered, Loops!ByGeneration,
           Loops!ByTheFlag, Loops!Begun, Loops!Standing, Loops!Loops

\* A loop goes on, ends or crashes.
LEMMA LoopMoves ==
    ASSUME Loops!TypeOK, Loops!Numbered, NEW l \in Loops!Loops, NEW to \in {"pass", "ended"},
           loop[l].pc # "off",
           loop' = [loop EXCEPT ![l].pc = to], generation' = generation
    PROVE  /\ loop' \in [Loops!Loops -> [pc : {"off", "prepare", "pass", "ended"}, of : 0..generation']]
           /\ Loops!Numbered'
           /\ \A k \in Loops!Loops : loop'[k].of = loop[k].of
           /\ \A k \in Loops!Loops : k # l => loop'[k] = loop[k]
           /\ loop'[l].pc = to
           /\ Loops!Standing' = IF to = "ended" THEN Loops!Standing \ {l} ELSE Loops!Standing \cup {l}
<1>1. /\ loop' \in [Loops!Loops -> [pc : {"off", "prepare", "pass", "ended"}, of : 0..generation']]
      /\ loop'[l] = [loop[l] EXCEPT !.pc = to]
      /\ \A k \in Loops!Loops : k # l => loop'[k] = loop[k]
  BY DEF Loops!TypeOK
<1>2. loop'[l].pc = to /\ loop'[l].of = loop[l].of
  BY <1>1 DEF Loops!TypeOK
<1>3. Loops!Begun' = Loops!Begun
  BY <1>1, <1>2 DEF Loops!Begun
<1>4. \A k \in Loops!Loops : loop'[k].of = loop[k].of
  BY <1>1, <1>2
<1>5. Loops!Numbered'
  BY <1>1, <1>2, <1>3, <1>4 DEF Loops!Numbered
<1> QED BY <1>1, <1>2, <1>4, <1>5 DEF Loops!Standing

\* A loop that is prepared passes on, and one that is not alive leaves.
LEMMA LoopsGoOn ==
    ASSUME Loops!LoopAssumption, Loops!IInv, NEW l \in Loops!Loops,
           Loops!Prepared(l) \/ Loops!Leave(l)
    PROVE  Loops!IInv'
<1>1. PICK to \in {"pass", "ended"} :
         /\ loop' = [loop EXCEPT ![l].pc = to]
         /\ loop[l].pc \in {"prepare", "pass"} 
         /\ to = "pass" \/ (~Loops!Alive(l) /\ loop[l].pc = "pass")
  BY DEF Loops!Prepared, Loops!Leave
<1>2. UNCHANGED <<guard, wanted, running, generation, restarts, doubled, revived, crashes>>
  BY DEF Loops!Prepared, Loops!Leave
<1>3. /\ loop' \in [Loops!Loops -> [pc : {"off", "prepare", "pass", "ended"}, of : 0..generation']]
      /\ Loops!Numbered'
      /\ \A k \in Loops!Loops : loop'[k].of = loop[k].of
      /\ \A k \in Loops!Loops : k # l => loop'[k] = loop[k]
      /\ loop'[l].pc = to
      /\ Loops!Standing' = IF to = "ended" THEN Loops!Standing \ {l} ELSE Loops!Standing \cup {l}
  BY <1>1, <1>2, LoopMoves DEF Loops!IInv
<1>4. Loops!TypeOK'
  BY <1>2, <1>3 DEF Loops!IInv, Loops!TypeOK
<1>5. l \in Loops!Standing /\ Loops!Standing \subseteq Loops!Loops
         /\ Loops!Standing' \subseteq Loops!Standing
  BY <1>1, <1>3 DEF Loops!Standing
<1>6. guard = "generation" => Loops!ByGeneration'
  <2> SUFFICES ASSUME guard = "generation" PROVE Loops!ByGeneration'
    OBVIOUS
  <2>1. Loops!ByGeneration
    BY DEF Loops!IInv
  <2>2. running => loop[l].of # generation \/ to = "pass"
    BY <1>1 DEF Loops!Alive
  <2> QED BY <1>2, <1>3, <1>5, <2>1, <2>2 DEF Loops!ByGeneration
<1>7. guard = "flag" => Loops!ByTheFlag'
  <2> SUFFICES ASSUME guard = "flag" PROVE Loops!ByTheFlag'
    OBVIOUS
  <2>1. Loops!ByTheFlag
    BY DEF Loops!IInv
  <2>2. running => to = "pass"
    BY <1>1 DEF Loops!Alive
  <2> QED BY <1>2, <1>3, <1>5, <2>1, <2>2 DEF Loops!ByTheFlag
<1> QED BY <1>2, <1>3, <1>4, <1>6, <1>7 DEF Loops!IInv

\* A loop that crashes leaves a restart of its generation behind.
LEMMA LoopsCrash ==
    ASSUME Loops!LoopAssumption, Loops!IInv, NEW l \in Loops!Loops, Loops!Crash(l)
    PROVE  Loops!IInv'
<1>1. /\ loop' = [loop EXCEPT ![l].pc = "ended"]
      /\ loop[l].pc \in {"prepare", "pass"} 
      /\ restarts' = restarts \union {loop[l].of}
      /\ running' = (running /\ guard = "generation")
      /\ UNCHANGED <<guard, wanted, generation, doubled, revived>>
  BY DEF Loops!Crash
<1>2. crashes' \in 0..MaxCrashes
  BY DEF Loops!Crash, Loops!IInv, Loops!TypeOK, Loops!LoopAssumption
<1>3. /\ loop' \in [Loops!Loops -> [pc : {"off", "prepare", "pass", "ended"}, of : 0..generation']]
      /\ Loops!Numbered'
      /\ \A k \in Loops!Loops : loop'[k].of = loop[k].of
      /\ \A k \in Loops!Loops : k # l => loop'[k] = loop[k]
      /\ Loops!Standing' = Loops!Standing \ {l}
  BY <1>1, LoopMoves DEF Loops!IInv
<1>4. Loops!TypeOK'
  <2>1. loop[l].of \in 1..generation
    BY <1>1 DEF Loops!IInv, Loops!TypeOK, Loops!Numbered, Loops!LoopAssumption
  <2> QED BY <1>1, <1>2, <1>3, <2>1 DEF Loops!IInv, Loops!TypeOK
<1>5. l \in Loops!Standing /\ Loops!Standing \subseteq Loops!Loops
  BY <1>1 DEF Loops!Standing
<1>6. guard = "generation" => Loops!ByGeneration'
  BY <1>1, <1>3, <1>5 DEF Loops!IInv, Loops!TypeOK, Loops!ByGeneration
<1>7. guard = "flag" => Loops!ByTheFlag'
  BY <1>1, <1>3, <1>5 DEF Loops!IInv, Loops!ByTheFlag
<1> QED BY <1>1, <1>3, <1>4, <1>6, <1>7 DEF Loops!IInv

\* A restart begins a loop where it finds the runner as its guard wants it.
LEMMA LoopsRestart ==
    ASSUME Loops!LoopAssumption, Loops!IInv, NEW of \in 1..MaxStarts, Loops!Restart(of)
    PROVE  Loops!IInv'
<1>1. /\ of \in restarts /\ restarts' = restarts \ {of} /\ UNCHANGED <<guard, wanted, crashes>>
      /\ restarts \subseteq 1..generation
  BY DEF Loops!Restart, Loops!IInv, Loops!TypeOK
<1>2. CASE guard = "generation" /\ running /\ of = generation
  <2>1. Loops!Begin(of) /\ UNCHANGED <<running, generation, doubled, revived>>
    BY <1>2 DEF Loops!Restart
  <2>2. of \notin restarts' /\ (\A l \in Loops!Standing : loop[l].of # of) /\ running = wanted
    BY <1>1, <1>2 DEF Loops!IInv, Loops!ByGeneration
  <2> QED BY <1>1, <1>2, <2>1, <2>2, LoopBegunInv DEF Loops!IInv, Loops!TypeOK
<1>3. CASE guard = "flag" /\ ~running
  <2>1. /\ running' = TRUE /\ generation' = generation + 1 /\ Loops!Begin(generation')
        /\ doubled' = (doubled \/ Loops!Standing # {}) /\ revived' = (revived \/ ~wanted)
    BY <1>3 DEF Loops!Restart
  <2>2. generation' \in 1..generation'
    BY <2>1 DEF Loops!IInv, Loops!TypeOK, Loops!LoopAssumption
  <2> QED BY <1>1, <1>3, <2>1, <2>2, LoopBegunInv DEF Loops!IInv, Loops!TypeOK
<1>4. CASE ~(guard = "generation" /\ running /\ of = generation) /\ ~(guard = "flag" /\ ~running)
  <2>1. UNCHANGED <<loop, running, generation, doubled, revived>>
    BY <1>4 DEF Loops!Restart, Loops!IInv, Loops!TypeOK
  <2>2. Loops!TypeOK' /\ Loops!Numbered' /\ Loops!Standing' = Loops!Standing
    BY <1>1, <2>1 DEF Loops!IInv, Loops!TypeOK, Loops!Numbered, Loops!Begun, Loops!Standing,
       Loops!Loops
  <2>3. guard = "generation" => Loops!ByGeneration'
    BY <1>1, <1>4, <2>1, <2>2 DEF Loops!IInv, Loops!ByGeneration
  <2>4. guard = "flag" => Loops!ByTheFlag'
    BY <1>1, <1>4, <2>1, <2>2 DEF Loops!IInv, Loops!ByTheFlag
  <2> QED BY <1>1, <2>2, <2>3, <2>4 DEF Loops!IInv
<1> QED BY <1>2, <1>3, <1>4

\* So the invariant is inductive.
LEMMA LoopsSteps ==
    ASSUME Loops!LoopAssumption, Loops!IInv, [Loops!Next]_(Loops!loopVars)
    PROVE  Loops!IInv'
<1>1. CASE UNCHANGED Loops!loopVars
  BY <1>1 DEF Loops!loopVars, Loops!IInv, Loops!TypeOK, Loops!Numbered, Loops!ByGeneration,
     Loops!ByTheFlag, Loops!Begun, Loops!Standing, Loops!Loops
<1> QED BY <1>1, LoopsStart, LoopsStop, LoopsGoOn, LoopsCrash, LoopsRestart DEF Loops!Next

\* What the invariant says of the loops that go on.
LEMMA LoopsFollow == ASSUME Loops!IInv PROVE Loops!LoopsFollowTheSwitch
<1>1. wanted => Loops!Going # {} \/ restarts # {}
  BY DEF Loops!IInv, Loops!TypeOK, Loops!ByGeneration, Loops!ByTheFlag, Loops!Going, Loops!Alive
<1>2. Loops!Going # {} /\ ~wanted => guard = "flag" /\ revived
  BY DEF Loops!IInv, Loops!TypeOK, Loops!ByGeneration, Loops!ByTheFlag, Loops!Going, Loops!Alive
<1>3. ASSUME ~(guard = "flag" /\ doubled) PROVE ~(Cardinality(Loops!Going) > 1)
  <2>1. \A k, l \in Loops!Going : k = l
    BY <1>3 DEF Loops!IInv, Loops!TypeOK, Loops!ByGeneration, Loops!ByTheFlag, Loops!Going,
       Loops!Alive
  <2>2. Loops!Going = {} \/ \E l : Loops!Going = {l}
    BY <2>1
  <2>3. Cardinality(Loops!Going) \in {0, 1}
    BY <2>2, FS_EmptySet, FS_Singleton
  <2> QED BY <2>3
<1> QED BY <1>1, <1>2, <1>3, LoopsSets DEF Loops!LoopsFollowTheSwitch

-----------------------------------------------------------------------------
(* Pub/Sub (pubsub_queue_backend.ts).                                         *)

\* A fault is counted within its bound.
LEMMA PubSubFault ==
    ASSUME PubSub!PubSubAssumption, PubSub!TypeOK, PubSub!Fault \/ UNCHANGED pubSubFaults
    PROVE  pubSubFaults' \in 0..MaxPubSubFaults
BY DEF PubSub!PubSubAssumption, PubSub!TypeOK, PubSub!Fault

\* Nothing is published and no stream is open at first.
LEMMA PubSubStarts == ASSUME PubSub!PubSubAssumption PROVE PubSub!Init => PubSub!IInv
<1> SUFFICES ASSUME PubSub!Init PROVE PubSub!IInv
  OBVIOUS
<1>1. 0 \in 0..MaxPubSubFaults /\ 0 \in 0..MaxStreams /\ 0 \in 0..MaxAttempts
  BY DEF PubSub!PubSubAssumption
<1>2. PubSub!TypeOK
  BY <1>1 DEF PubSub!Init, PubSub!TypeOK, PubSub!Attempts
<1>3. PubSub!StreamsSeen /\ PubSub!NothingLeaks
  BY DEF PubSub!Init, PubSub!StreamsSeen, PubSub!NothingLeaks
<1> QED BY <1>2, <1>3 DEF PubSub!IInv

\* What leaves the streams alone.
LEMMA StreamsKept ==
    ASSUME PubSub!StreamsSeen, UNCHANGED <<quiet, stream, known,
           missed>>
    PROVE  PubSub!StreamsSeen'
BY DEF PubSub!StreamsSeen, PubSub!Streams

\* A step of the streams leaves the letters alone.
LEMMA StreamsMove == ASSUME PubSub!PubSubAssumption, PubSub!IInv,
                            \/ PubSub!Start \/ PubSub!Stop
                            \/ \E s \in PubSub!Streams, ok \in BOOLEAN : PubSub!Open(s, ok)
                     PROVE  PubSub!IInv'
<1>1. CASE PubSub!Start
  <2>1. PICK s \in PubSub!Streams : stream[s] = "off" /\ stream' = [stream EXCEPT ![s] = "ensuring"]
    BY <1>1 DEF PubSub!Start
  <2>2. /\ quiet /\ ~quiet' /\ quiet' \in BOOLEAN
        /\ UNCHANGED <<kind, letter, attempt, copies, known, buffer, running, settled, missed,
              unreadable, pubSubFaults>>
    BY <1>1 DEF PubSub!Start
  <2>3. stream' \in [PubSub!Streams -> {"off", "ensuring", "open", "closed", "failed"}]
    BY <2>1 DEF PubSub!IInv, PubSub!TypeOK
  <2>4. stream'[s] = "ensuring" /\ \A t \in PubSub!Streams : t # s => stream'[t] = stream[t]
    BY <2>1 DEF PubSub!IInv, PubSub!TypeOK
  <2>5. PubSub!TypeOK'
    BY <2>2, <2>3 DEF PubSub!IInv, PubSub!TypeOK, PubSub!Streams
  <2>6. PubSub!StreamsSeen'
    BY <2>2, <2>4 DEF PubSub!IInv, PubSub!StreamsSeen, PubSub!Streams
  <2>7. PubSub!NothingLeaks'
    BY <2>2, <2>4 DEF PubSub!IInv, PubSub!NothingLeaks, PubSub!Streams
  <2> QED BY <2>5, <2>6, <2>7 DEF PubSub!IInv
<1>2. CASE PubSub!Stop
  <2>1. /\ stream' \in [PubSub!Streams -> {"off", "ensuring", "open", "closed", "failed"}]
        /\ \A s \in PubSub!Streams : stream'[s] = IF s = known THEN "closed" ELSE stream[s]
        /\ missed' = missed \union {s \in PubSub!Streams : stream[s] = "ensuring"}
        /\ quiet' /\ quiet' \in BOOLEAN /\ known' = 0
        /\ UNCHANGED <<kind, letter, attempt, copies, buffer, running, settled, unreadable,
              pubSubFaults>>
    BY <1>2 DEF PubSub!Stop, PubSub!IInv, PubSub!TypeOK
  <2>2. PubSub!TypeOK'
    <3>1. known' \in 0..MaxStreams
      BY <2>1 DEF PubSub!PubSubAssumption
    <3>2. missed' \subseteq PubSub!Streams
      BY <2>1 DEF PubSub!IInv, PubSub!TypeOK
    <3> QED BY <2>1, <3>1, <3>2 DEF PubSub!IInv, PubSub!TypeOK, PubSub!Streams
  <2>3. missed' = {} => missed = {} /\ \A s \in PubSub!Streams : stream[s] # "ensuring"
    BY <2>1
  <2>4. missed' = {} => \A s \in PubSub!Streams : stream'[s] \notin {"ensuring", "open"}
    BY <2>1, <2>3 DEF PubSub!IInv, PubSub!StreamsSeen
  <2>5. PubSub!StreamsSeen'
    BY <2>4 DEF PubSub!StreamsSeen, PubSub!Streams
  <2>6. PubSub!NothingLeaks'
    BY <2>1, <2>4 DEF PubSub!IInv, PubSub!NothingLeaks, PubSub!Streams
  <2> QED BY <2>2, <2>5, <2>6 DEF PubSub!IInv
<1>3. ASSUME NEW s \in PubSub!Streams, NEW ok \in BOOLEAN, PubSub!Open(s, ok) PROVE PubSub!IInv'
  <2>1. /\ stream[s] = "ensuring"
        /\ stream' = [stream EXCEPT ![s] = IF ok THEN "open" ELSE "failed"]
        /\ known' = IF ok THEN s ELSE known
        /\ UNCHANGED <<kind, letter, attempt, copies, quiet, buffer, running, settled, missed,
              unreadable>>
    BY <1>3 DEF PubSub!Open
  <2>2. pubSubFaults' \in 0..MaxPubSubFaults
    BY <1>3, PubSubFault DEF PubSub!Open, PubSub!IInv
  <2>3. stream' \in [PubSub!Streams -> {"off", "ensuring", "open", "closed", "failed"}]
    BY <2>1 DEF PubSub!IInv, PubSub!TypeOK
  <2>4. /\ stream'[s] = IF ok THEN "open" ELSE "failed"
        /\ \A t \in PubSub!Streams : t # s => stream'[t] = stream[t]
    BY <2>1 DEF PubSub!IInv, PubSub!TypeOK
  <2>5. known' \in 0..MaxStreams
    BY <2>1 DEF PubSub!IInv, PubSub!TypeOK, PubSub!Streams, PubSub!PubSubAssumption
  <2>6. PubSub!TypeOK'
    BY <2>1, <2>2, <2>3, <2>5 DEF PubSub!IInv, PubSub!TypeOK, PubSub!Streams
  <2>7. PubSub!StreamsSeen'
    BY <2>1, <2>4 DEF PubSub!IInv, PubSub!StreamsSeen, PubSub!Streams
  <2>8. PubSub!NothingLeaks'
    <3>1. \A t \in PubSub!Streams : stream'[t] = "open" => t = known' \/ missed' # {}
      BY <2>1, <2>4, <2>7 DEF PubSub!StreamsSeen, PubSub!Streams
    <3> QED BY <2>1, <3>1 DEF PubSub!IInv, PubSub!NothingLeaks, PubSub!Streams
  <2> QED BY <2>6, <2>7, <2>8 DEF PubSub!IInv
<1> QED BY <1>1, <1>2, <1>3

\* The messages and their copies, whose streams no one touches.
LEMMA LettersMove ==
    ASSUME PubSub!PubSubAssumption, PubSub!IInv, UNCHANGED <<quiet, stream, known, missed, unreadable>>,
           kind' \in {"unset", "immediate", "batch"},
           attempt' \in [Calls -> 0..MaxAttempts],
           buffer' \in [PubSub!Streams -> PubSub!Attempts], running' \subseteq PubSub!Attempts,
           letter' \in [Calls -> {"none", "backlog", "leased", "acked"}],
           copies' \in [Calls -> Nat], settled \subseteq settled', settled' \subseteq Calls,
           \A m \in Calls : copies'[m] >= copies[m],
           \A m \in Calls : letter'[m] = "acked" =>
              letter[m] = "acked" \/ m \in settled' \ unreadable \/ copies'[m] > 0,
           pubSubFaults' \in 0..MaxPubSubFaults
    PROVE  PubSub!IInv'
<1>1. PubSub!TypeOK'
  BY DEF PubSub!IInv, PubSub!TypeOK, PubSub!Streams
<1>2. \A m \in Calls : letter'[m] = "acked" => m \in settled' \ unreadable \/ copies'[m] > 0
  BY DEF PubSub!IInv, PubSub!NothingLeaks, PubSub!TypeOK
<1>3. PubSub!NothingLeaks'
  BY <1>2 DEF PubSub!IInv, PubSub!NothingLeaks, PubSub!Streams
<1> QED BY <1>1, <1>3, StreamsKept DEF PubSub!IInv

\* So the invariant is inductive.
LEMMA PubSubSteps ==
    ASSUME PubSub!PubSubAssumption, PubSub!IInv, [PubSub!Next]_(PubSub!pubSubVars)
    PROVE  PubSub!IInv'
<1>0. PubSub!TypeOK /\ copies \in [Calls -> Nat] /\ \A m \in Calls : copies[m] >= copies[m]
  BY DEF PubSub!IInv, PubSub!TypeOK
<1>1. ASSUME NEW as \in {"immediate", "batch"}, PubSub!Declare(as) PROVE PubSub!IInv'
  BY <1>0, <1>1, LettersMove DEF PubSub!Declare, PubSub!TypeOK
<1>2. ASSUME NEW ms \in SUBSET Calls, PubSub!Publish(ms) PROVE PubSub!IInv'
  <2>1. pubSubFaults' \in 0..MaxPubSubFaults
    BY <1>0, <1>2, PubSubFault DEF PubSub!Publish
  <2>2. letter' \in [Calls -> {"none", "backlog", "leased", "acked"}] /\ \A m \in Calls :
           letter'[m] # "acked"
    BY <1>2 DEF PubSub!Publish
  <2> QED BY <1>0, <1>2, <2>1, <2>2, LettersMove DEF PubSub!Publish, PubSub!TypeOK
<1>3. ASSUME NEW s \in PubSub!Streams, PubSub!Flush(s) PROVE PubSub!IInv'
  <2>1. running' \subseteq PubSub!Attempts /\ buffer' \in [PubSub!Streams -> PubSub!Attempts]
    <3>1. buffer[s] \in PubSub!Attempts
      BY <1>0 DEF PubSub!TypeOK
    <3>2. PubSub!Runs(buffer[s]) \subseteq PubSub!Attempts
      BY <3>1 DEF PubSub!Runs, PubSub!Attempts
    <3> QED BY <1>0, <1>3, <3>2 DEF PubSub!Flush, PubSub!TypeOK, PubSub!Attempts
  <2> QED BY <1>0, <1>3, <2>1, LettersMove DEF PubSub!Flush, PubSub!TypeOK
<1>4. ASSUME NEW s \in PubSub!Streams, NEW m \in Calls, PubSub!Arrive(s, m) PROVE PubSub!IInv'
  <2>1. attempt' = [attempt EXCEPT ![m] = @ + 1] /\ attempt[m] + 1 \in 1..MaxAttempts
    BY <1>0, <1>4 DEF PubSub!Arrive, PubSub!TypeOK, PubSub!PubSubAssumption
  <2>2. /\ attempt' \in [Calls -> 0..MaxAttempts] /\ attempt'[m] \in 1..MaxAttempts
    BY <1>0, <2>1 DEF PubSub!TypeOK, PubSub!PubSubAssumption
  <2>3. {<<m, attempt'[m]>>} \in PubSub!Attempts
    BY <2>2 DEF PubSub!Attempts
  <2>4. running' \subseteq PubSub!Attempts
    BY <1>0, <1>4, <2>3 DEF PubSub!Arrive, PubSub!TypeOK
  <2>5. \A b \in PubSub!Attempts : b \union {<<m, attempt'[m]>>} \in PubSub!Attempts
    BY <2>3 DEF PubSub!Attempts
  <2>6. buffer' \in [PubSub!Streams -> PubSub!Attempts]
    BY <1>0, <1>4, <2>5 DEF PubSub!Arrive, PubSub!TypeOK
  <2>7. letter' \in [Calls -> {"none", "backlog", "leased", "acked"}] /\ \A k \in Calls :
           letter'[k] = "acked" => letter[k] = "acked"
    BY <1>0, <1>4 DEF PubSub!Arrive, PubSub!TypeOK
  <2> QED BY <1>0, <1>4, <2>2, <2>4, <2>6, <2>7, LettersMove DEF PubSub!Arrive, PubSub!TypeOK
<1>5. ASSUME NEW run \in running, NEW acked \in SUBSET PubSub!Names(run), PubSub!Finish(run, acked)
      PROVE  PubSub!IInv'
  <2>1. PubSub!Names(run) \subseteq Calls
    BY <1>0 DEF PubSub!Names, PubSub!TypeOK, PubSub!Attempts
  <2>2. /\ letter' \in [Calls -> {"none", "backlog", "leased", "acked"}]
        /\ settled' \subseteq Calls /\ settled \subseteq settled'
        /\ \A m \in Calls : letter'[m] = "acked" => letter[m] = "acked" \/ m \in settled' \ unreadable
    BY <1>0, <1>5, <2>1 DEF PubSub!Finish, PubSub!Ack, PubSub!Readable, PubSub!TypeOK
  <2>3. pubSubFaults' \in 0..MaxPubSubFaults
    BY <1>0, <1>5, PubSubFault DEF PubSub!Finish
  <2> QED BY <1>0, <1>5, <2>2, <2>3, LettersMove DEF PubSub!Finish, PubSub!TypeOK
<1>6. ASSUME NEW run \in running, NEW published \in SUBSET PubSub!Names(run),
             NEW acked \in SUBSET PubSub!Names(run),
             PubSub!Fail(run, published, acked) \/ PubSub!Discard(run, published, acked)
      PROVE  PubSub!IInv'
  <2>0. PICK last : /\ PubSub!File(last, published, acked) /\ running' = running \ {run}
                    /\ UNCHANGED <<kind, unreadable, attempt, quiet, stream, known, buffer, settled,
                          missed>>
    BY <1>6 DEF PubSub!Fail, PubSub!Discard
  <2>1. copies' = [m \in Calls |-> copies[m] + (IF m \in published THEN 1 ELSE 0)]
    BY <2>0 DEF PubSub!File
  <2>2. copies' \in [Calls -> Nat] /\ (\A m \in Calls : copies'[m] >= copies[m])
        /\ \A m \in Calls : m \in published => copies'[m] > 0
    BY <1>0, <2>1
  <2>3. /\ letter' \in [Calls -> {"none", "backlog", "leased", "acked"}]
        /\ \A m \in Calls : letter'[m] = "acked" => letter[m] = "acked" \/ m \in published
    BY <1>0, <2>0 DEF PubSub!File, PubSub!Ack, PubSub!TypeOK
  <2>4. pubSubFaults' \in 0..MaxPubSubFaults
    BY <1>0, <2>0, PubSubFault DEF PubSub!File
  <2> QED BY <1>0, <2>0, <2>2, <2>3, <2>4, LettersMove DEF PubSub!TypeOK
<1>7. ASSUME NEW m \in Calls, PubSub!Redeliver(m) PROVE PubSub!IInv'
  <2>1. pubSubFaults' \in 0..MaxPubSubFaults
    BY <1>0, <1>7, PubSubFault DEF PubSub!Redeliver
  <2>2. /\ letter' \in [Calls -> {"none", "backlog", "leased", "acked"}]
        /\ \A k \in Calls : letter'[k] = "acked" => letter[k] = "acked"
    BY <1>0, <1>7 DEF PubSub!Redeliver, PubSub!TypeOK
  <2> QED BY <1>0, <1>7, <2>1, <2>2, LettersMove DEF PubSub!Redeliver, PubSub!TypeOK
<1>8. ASSUME NEW m \in Calls, PubSub!Redriven(m) PROVE PubSub!IInv'
  <2>1. /\ letter' \in [Calls -> {"none", "backlog", "leased", "acked"}]
        /\ \A k \in Calls : letter'[k] = "acked" => letter[k] = "acked" \/ k = m
    BY <1>0, <1>8 DEF PubSub!Redriven, PubSub!TypeOK
  <2>2. copies' \in [Calls -> Nat] /\ (\A k \in Calls : copies'[k] >= copies[k]) /\ copies'[m] > 0
    BY <1>0, <1>8 DEF PubSub!Redriven, PubSub!TypeOK
  <2> QED BY <1>0, <1>8, <2>1, <2>2, LettersMove DEF PubSub!Redriven, PubSub!TypeOK
<1>9. CASE UNCHANGED PubSub!pubSubVars
  BY <1>0, <1>9, LettersMove DEF PubSub!pubSubVars, PubSub!TypeOK
<1> QED BY <1>1, <1>2, <1>3, <1>4, <1>5, <1>6, <1>7, <1>8, <1>9, StreamsMove DEF PubSub!Next

-----------------------------------------------------------------------------
(* SQS (sqs_queue_backend.ts).                                                *)

\* While no call of SQS has failed none was counted.
LEMMA SqsFault == ASSUME Sqs!SqsAssumption, Sqs!TypeOK, Sqs!Fault \/ Sqs!NoFault
    PROVE  /\ sqsFaults' \in 0..MaxSqsFaults
           /\ sqsFaults' = 0 => Sqs!NoFault /\ sqsFaults = 0
           /\ Sqs!Fault => sqsFaults' > 0
BY DEF Sqs!SqsAssumption, Sqs!TypeOK, Sqs!Fault, Sqs!NoFault

\* A delivery is known by its message and its attempt.
LEMMA SqsDeliveries ==
    ASSUME Sqs!SqsAssumption
    PROVE  /\ Sqs!Redrive \in Nat \ {0} /\ Sqs!Redrive = SqsRetries + 1
           /\ \A d \in Sqs!Deliveries : d.msg \in Calls /\ d.attempts \in 1..Sqs!Redrive
           /\ \A d, e \in Sqs!Deliveries : d.msg = e.msg /\ d.attempts = e.attempts => d = e
BY DEF Sqs!SqsAssumption, Sqs!Redrive, Sqs!Deliveries

\* Those of one message are finitely many.
LEMMA SqsDeliveriesCount ==
    ASSUME Sqs!SqsAssumption, NEW S \in SUBSET Sqs!Deliveries, NEW m
    PROVE  /\ Cardinality({d \in S : d.msg = m}) \in Nat
           /\ Cardinality({d \in S : d.msg = m}) = 0 <=> \A d \in S : d.msg # m
           /\ (\A d, e \in S : d.msg = m /\ e.msg = m => d = e) =>
                 Cardinality({d \in S : d.msg = m}) \in {0, 1}
<1> DEFINE T == {d \in S : d.msg = m}
           F == [a \in 1..Sqs!Redrive |-> [msg |-> m, attempts |-> a]]
           R == {F[a] : a \in 1..Sqs!Redrive}
<1>1. IsFiniteSet(1..Sqs!Redrive)
  BY FS_Interval, SqsDeliveries
<1>2. IsFiniteSet(R)
  <2>1. F \in Surjection(1..Sqs!Redrive, R)
    BY DEF Surjection
  <2> QED BY <1>1, <2>1, FS_Surjection
<1>3. T \subseteq R
  <2> SUFFICES ASSUME NEW d \in T PROVE d \in R
    OBVIOUS
  <2>1. d \in Sqs!Deliveries /\ d.msg = m /\ d.attempts \in 1..Sqs!Redrive
    BY SqsDeliveries
  <2>2. d = [msg |-> m, attempts |-> d.attempts]
    BY <2>1 DEF Sqs!Deliveries
  <2>3. F[d.attempts] = [msg |-> m, attempts |-> d.attempts]
    BY <2>1
  <2> HIDE DEF F
  <2> QED BY <2>1, <2>2, <2>3
<1> HIDE DEF R
<1>4. IsFiniteSet(T)
  BY <1>2, <1>3, FS_Subset
<1>5. Cardinality(T) \in Nat /\ (Cardinality(T) = 0 <=> T = {})
  BY <1>4, FS_CardinalityType, FS_EmptySet
<1>6. (\A d, e \in T : d = e) => Cardinality(T) \in {0, 1}
  <2> SUFFICES ASSUME \A d, e \in T : d = e PROVE Cardinality(T) \in {0, 1}
    OBVIOUS
  <2>1. T = {} \/ \E d : T = {d}
    BY Zenon
  <2> HIDE DEF T
  <2> QED BY <2>1, FS_EmptySet, FS_Singleton
<1> QED BY <1>5, <1>6

\* Nothing is sent at first.
LEMMA SqsStarts == ASSUME Sqs!SqsAssumption PROVE Sqs!Init => Sqs!IInv
<1> SUFFICES ASSUME Sqs!Init PROVE Sqs!IInv
  OBVIOUS
<1>0. 0 \in 0..Sqs!Redrive /\ 0 \in 0..MaxLapses /\ 0 \in 0..MaxSqsFaults
  BY SqsDeliveries DEF Sqs!SqsAssumption
<1>1. Sqs!TypeOK
  BY <1>0 DEF Sqs!Init, Sqs!TypeOK, Sqs!Rests
<1>2. \A l \in Sqs!Loops : Sqs!Holds(l) = {} /\ loop[l].waiting = {} /\ loop[l].running = {}
  BY DEF Sqs!Init, Sqs!Holds
<1>3. Sqs!HeldOnce /\ Sqs!RunsAreReadable /\ \A m \in Calls : ~Sqs!InHand(m)
  BY <1>2 DEF Sqs!HeldOnce, Sqs!InHand, Sqs!RunsAreReadable
<1>4. \A m \in Calls : /\ told[m] = "none" /\ place[m] = "none" /\ receipts[m] = 0
                       /\ dead[m] = 0 /\ failed[m] = 0 /\ m \notin served
  BY DEF Sqs!Init
<1> QED BY <1>1, <1>3, <1>4 DEF Sqs!IInv, Sqs!Unsent, Sqs!RunsCounted, Sqs!FiledOnce,
           Sqs!NothingLost, Sqs!DeadAfterItsRuns

\* What a loop holds is of its types.
LEMMA SqsHolds ==
    ASSUME Sqs!SqsAssumption, Sqs!IInv
    PROVE  /\ \A l \in Sqs!Loops : Sqs!Holds(l) \subseteq Sqs!Deliveries
           /\ \A l \in Sqs!Loops : \A d \in Sqs!Holds(l) :
                 d.msg \in Calls /\ d.attempts \in 1..Sqs!Redrive
           /\ \A k, l \in Sqs!Loops : \A d \in Sqs!Holds(k), e \in Sqs!Holds(l) :
                 d.msg = e.msg /\ d.msg \notin lapsed => k = l /\ d = e
           /\ \A m \in Calls \ lapsed : place[m] # "hidden" => ~Sqs!InHand(m)
           /\ \A l \in Sqs!Loops : \A d \in Sqs!Holds(l) : place[d.msg] # "none"
<1>1. \A l \in Sqs!Loops : Sqs!Holds(l) \subseteq Sqs!Deliveries
  BY DEF Sqs!IInv, Sqs!TypeOK, Sqs!Holds
<1>2. \A l \in Sqs!Loops : \A d \in Sqs!Holds(l) : d.msg \in Calls /\ d.attempts \in 1..Sqs!Redrive
  BY <1>1, SqsDeliveries
<1>3. ASSUME NEW k \in Sqs!Loops, NEW l \in Sqs!Loops, NEW d \in Sqs!Holds(k), NEW e \in Sqs!Holds(l),
             d.msg = e.msg, d.msg \notin lapsed
      PROVE  k = l /\ d = e
  <2>1. k = l /\ d.attempts = e.attempts
    BY <1>3 DEF Sqs!IInv, Sqs!HeldOnce
  <2> QED BY <1>1, <1>3, <2>1, SqsDeliveries
<1>4. \A m \in Calls \ lapsed : place[m] # "hidden" => ~Sqs!InHand(m)
  BY DEF Sqs!IInv, Sqs!HeldOnce, Sqs!InHand
<1>5. ASSUME NEW l \in Sqs!Loops, NEW d \in Sqs!Holds(l), place[d.msg] = "none" PROVE FALSE
  <2>1. d.attempts \in 1..Sqs!Redrive /\ d.attempts <= 0
    BY <1>2, <1>5 DEF Sqs!IInv, Sqs!HeldOnce, Sqs!Unsent
  <2> QED BY <2>1, SqsDeliveries
<1> QED BY <1>1, <1>2, <1>3, <1>4, <1>5

\* What a step that hands nothing over leaves.
LEMMA SqsKept ==
    ASSUME Sqs!SqsAssumption, Sqs!IInv,
           UNCHANGED <<told, place, receipts, dead, unreadable, failed, served, lapsed, lapses,
                 sqsFaults>>,
           mode' \in {"unset", "immediate", "batch"}, stopped' \in BOOLEAN,
           loop' \in [Sqs!Loops -> [pc : {"off", "top", "receive", "work", "ended"},
                                waiting : SUBSET Sqs!Deliveries, running : SUBSET Sqs!Deliveries]],
           \A l \in Sqs!Loops :
              /\ Sqs!Rests(loop'[l])
              /\ loop'[l].waiting \cap loop'[l].running = {}
              /\ loop'[l].waiting \cup loop'[l].running = loop[l].waiting \cup loop[l].running
              /\ \A d \in loop'[l].running : d.msg \notin unreadable
    PROVE  Sqs!IInv'
<1>1. Sqs!TypeOK'
  BY DEF Sqs!IInv, Sqs!TypeOK, Sqs!Loops, Sqs!Deliveries, Sqs!Redrive
<1>2. \A l \in Sqs!Loops : (Sqs!Holds(l))' = Sqs!Holds(l)
  BY DEF Sqs!Holds
<1>3. Sqs!HeldOnce'
  BY <1>2 DEF Sqs!IInv, Sqs!HeldOnce, Sqs!Loops
<1>4. \A m \in Calls : (Sqs!InHand(m))' <=> Sqs!InHand(m)
  BY <1>2 DEF Sqs!InHand, Sqs!Loops
<1>5. Sqs!RunsCounted' /\ Sqs!RunsAreReadable'
  BY <1>4 DEF Sqs!IInv, Sqs!RunsCounted, Sqs!RunsAreReadable, Sqs!Loops
<1> QED BY <1>1, <1>3, <1>5 DEF Sqs!IInv, Sqs!Unsent, Sqs!FiledOnce, Sqs!NothingLost,
           Sqs!DeadAfterItsRuns

\* A step that leaves the messages alone keeps the invariant if the loops hold the same.
LEMMA SqsGoesOn ==
    ASSUME Sqs!SqsAssumption, Sqs!IInv,
           \/ \E as \in {"immediate", "batch"} : Sqs!Declare(as)
           \/ Sqs!Start \/ Sqs!Stop \/ UNCHANGED Sqs!sqsVars
           \/ \E l \in Sqs!Loops : \/ Sqs!Leave(l) \/ Sqs!Poll(l) \/ Sqs!Gathered(l)
                                  \/ \E ds \in SUBSET loop[l].waiting : Sqs!Run(l, ds)
    PROVE  Sqs!IInv'
<1>0. /\ mode \in {"unset", "immediate", "batch"} /\ stopped \in BOOLEAN
      /\ loop \in [Sqs!Loops -> [pc : {"off", "top", "receive", "work", "ended"},
                                waiting : SUBSET Sqs!Deliveries, running : SUBSET Sqs!Deliveries]]
      /\ \A l \in Sqs!Loops : Sqs!Rests(loop[l])
      /\ \A l \in Sqs!Loops : loop[l].waiting \cap loop[l].running = {}
      /\ \A l \in Sqs!Loops : \A d \in loop[l].running : d.msg \notin unreadable
  BY DEF Sqs!IInv, Sqs!TypeOK, Sqs!HeldOnce, Sqs!RunsAreReadable
<1>1. ASSUME UNCHANGED loop, mode' \in {"unset", "immediate", "batch"}, stopped' \in BOOLEAN,
             UNCHANGED <<told, place, receipts, dead, unreadable, failed, served, lapsed, lapses,
                   sqsFaults>>
      PROVE  Sqs!IInv'
  BY <1>0, <1>1, SqsKept
<1>2. ASSUME NEW as \in {"immediate", "batch"}, Sqs!Declare(as) PROVE Sqs!IInv'
  BY <1>0, <1>1, <1>2 DEF Sqs!Declare
<1>3. CASE Sqs!Stop \/ UNCHANGED Sqs!sqsVars
  BY <1>0, <1>1, <1>3 DEF Sqs!Stop, Sqs!sqsVars
<1>4. ASSUME NEW l \in Sqs!Loops, NEW to \in {"top", "receive", "work", "ended"},
             loop' = [loop EXCEPT ![l].pc = to],
             loop[l].pc # "work", to \in {"receive", "work"} \/ loop[l].waiting = {},
             UNCHANGED mode, stopped' \in BOOLEAN,
             UNCHANGED <<told, place, receipts, dead, unreadable, failed, served, lapsed, lapses,
                   sqsFaults>>
      PROVE  Sqs!IInv'
  <2>1. loop' \in [Sqs!Loops -> [pc : {"off", "top", "receive", "work", "ended"},
                                waiting : SUBSET Sqs!Deliveries, running : SUBSET Sqs!Deliveries]]
    BY <1>0, <1>4
  <2>2. /\ loop'[l] = [loop[l] EXCEPT !.pc = to] /\ \A k \in Sqs!Loops : k # l => loop'[k] = loop[k]
    BY <1>0, <1>4
  <2>3. loop'[l].waiting = loop[l].waiting /\ loop'[l].running = loop[l].running
    BY <1>0, <2>2
  <2>4. \A k \in Sqs!Loops :
              /\ Sqs!Rests(loop'[k])
              /\ loop'[k].waiting \cap loop'[k].running = {}
              /\ loop'[k].waiting \cup loop'[k].running = loop[k].waiting \cup loop[k].running
              /\ \A d \in loop'[k].running : d.msg \notin unreadable
    BY <1>0, <1>4, <2>2, <2>3 DEF Sqs!Rests
  <2> QED BY <1>0, <1>4, <2>1, <2>4, SqsKept
<1>5. CASE Sqs!Start
  <2>1. PICK l \in Sqs!Loops : loop[l].pc = "off" /\ loop' = [loop EXCEPT ![l].pc = "top"]
    BY <1>5 DEF Sqs!Start
  <2> QED BY <1>0, <1>4, <1>5, <2>1 DEF Sqs!Start, Sqs!Rests
<1>6. ASSUME NEW l \in Sqs!Loops, Sqs!Leave(l) \/ Sqs!Poll(l) \/ Sqs!Gathered(l) PROVE Sqs!IInv'
  <2>1. CASE Sqs!Leave(l)
    BY <1>0, <1>4, <2>1 DEF Sqs!Leave, Sqs!Rests
  <2>2. CASE Sqs!Poll(l)
    BY <1>0, <1>4, <2>2 DEF Sqs!Poll, Sqs!Rests
  <2>3. CASE Sqs!Gathered(l)
    BY <1>0, <1>4, <2>3 DEF Sqs!Gathered
  <2> QED BY <1>6, <2>1, <2>2, <2>3
<1>7. ASSUME NEW l \in Sqs!Loops, NEW ds \in SUBSET loop[l].waiting, Sqs!Run(l, ds)
      PROVE  Sqs!IInv'
  <2>1. /\ loop' = [loop EXCEPT ![l].waiting = @ \ ds, ![l].running = @ \union ds]
        /\ loop[l].pc = "work" /\ UNCHANGED <<mode, stopped>>
        /\ \A d \in ds : d.msg \notin unreadable
        /\ UNCHANGED <<told, place, receipts, dead, unreadable, failed, served, lapsed, lapses,
              sqsFaults>>
    BY <1>7 DEF Sqs!Run
  <2>2. /\ loop'[l].pc = "work" /\ loop'[l].waiting = loop[l].waiting \ ds
        /\ loop'[l].running = loop[l].running \union ds
        /\ \A k \in Sqs!Loops : k # l => loop'[k] = loop[k]
    BY <1>0, <2>1
  <2>3. loop' \in [Sqs!Loops -> [pc : {"off", "top", "receive", "work", "ended"},
                                waiting : SUBSET Sqs!Deliveries, running : SUBSET Sqs!Deliveries]]
    <3>1. /\ loop[l].waiting \ ds \in SUBSET Sqs!Deliveries
          /\ loop[l].running \union ds \in SUBSET Sqs!Deliveries
      BY <1>0
    <3> DEFINE x == [loop[l] EXCEPT !.waiting = @ \ ds, !.running = @ \union ds]
    <3>2. x \in [pc : {"off", "top", "receive", "work", "ended"},
                 waiting : SUBSET Sqs!Deliveries, running : SUBSET Sqs!Deliveries]
      BY <1>0, <3>1
    <3>3. loop' = [loop EXCEPT ![l] = x]
      BY <2>1
    <3> HIDE DEF x
    <3> QED BY <1>0, <3>2, <3>3
  <2>4. \A k \in Sqs!Loops :
              /\ Sqs!Rests(loop'[k])
              /\ loop'[k].waiting \cap loop'[k].running = {}
              /\ loop'[k].waiting \cup loop'[k].running = loop[k].waiting \cup loop[k].running
              /\ \A d \in loop'[k].running : d.msg \notin unreadable
    BY <1>0, <2>1, <2>2 DEF Sqs!Rests
  <2> QED BY <1>0, <2>1, <2>3, <2>4, SqsKept
<1> QED BY <1>2, <1>3, <1>5, <1>6, <1>7

\* A message that is sent is visible, and held by nobody.
LEMMA SqsPush ==
    ASSUME Sqs!SqsAssumption, Sqs!IInv, NEW stored \in SUBSET Calls, Sqs!PushMany(stored)
    PROVE  Sqs!IInv'
<1>1. /\ \A m \in Calls : told[m] = "none"
      /\ place' = [m \in Calls |-> IF m \in stored THEN "visible" ELSE "none"]
      /\ told' = [m \in Calls |-> IF stored = Calls THEN "accepted" ELSE "thrown"]
      /\ UNCHANGED <<mode, receipts, dead, stopped, loop, unreadable, failed, served, lapsed,
            lapses>>
  BY DEF Sqs!PushMany
<1>2. \A m \in Calls : place[m] = "none" /\ receipts[m] = 0 /\ dead[m] = 0
  BY <1>1 DEF Sqs!IInv, Sqs!Unsent
<1>3. sqsFaults' \in 0..MaxSqsFaults
  BY SqsFault DEF Sqs!PushMany, Sqs!IInv
<1>4. Sqs!TypeOK'
  BY <1>1, <1>3 DEF Sqs!IInv, Sqs!TypeOK, Sqs!Loops, Sqs!Deliveries, Sqs!Redrive
<1>5. \A l \in Sqs!Loops : (Sqs!Holds(l))' = Sqs!Holds(l) /\ Sqs!Holds(l) = {}
  <2>1. \A l \in Sqs!Loops : \A d \in Sqs!Holds(l) : d.msg \in Calls /\ d.attempts \in 1..Sqs!Redrive
           /\ d.attempts <= 0
    BY <1>2, SqsHolds DEF Sqs!IInv, Sqs!HeldOnce
  <2>2. \A l \in Sqs!Loops : \A d \in Sqs!Holds(l) : FALSE
    BY <2>1, SqsDeliveries
  <2> QED BY <1>1, <2>2 DEF Sqs!Holds
<1>6. Sqs!HeldOnce'
  BY <1>1, <1>5 DEF Sqs!IInv, Sqs!HeldOnce, Sqs!Loops
<1>7. \A m \in Calls : (Sqs!InHand(m))' <=> Sqs!InHand(m)
  BY <1>5 DEF Sqs!InHand, Sqs!Loops
<1>8. Sqs!Unsent'
  BY <1>1, <1>2 DEF Sqs!Unsent
<1>9. Sqs!RunsCounted' /\ Sqs!RunsAreReadable'
  BY <1>1, <1>7 DEF Sqs!IInv, Sqs!RunsCounted, Sqs!RunsAreReadable, Sqs!Loops
<1>10. Sqs!FiledOnce' /\ Sqs!NothingLost' /\ Sqs!DeadAfterItsRuns'
  BY <1>1, <1>2 DEF Sqs!IInv, Sqs!FiledOnce, Sqs!NothingLost, Sqs!DeadAfterItsRuns
<1> QED BY <1>4, <1>6, <1>8, <1>9, <1>10 DEF Sqs!IInv

\* What SQS hands out is hidden, and has one receipt more.
LEMMA SqsHandOut ==
    ASSUME Sqs!SqsAssumption, Sqs!TypeOK, NEW ms \in SUBSET Calls, Sqs!HandOut(ms)
    PROVE  /\ \A m \in ms : place[m] = "visible" /\ receipts[m] < Sqs!Redrive
           /\ \A m \in Calls : m \in ms => receipts'[m] = receipts[m] + 1 /\ place'[m] = "hidden"
           /\ \A m \in Calls : m \notin ms => receipts'[m] = receipts[m] /\ place'[m] = place[m]
           /\ \A m \in Calls : receipts[m] <= receipts'[m]
           /\ receipts' \in [Calls -> 0..Sqs!Redrive]
           /\ place' \in [Calls -> {"none", "visible", "hidden", "deleted"}]
<1>0. /\ receipts \in [Calls -> 0..Sqs!Redrive] /\ Sqs!Redrive \in Nat
      /\ place \in [Calls -> {"none", "visible", "hidden", "deleted"}]
  BY SqsDeliveries DEF Sqs!TypeOK
<1>1. /\ \A m \in ms : place[m] = "visible" /\ receipts[m] < Sqs!Redrive
      /\ receipts' = [m \in Calls |-> receipts[m] + (IF m \in ms THEN 1 ELSE 0)]
      /\ place' = [m \in Calls |-> IF m \in ms THEN "hidden" ELSE place[m]]
  BY DEF Sqs!HandOut
<1> QED BY <1>0, <1>1

\* A message that is received is visible, so nobody else holds it unless it has lapsed.
LEMMA SqsReceive ==
    ASSUME Sqs!SqsAssumption, Sqs!IInv, NEW l \in Sqs!Loops, NEW ms \in SUBSET Calls,
           Sqs!Receive(l, ms)
    PROVE  Sqs!IInv'
<1> DEFINE handed == {[msg |-> m, attempts |-> receipts'[m]] : m \in ms}
           pc == IF mode = "batch" THEN "receive" ELSE "work"
<1>0. /\ receipts \in [Calls -> 0..Sqs!Redrive]
            /\ place \in [Calls -> {"none", "visible", "hidden", "deleted"}]
      /\ loop \in [Sqs!Loops -> [pc : {"off", "top", "receive", "work", "ended"},
                                waiting : SUBSET Sqs!Deliveries, running : SUBSET Sqs!Deliveries]]
      /\ loop[l].running = {} /\ \A k \in Sqs!Loops : Sqs!Rests(loop[k])
      /\ Sqs!Redrive \in Nat /\ Sqs!TypeOK
  BY SqsDeliveries DEF Sqs!Receive, Sqs!IInv, Sqs!TypeOK, Sqs!Rests
<1>1. /\ loop' = [loop EXCEPT ![l].pc = pc, ![l].waiting = @ \union handed]
      /\ UNCHANGED <<mode, unreadable, told, dead, stopped, failed, served, lapsed, lapses,
            sqsFaults>>
  BY DEF Sqs!Receive
<1>2. /\ \A m \in ms : place[m] = "visible" /\ receipts[m] < Sqs!Redrive
      /\ \A m \in Calls : m \in ms => receipts'[m] = receipts[m] + 1 /\ place'[m] = "hidden"
      /\ \A m \in Calls : m \notin ms => receipts'[m] = receipts[m] /\ place'[m] = place[m]
      /\ \A m \in Calls : receipts[m] <= receipts'[m]
      /\ receipts' \in [Calls -> 0..Sqs!Redrive]
      /\ place' \in [Calls -> {"none", "visible", "hidden", "deleted"}]
  BY <1>0, SqsHandOut DEF Sqs!Receive
<1>3. handed \in SUBSET Sqs!Deliveries
  BY <1>0, <1>1, <1>2 DEF Sqs!Deliveries
<1>4. \A d \in handed : d.msg \in ms /\ d.attempts = receipts'[d.msg]
  OBVIOUS
<1>5. \A m \in ms : \E d \in handed : d.msg = m
  <2> SUFFICES ASSUME NEW m \in ms PROVE \E d \in handed : d.msg = m
    OBVIOUS
  <2>1. [msg |-> m, attempts |-> receipts'[m]] \in handed
    OBVIOUS
  <2> HIDE DEF handed
  <2> QED BY <2>1
<1> HIDE DEF handed
<1>6. /\ loop'[l].pc = pc /\ loop'[l].waiting = loop[l].waiting \union handed
      /\ loop'[l].running = {}
      /\ \A k \in Sqs!Loops : k # l => loop'[k] = loop[k]
      /\ loop' \in [Sqs!Loops -> [pc : {"off", "top", "receive", "work", "ended"},
                                waiting : SUBSET Sqs!Deliveries, running : SUBSET Sqs!Deliveries]]
      /\ \A k \in Sqs!Loops : Sqs!Rests(loop'[k])
  <2> DEFINE x == [loop[l] EXCEPT !.pc = pc, !.waiting = @ \union handed]
  <2>1. loop[l].waiting \union handed \in SUBSET Sqs!Deliveries
    BY <1>0, <1>3
  <2>2. /\ x \in [pc : {"off", "top", "receive", "work", "ended"},
                   waiting : SUBSET Sqs!Deliveries, running : SUBSET Sqs!Deliveries]
        /\ x.pc = pc /\ x.waiting = loop[l].waiting \union handed /\ x.running = {}
    BY <1>0, <2>1
  <2>3. loop' = [loop EXCEPT ![l] = x]
    BY <1>1
  <2> HIDE DEF x
  <2>4. pc \in {"receive", "work"}
    OBVIOUS
  <2> HIDE DEF pc
  <2> QED BY <1>0, <2>2, <2>3, <2>4 DEF Sqs!Rests
<1> HIDE DEF pc
<1>7. Sqs!TypeOK'
  BY <1>1, <1>2, <1>6 DEF Sqs!IInv, Sqs!TypeOK, Sqs!Loops, Sqs!Deliveries, Sqs!Redrive
<1>8. (Sqs!Holds(l))' = Sqs!Holds(l) \union handed /\ \A k \in Sqs!Loops : k # l => (Sqs!Holds(k))' = Sqs!Holds(k)
  BY <1>0, <1>6 DEF Sqs!Holds
<1>9. \A k \in Sqs!Loops : \A d \in Sqs!Holds(k) : d.msg \in Calls /\ d.attempts \in 1..Sqs!Redrive
                                       /\ d.attempts <= receipts[d.msg]
                                       /\ (d.msg \notin lapsed => d.attempts = receipts[d.msg]
                                             /\ d.msg \notin ms /\ place[d.msg] = "hidden")
  BY <1>2, SqsHolds DEF Sqs!IInv, Sqs!HeldOnce
<1>10. Sqs!HeldOnce'
  <2>1. \A k \in Sqs!Loops : loop'[k].waiting \cap loop'[k].running = {}
    BY <1>0, <1>6 DEF Sqs!IInv, Sqs!HeldOnce
  <2>2. \A k \in Sqs!Loops : \A d \in (Sqs!Holds(k))' :
          /\ d.attempts <= receipts'[d.msg]
          /\ d.msg \notin lapsed => d.attempts = receipts'[d.msg] /\ place'[d.msg] = "hidden"
    <3> SUFFICES ASSUME NEW k \in Sqs!Loops, NEW d \in (Sqs!Holds(k))'
        PROVE /\ d.attempts <= receipts'[d.msg]
              /\ d.msg \notin lapsed => d.attempts = receipts'[d.msg] /\ place'[d.msg] = "hidden"
      OBVIOUS
    <3>1. CASE d \in handed
      <4>1. d.msg \in ms /\ d.attempts = receipts'[d.msg] /\ d.msg \in Calls
        BY <1>4, <3>1
      <4> QED BY <1>0, <1>2, <4>1
    <3>2. CASE d \notin handed
      <4>1. d \in Sqs!Holds(k)
        BY <1>8, <3>2
      <4>2. d.msg \in Calls /\ d.attempts \in 1..Sqs!Redrive /\ d.attempts <= receipts[d.msg]
        BY <1>9, <4>1
      <4>3. receipts[d.msg] \in Nat /\ receipts'[d.msg] \in Nat /\ receipts[d.msg] <= receipts'[d.msg]
        BY <1>0, <1>2, <4>2
      <4>4. d.attempts <= receipts'[d.msg]
        BY <4>2, <4>3
      <4> QED BY <1>2, <1>9, <4>1, <4>2, <4>4
    <3> QED BY <3>1, <3>2
  <2>3. \A i, k \in Sqs!Loops : \A d \in (Sqs!Holds(i))', e \in (Sqs!Holds(k))' :
          d.msg = e.msg /\ d.msg \notin lapsed => i = k
    <3>1. \A k \in Sqs!Loops : \A d \in (Sqs!Holds(k))' : d.msg \notin lapsed =>
             IF d.msg \in ms THEN k = l ELSE d \in Sqs!Holds(k)
      BY <1>4, <1>8, <1>9
    <3>2. \A i, k \in Sqs!Loops : \A d \in Sqs!Holds(i), e \in Sqs!Holds(k) :
             d.msg = e.msg /\ d.msg \notin lapsed => i = k
      BY DEF Sqs!IInv, Sqs!HeldOnce
    <3> QED BY <1>8, <3>1, <3>2
  <2> QED BY <1>1, <2>1, <2>2, <2>3 DEF Sqs!HeldOnce, Sqs!Loops
<1>11. Sqs!Unsent'
  BY <1>1, <1>2 DEF Sqs!IInv, Sqs!Unsent
<1>12. Sqs!RunsCounted'
  <2> SUFFICES ASSUME NEW m \in Calls \ (lapsed \cup served \cup unreadable)
      PROVE receipts'[m] = failed[m] + IF (Sqs!InHand(m))' THEN 1 ELSE 0
    BY <1>1 DEF Sqs!RunsCounted
  <2>1. receipts[m] = failed[m] + IF Sqs!InHand(m) THEN 1 ELSE 0
    BY DEF Sqs!IInv, Sqs!RunsCounted
  <2>2. failed[m] \in Nat
    BY DEF Sqs!IInv, Sqs!TypeOK
  <2>3. CASE m \in ms
    <3>1. (Sqs!InHand(m))' /\ ~Sqs!InHand(m)
      BY <1>2, <1>5, <1>8, <2>3, SqsHolds DEF Sqs!InHand, Sqs!Loops
    <3> QED BY <1>2, <2>1, <2>2, <2>3, <3>1
  <2>4. CASE m \notin ms
    <3>1. (Sqs!InHand(m))' <=> Sqs!InHand(m)
      BY <1>4, <1>8, <2>4 DEF Sqs!InHand, Sqs!Loops
    <3> QED BY <1>2, <2>1, <2>4, <3>1
  <2> QED BY <2>3, <2>4
<1>13. Sqs!FiledOnce' /\ Sqs!NothingLost' /\ Sqs!DeadAfterItsRuns'
  BY <1>1, <1>2 DEF Sqs!IInv, Sqs!FiledOnce, Sqs!NothingLost, Sqs!DeadAfterItsRuns
<1>14. Sqs!RunsAreReadable'
  BY <1>0, <1>1, <1>6 DEF Sqs!IInv, Sqs!RunsAreReadable, Sqs!Loops
<1> QED BY <1>7, <1>10, <1>11, <1>12, <1>13, <1>14 DEF Sqs!IInv

\* A receive that throws: what the loop gathered, and what SQS handed out with it, is lapsed.
LEMMA SqsReceiveFails ==
    ASSUME Sqs!SqsAssumption, Sqs!IInv, NEW l \in Sqs!Loops, NEW ms \in SUBSET Calls,
           Sqs!ReceiveFails(l, ms)
    PROVE  Sqs!IInv'
<1> DEFINE names == {d.msg : d \in loop[l].waiting}
           x == [loop[l] EXCEPT !.pc = "top", !.waiting = {}]
<1>0. /\ loop \in [Sqs!Loops -> [pc : {"off", "top", "receive", "work", "ended"},
                                waiting : SUBSET Sqs!Deliveries, running : SUBSET Sqs!Deliveries]]
      /\ loop[l].running = {} /\ \A k \in Sqs!Loops : Sqs!Rests(loop[k])
      /\ Sqs!TypeOK
  BY DEF Sqs!ReceiveFails, Sqs!IInv, Sqs!TypeOK, Sqs!Rests
<1>1. /\ loop' = [loop EXCEPT ![l] = x]
      /\ lapsed' = lapsed \union ms \union names
      /\ UNCHANGED <<mode, unreadable, told, dead, stopped, failed, served, lapses>>
  BY DEF Sqs!ReceiveFails
<1>2. /\ \A m \in ms : place[m] = "visible" /\ receipts[m] < Sqs!Redrive
      /\ \A m \in Calls : m \in ms => receipts'[m] = receipts[m] + 1 /\ place'[m] = "hidden"
      /\ \A m \in Calls : m \notin ms => receipts'[m] = receipts[m] /\ place'[m] = place[m]
      /\ \A m \in Calls : receipts[m] <= receipts'[m]
      /\ receipts' \in [Calls -> 0..Sqs!Redrive]
      /\ place' \in [Calls -> {"none", "visible", "hidden", "deleted"}]
  BY <1>0, SqsHandOut DEF Sqs!ReceiveFails
<1>3. sqsFaults' \in 0..MaxSqsFaults /\ sqsFaults' > 0
  BY <1>0 DEF Sqs!ReceiveFails, Sqs!Fault, Sqs!TypeOK, Sqs!SqsAssumption
<1>4. /\ x \in [pc : {"off", "top", "receive", "work", "ended"},
                waiting : SUBSET Sqs!Deliveries, running : SUBSET Sqs!Deliveries]
      /\ x.pc = "top" /\ x.waiting = {} /\ x.running = {}
  BY <1>0
<1> HIDE DEF x
<1>5. /\ loop'[l] = x /\ \A k \in Sqs!Loops : k # l => loop'[k] = loop[k]
      /\ loop' \in [Sqs!Loops -> [pc : {"off", "top", "receive", "work", "ended"},
                                waiting : SUBSET Sqs!Deliveries, running : SUBSET Sqs!Deliveries]]
      /\ \A k \in Sqs!Loops : Sqs!Rests(loop'[k])
  BY <1>0, <1>1, <1>4 DEF Sqs!Rests
<1>6. \A m : m \in names <=> \E d \in Sqs!Holds(l) : d.msg = m
  BY <1>0 DEF Sqs!Holds
<1> HIDE DEF names
<1>7. names \subseteq Calls
  BY <1>6, SqsHolds
<1>8. Sqs!TypeOK'
  BY <1>0, <1>1, <1>2, <1>3, <1>5, <1>7 DEF Sqs!TypeOK, Sqs!Loops, Sqs!Deliveries, Sqs!Redrive
<1>9. (Sqs!Holds(l))' = {} /\ \A k \in Sqs!Loops : k # l => (Sqs!Holds(k))' = Sqs!Holds(k)
  BY <1>4, <1>5 DEF Sqs!Holds
<1>10. Sqs!HeldOnce'
  <2>1. ASSUME NEW k \in Sqs!Loops, NEW d \in (Sqs!Holds(k))'
        PROVE /\ d.attempts <= receipts'[d.msg]
              /\ d.msg \notin lapsed' => d.attempts = receipts'[d.msg] /\ place'[d.msg] = "hidden"
    <3>1. d \in Sqs!Holds(k) /\ d.msg \in Calls /\ d.attempts \in Nat
      BY <1>9, <2>1, SqsHolds, SqsDeliveries
    <3>2. /\ d.attempts <= receipts[d.msg]
          /\ d.msg \notin lapsed => d.attempts = receipts[d.msg] /\ place[d.msg] = "hidden"
      BY <3>1 DEF Sqs!IInv, Sqs!HeldOnce
    <3>3. receipts[d.msg] \in Nat /\ receipts'[d.msg] \in Nat /\ receipts[d.msg] <= receipts'[d.msg]
      BY <1>0, <1>2, <3>1, SqsDeliveries DEF Sqs!TypeOK
    <3>4. d.attempts <= receipts'[d.msg]
      BY <3>1, <3>2, <3>3
    <3> QED BY <1>1, <1>2, <3>1, <3>2, <3>4
  <2>2. \A i, k \in Sqs!Loops : \A d \in (Sqs!Holds(i))', e \in (Sqs!Holds(k))' :
          d.msg = e.msg /\ d.msg \notin lapsed' => i = k
    BY <1>1, <1>9, SqsHolds
  <2>3. \A k \in Sqs!Loops : loop'[k].waiting \cap loop'[k].running = {}
    BY <1>4, <1>5 DEF Sqs!IInv, Sqs!HeldOnce
  <2> QED BY <2>1, <2>2, <2>3 DEF Sqs!HeldOnce, Sqs!Loops
<1>11. \A m \in Calls \ lapsed' : ((Sqs!InHand(m))' <=> Sqs!InHand(m)) /\ m \notin ms
  BY <1>1, <1>6, <1>9 DEF Sqs!InHand, Sqs!Loops
<1>12. Sqs!Unsent'
  BY <1>1, <1>2 DEF Sqs!IInv, Sqs!Unsent
<1>13. Sqs!RunsCounted'
  BY <1>1, <1>2, <1>11 DEF Sqs!IInv, Sqs!RunsCounted
<1>14. Sqs!RunsAreReadable'
  BY <1>1, <1>4, <1>5 DEF Sqs!IInv, Sqs!RunsAreReadable, Sqs!Loops
<1>15. Sqs!FiledOnce' /\ Sqs!NothingLost' /\ Sqs!DeadAfterItsRuns'
  BY <1>1, <1>2, <1>3 DEF Sqs!IInv, Sqs!FiledOnce, Sqs!NothingLost, Sqs!DeadAfterItsRuns
<1> QED BY <1>8, <1>10, <1>12, <1>13, <1>14, <1>15 DEF Sqs!IInv

\* Once a loop lets go of deliveries, no loop holds their messages, unless one lapsed.
LEMMA SqsLetsGo ==
    ASSUME Sqs!SqsAssumption, Sqs!IInv, NEW l \in Sqs!Loops, NEW ds \in SUBSET Sqs!Holds(l),
           (Sqs!Holds(l))' = Sqs!Holds(l) \ ds,
           \A k \in Sqs!Loops : k # l => (Sqs!Holds(k))' = Sqs!Holds(k),
           \A k \in Sqs!Loops : loop'[k].waiting \cap loop'[k].running = {},
           UNCHANGED <<receipts, lapsed>>,
           \A m \in Calls : place'[m] = place[m] \/ \E d \in ds : d.msg = m
    PROVE  /\ Sqs!HeldOnce'
           /\ ds \in SUBSET Sqs!Deliveries
           /\ \A m \in Calls \ lapsed : (Sqs!InHand(m))' <=> Sqs!InHand(m) /\ \A d \in ds : d.msg # m
           /\ \A m \in Calls \ lapsed : \A d \in ds : d.msg = m =>
                 Sqs!InHand(m) /\ place[m] = "hidden" /\ d.attempts = receipts[m]
           /\ \A d, e \in ds : d.msg = e.msg /\ d.msg \notin lapsed => d = e
           /\ \A d \in ds : place[d.msg] # "none"
<1>5. \A k \in Sqs!Loops : loop'[k].waiting \cap loop'[k].running = {}
  OBVIOUS
<1>6. (Sqs!Holds(l))' = Sqs!Holds(l) \ ds /\ ds \subseteq Sqs!Holds(l)
      /\ \A k \in Sqs!Loops : k # l => (Sqs!Holds(k))' = Sqs!Holds(k)
  OBVIOUS
<1>7. /\ ds \in SUBSET Sqs!Deliveries
      /\ \A d \in ds : d.msg \in Calls
      /\ \A d \in ds : \A k \in Sqs!Loops : \A e \in Sqs!Holds(k) :
            d.msg = e.msg /\ d.msg \notin lapsed => k = l /\ d = e
      /\ \A d, e \in ds : d.msg = e.msg /\ d.msg \notin lapsed => d = e
      /\ \A d \in ds : place[d.msg] # "none"
  BY <1>6, SqsHolds
<1>8. \A k \in Sqs!Loops : (Sqs!Holds(k))' \subseteq Sqs!Holds(k)
  BY <1>6
<1>9. \A m \in Calls \ lapsed : \A d \in ds : d.msg = m =>
         Sqs!InHand(m) /\ place[m] = "hidden" /\ d.attempts = receipts[m]
  BY <1>6 DEF Sqs!IInv, Sqs!HeldOnce, Sqs!InHand
<1>10. \A k \in Sqs!Loops : \A e \in (Sqs!Holds(k))' : \A d \in ds : d.msg = e.msg => d.msg \in lapsed
  BY <1>6, <1>7, <1>8
<1>11. Sqs!HeldOnce'
  <2>1. \A k \in Sqs!Loops : \A d \in (Sqs!Holds(k))' :
          /\ d.attempts <= receipts[d.msg]
          /\ d.msg \notin lapsed => d.attempts = receipts[d.msg] /\ place'[d.msg] = "hidden"
    <3> SUFFICES ASSUME NEW k \in Sqs!Loops, NEW d \in (Sqs!Holds(k))'
          PROVE /\ d.attempts <= receipts[d.msg]
                /\ d.msg \notin lapsed => d.attempts = receipts[d.msg] /\ place'[d.msg] = "hidden"
      OBVIOUS
    <3>1. d \in Sqs!Holds(k) /\ d.msg \in Calls
      BY <1>8, SqsHolds
    <3>2. /\ d.attempts <= receipts[d.msg]
          /\ d.msg \notin lapsed => d.attempts = receipts[d.msg] /\ place[d.msg] = "hidden"
      BY <3>1 DEF Sqs!IInv, Sqs!HeldOnce
    <3>3. d.msg \notin lapsed => place'[d.msg] = place[d.msg]
      BY <1>10, <3>1
    <3> QED BY <3>2, <3>3
  <2>2. \A i, k \in Sqs!Loops : \A d \in (Sqs!Holds(i))', e \in (Sqs!Holds(k))' :
          d.msg = e.msg /\ d.msg \notin lapsed => i = k
    BY <1>8, SqsHolds
  <2> QED BY <1>5, <2>1, <2>2 DEF Sqs!HeldOnce, Sqs!Loops
<1>12. ASSUME NEW m \in Calls \ lapsed
       PROVE  (Sqs!InHand(m))' <=> Sqs!InHand(m) /\ \A d \in ds : d.msg # m
  <2>1. (Sqs!InHand(m))' <=> \E k \in Sqs!Loops : \E e \in (Sqs!Holds(k))' : e.msg = m
    BY DEF Sqs!InHand, Sqs!Loops
  <2>2. (Sqs!InHand(m))' => Sqs!InHand(m) /\ \A d \in ds : d.msg # m
    BY <1>8, <1>10, <2>1 DEF Sqs!InHand
  <2>3. Sqs!InHand(m) /\ (\A d \in ds : d.msg # m) => (Sqs!InHand(m))'
    BY <1>6, <2>1 DEF Sqs!InHand
  <2> QED BY <2>2, <2>3
<1> QED BY <1>7, <1>9, <1>11, <1>12

\* So it is once a handler is done with deliveries.
LEMMA SqsReleases ==
    ASSUME Sqs!SqsAssumption, Sqs!IInv, NEW l \in Sqs!Loops, NEW ds \in SUBSET loop[l].running,
           ds # {},
           Sqs!Settled(l, ds), UNCHANGED <<receipts, lapsed, unreadable>>,
           \A m \in Calls : place'[m] = place[m] \/ \E d \in ds : d.msg = m
    PROVE  /\ loop' \in [Sqs!Loops -> [pc : {"off", "top", "receive", "work", "ended"},
                                  waiting : SUBSET Sqs!Deliveries, running : SUBSET Sqs!Deliveries]]
           /\ \A k \in Sqs!Loops : Sqs!Rests(loop'[k])
           /\ Sqs!HeldOnce'
           /\ ds \in SUBSET Sqs!Deliveries
           /\ \A m \in Calls \ lapsed : (Sqs!InHand(m))' <=> Sqs!InHand(m) /\ \A d \in ds : d.msg # m
           /\ \A m \in Calls \ lapsed : \A d \in ds : d.msg = m =>
                 Sqs!InHand(m) /\ place[m] = "hidden" /\ d.attempts = receipts[m]
           /\ \A d, e \in ds : d.msg = e.msg /\ d.msg \notin lapsed => d = e
           /\ \A d \in ds : place[d.msg] # "none"
           /\ Sqs!RunsAreReadable' /\ \A d \in ds : d.msg \notin unreadable
<1>0. /\ loop \in [Sqs!Loops -> [pc : {"off", "top", "receive", "work", "ended"},
                                waiting : SUBSET Sqs!Deliveries, running : SUBSET Sqs!Deliveries]]
      /\ \A k \in Sqs!Loops : Sqs!Rests(loop[k])
      /\ \A k \in Sqs!Loops : loop[k].waiting \cap loop[k].running = {}
  BY DEF Sqs!IInv, Sqs!TypeOK, Sqs!HeldOnce
<1> DEFINE pc == IF loop[l].waiting = {} /\ loop[l].running = ds THEN "top" ELSE loop[l].pc
           x == [loop[l] EXCEPT !.running = @ \ ds, !.pc = pc]
<1>1. loop' = [loop EXCEPT ![l] = x]
  BY DEF Sqs!Settled
<1>2. /\ x \in [pc : {"off", "top", "receive", "work", "ended"},
               waiting : SUBSET Sqs!Deliveries, running : SUBSET Sqs!Deliveries]
      /\ x.pc = pc /\ x.waiting = loop[l].waiting /\ x.running = loop[l].running \ ds
  <2>1. loop[l].running \ ds \in SUBSET Sqs!Deliveries /\ pc \in {"off", "top", "receive", "work", "ended"}
    BY <1>0
  <2> HIDE DEF pc
  <2>2. loop[l] \in [pc : {"off", "top", "receive", "work", "ended"},
                     waiting : SUBSET Sqs!Deliveries, running : SUBSET Sqs!Deliveries]
    BY <1>0
  <2>3. x.pc = pc /\ x.waiting = loop[l].waiting /\ x.running = loop[l].running \ ds
    BY <2>2
  <2>4. x \in [pc : {"off", "top", "receive", "work", "ended"},
               waiting : SUBSET Sqs!Deliveries, running : SUBSET Sqs!Deliveries]
    BY <2>1, <2>2
  <2> QED BY <2>3, <2>4
<1> HIDE DEF x
<1>3. /\ loop' \in [Sqs!Loops -> [pc : {"off", "top", "receive", "work", "ended"},
                                waiting : SUBSET Sqs!Deliveries, running : SUBSET Sqs!Deliveries]]
      /\ loop'[l] = x /\ \A k \in Sqs!Loops : k # l => loop'[k] = loop[k]
  BY <1>0, <1>1, <1>2
<1>4. \A k \in Sqs!Loops : Sqs!Rests(loop'[k])
  BY <1>0, <1>2, <1>3 DEF Sqs!Rests
<1>5. \A k \in Sqs!Loops : loop'[k].waiting \cap loop'[k].running = {}
  BY <1>0, <1>2, <1>3
<1>6. (Sqs!Holds(l))' = Sqs!Holds(l) \ ds /\ ds \subseteq Sqs!Holds(l)
      /\ \A k \in Sqs!Loops : k # l => (Sqs!Holds(k))' = Sqs!Holds(k)
  BY <1>0, <1>2, <1>3 DEF Sqs!Holds
<1>7. Sqs!RunsAreReadable' /\ \A d \in ds : d.msg \notin unreadable
  BY <1>2, <1>3 DEF Sqs!IInv, Sqs!RunsAreReadable, Sqs!Loops
<1> QED BY <1>3, <1>4, <1>5, <1>6, <1>7, SqsLetsGo

\* What is served leaves the queue with the receipt of its last delivery.
LEMMA SqsAck ==
    ASSUME Sqs!SqsAssumption, Sqs!IInv, NEW l \in Sqs!Loops, NEW ds \in SUBSET loop[l].running,
           NEW unacked \in SUBSET ds, Sqs!Ack(l, ds, unacked)
    PROVE  Sqs!IInv'
<1> DEFINE acked == {d.msg : d \in ds \ unacked}
           names == {d.msg : d \in ds}
<1>0. Sqs!TypeOK
  BY DEF Sqs!IInv
<1>1. /\ ds # {} /\ Sqs!Settled(l, ds)
      /\ served' = served \union names
      /\ place' = [m \in Calls |-> IF m \in acked THEN "deleted" ELSE place[m]]
      /\ Sqs!Fault \/ Sqs!NoFault
      /\ UNCHANGED <<mode, unreadable, told, receipts, dead, stopped, failed, lapsed, lapses>>
  BY DEF Sqs!Ack, Sqs!Group
<1>2. /\ sqsFaults' \in 0..MaxSqsFaults
      /\ sqsFaults' = 0 => sqsFaults = 0
      /\ sqsFaults > 0 => sqsFaults' > 0
  BY <1>0, <1>1 DEF Sqs!TypeOK, Sqs!Fault, Sqs!NoFault, Sqs!SqsAssumption
<1>3. \A m \in names : \E d \in ds : d.msg = m
  OBVIOUS
<1>4. \A d \in ds : d.msg \in names
  OBVIOUS
<1>5. acked \subseteq names
  OBVIOUS
<1> HIDE DEF acked, names
<1>6. \A m \in Calls : /\ place'[m] = place[m] \/ m \in names
                       /\ place'[m] = place[m] \/ place'[m] = "deleted"
  BY <1>1, <1>5
<1>7. \A m \in Calls : place'[m] = place[m] \/ \E d \in ds : d.msg = m
  BY <1>3, <1>6
<1>8. /\ loop' \in [Sqs!Loops -> [pc : {"off", "top", "receive", "work", "ended"},
                                  waiting : SUBSET Sqs!Deliveries, running : SUBSET Sqs!Deliveries]]
      /\ \A k \in Sqs!Loops : Sqs!Rests(loop'[k])
      /\ Sqs!HeldOnce' /\ ds \in SUBSET Sqs!Deliveries
      /\ \A m \in Calls \ lapsed : (Sqs!InHand(m))' <=> Sqs!InHand(m) /\ \A d \in ds : d.msg # m
      /\ \A d \in ds : place[d.msg] # "none"
      /\ Sqs!RunsAreReadable' /\ \A d \in ds : d.msg \notin unreadable
  BY <1>1, <1>7, SqsReleases
<1>9. names \subseteq Calls
  BY <1>3, <1>8, SqsDeliveries
<1>10. Sqs!TypeOK'
  <2>1. place' \in [Calls -> {"none", "visible", "hidden", "deleted"}]
    BY <1>0, <1>1 DEF Sqs!TypeOK
  <2>2. served' \subseteq Calls
    BY <1>0, <1>1, <1>9 DEF Sqs!TypeOK
  <2> QED BY <1>0, <1>1, <1>2, <1>8, <2>1, <2>2 DEF Sqs!TypeOK, Sqs!Loops, Sqs!Deliveries,
             Sqs!Redrive
<1>11. Sqs!Unsent'
  <2>1. \A m \in Calls : place[m] = "none" => place'[m] = "none"
    BY <1>3, <1>6, <1>8
  <2> QED BY <1>1, <1>6, <2>1 DEF Sqs!IInv, Sqs!Unsent
<1>12. Sqs!RunsCounted'
  BY <1>1, <1>4, <1>8 DEF Sqs!IInv, Sqs!RunsCounted
<1>13. Sqs!FiledOnce'
  BY <1>1, <1>2, <1>6 DEF Sqs!IInv, Sqs!FiledOnce
<1>14. Sqs!NothingLost'
  BY <1>1, <1>6 DEF Sqs!IInv, Sqs!NothingLost
<1>15. Sqs!DeadAfterItsRuns'
  BY <1>1, <1>2, <1>3, <1>8 DEF Sqs!IInv, Sqs!DeadAfterItsRuns
<1> QED BY <1>8, <1>10, <1>11, <1>12, <1>13, <1>14, <1>15 DEF Sqs!IInv

\* A run that failed is counted; one past its retries is filed with its copy, or stays.
LEMMA SqsFail ==
    ASSUME Sqs!SqsAssumption, Sqs!IInv, NEW l \in Sqs!Loops, NEW ds \in SUBSET loop[l].running,
           NEW filed \in SUBSET ds, NEW deleted \in SUBSET filed, Sqs!Fail(l, ds, filed, deleted)
    PROVE  Sqs!IInv'
<1> DEFINE last == {d \in ds : d.attempts >= SqsRetries}
           names == {d.msg : d \in deleted}
           Naming(S, m) == {d \in S : d.msg = m}
<1>0. Sqs!TypeOK /\ dead \in [Calls -> Nat] /\ failed \in [Calls -> Nat]
         /\ receipts \in [Calls -> 0..Sqs!Redrive]
  BY DEF Sqs!IInv, Sqs!TypeOK
<1>1. /\ ds # {} /\ Sqs!Settled(l, ds) /\ filed \subseteq last
      /\ failed' = [m \in Calls |-> failed[m] + Cardinality(Naming(ds, m))]
      /\ dead' = [m \in Calls |-> dead[m] + Cardinality(Naming(filed, m))]
      /\ place' = [m \in Calls |-> IF m \in names THEN "deleted" ELSE place[m]]
      /\ UNCHANGED <<mode, unreadable, told, receipts, stopped, served, lapsed, lapses>>
  BY SqsSets DEF Sqs!Fail, Sqs!Group
<1>2. /\ Sqs!Fault \/ Sqs!NoFault
      /\ Sqs!Fault \/ (filed = last /\ \A d \in last \ deleted : d.attempts < receipts[d.msg])
  BY DEF Sqs!Fail
<1>3. /\ sqsFaults' \in 0..MaxSqsFaults /\ (Sqs!Fault => sqsFaults' # 0)
      /\ sqsFaults' = 0 => sqsFaults = 0
      /\ sqsFaults > 0 => sqsFaults' > 0
  BY <1>0, <1>2 DEF Sqs!TypeOK, Sqs!Fault, Sqs!NoFault, Sqs!SqsAssumption
<1>4. \A m : m \in names <=> \E d \in deleted : d.msg = m
  OBVIOUS
<1> HIDE DEF names
<1>5. \A m \in Calls : /\ m \in names => place'[m] = "deleted"
                       /\ m \notin names => place'[m] = place[m]
                       /\ place'[m] = "none" => place[m] = "none"
  BY <1>1
<1>6. \A m \in Calls : place'[m] = place[m] \/ \E d \in ds : d.msg = m
  BY <1>4, <1>5
<1>7. /\ loop' \in [Sqs!Loops -> [pc : {"off", "top", "receive", "work", "ended"},
                                  waiting : SUBSET Sqs!Deliveries, running : SUBSET Sqs!Deliveries]]
      /\ \A k \in Sqs!Loops : Sqs!Rests(loop'[k])
      /\ Sqs!HeldOnce' /\ ds \in SUBSET Sqs!Deliveries
      /\ \A m \in Calls \ lapsed : (Sqs!InHand(m))' <=> Sqs!InHand(m) /\ \A d \in ds : d.msg # m
      /\ \A m \in Calls \ lapsed : \A d \in ds : d.msg = m =>
            Sqs!InHand(m) /\ place[m] = "hidden" /\ d.attempts = receipts[m]
      /\ \A d, e \in ds : d.msg = e.msg /\ d.msg \notin lapsed => d = e
      /\ \A d \in ds : place[d.msg] # "none"
      /\ Sqs!RunsAreReadable' /\ \A d \in ds : d.msg \notin unreadable
  BY <1>1, <1>6, SqsReleases
<1>8. ASSUME NEW m \in Calls
      PROVE  /\ Cardinality(Naming(ds, m)) \in Nat /\ Cardinality(Naming(filed, m)) \in Nat
             /\ Cardinality(Naming(ds, m)) = 0 <=> \A d \in ds : d.msg # m
             /\ Cardinality(Naming(filed, m)) = 0 <=> \A d \in filed : d.msg # m
             /\ m \notin lapsed => Cardinality(Naming(ds, m)) \in {0, 1}
                   /\ Cardinality(Naming(filed, m)) \in {0, 1}
  <2>1. ds \in SUBSET Sqs!Deliveries /\ filed \in SUBSET Sqs!Deliveries
    BY <1>7
  <2>2. m \notin lapsed => /\ \A d, e \in ds : d.msg = m /\ e.msg = m => d = e
                          /\ \A d, e \in filed : d.msg = m /\ e.msg = m => d = e
    BY <1>7
  <2>3. /\ Cardinality(Naming(ds, m)) \in Nat
        /\ Cardinality(Naming(ds, m)) = 0 <=> \A d \in ds : d.msg # m
        /\ m \notin lapsed => Cardinality(Naming(ds, m)) \in {0, 1}
    BY <2>1, <2>2, SqsDeliveriesCount
  <2>4. /\ Cardinality(Naming(filed, m)) \in Nat
        /\ Cardinality(Naming(filed, m)) = 0 <=> \A d \in filed : d.msg # m
        /\ m \notin lapsed => Cardinality(Naming(filed, m)) \in {0, 1}
    BY <2>1, <2>2, SqsDeliveriesCount
  <2> QED BY <2>3, <2>4
<1> HIDE DEF Naming
<1>9. /\ \A m \in Calls : failed'[m] = failed[m] + Cardinality(Naming(ds, m))
      /\ \A m \in Calls : dead'[m] = dead[m] + Cardinality(Naming(filed, m))
      /\ failed' \in [Calls -> Nat] /\ dead' \in [Calls -> Nat]
  BY <1>0, <1>1, <1>8
<1>10. Sqs!TypeOK'
  <2>1. place' \in [Calls -> {"none", "visible", "hidden", "deleted"}]
    BY <1>0, <1>1 DEF Sqs!TypeOK
  <2> QED BY <1>0, <1>1, <1>3, <1>7, <1>9, <2>1 DEF Sqs!TypeOK, Sqs!Loops, Sqs!Deliveries,
             Sqs!Redrive
\* A message that did not lapse: what its delivery, if it is one of these, makes of it.
<1>11. ASSUME NEW m \in Calls, m \notin lapsed, NEW d \in ds, d.msg = m
       PROVE  /\ Cardinality(Naming(ds, m)) = 1 /\ Sqs!InHand(m) /\ ~(Sqs!InHand(m))'
              /\ place[m] = "hidden" /\ d.attempts = receipts[m]
              /\ \A e \in ds : e.msg = m => e = d
  BY <1>7, <1>8, <1>11
<1>12. Sqs!Unsent'
  <2> SUFFICES ASSUME NEW m \in Calls, place[m] = "none"
               PROVE place'[m] = "none" /\ receipts[m] = 0 /\ dead'[m] = 0
    BY <1>1, <1>5 DEF Sqs!IInv, Sqs!Unsent
  <2>1. receipts[m] = 0 /\ dead[m] = 0
    BY DEF Sqs!IInv, Sqs!Unsent
  <2>2. \A d \in ds : d.msg # m
    BY <1>7
  <2>3. Cardinality(Naming(filed, m)) = 0 /\ m \notin names
    BY <1>4, <1>8, <2>2
  <2> QED BY <1>5, <1>9, <2>1, <2>3
<1>13. Sqs!RunsCounted'
  <2> SUFFICES ASSUME NEW m \in Calls \ (lapsed \cup served \cup unreadable)
               PROVE  receipts[m] = failed'[m] + IF (Sqs!InHand(m))' THEN 1 ELSE 0
    BY <1>1 DEF Sqs!RunsCounted
  <2>1. receipts[m] = failed[m] + IF Sqs!InHand(m) THEN 1 ELSE 0
    BY DEF Sqs!IInv, Sqs!RunsCounted
  <2>2. CASE \E d \in ds : d.msg = m
    <3>1. Cardinality(Naming(ds, m)) = 1 /\ Sqs!InHand(m) /\ ~(Sqs!InHand(m))'
      BY <1>11, <2>2
    <3> QED BY <1>0, <1>9, <2>1, <3>1
  <2>3. CASE \A d \in ds : d.msg # m
    <3>1. Cardinality(Naming(ds, m)) = 0 /\ (Sqs!InHand(m) <=> (Sqs!InHand(m))')
      BY <1>7, <1>8, <2>3
    <3> QED BY <1>0, <1>9, <2>1, <3>1
  <2> QED BY <2>2, <2>3
<1>14. Sqs!FiledOnce'
  <2> SUFFICES ASSUME sqsFaults' = 0, NEW m \in Calls \ lapsed
               PROVE  dead'[m] <= 1 /\ (dead'[m] = 1 => place'[m] = "deleted")
    BY <1>1 DEF Sqs!FiledOnce
  <2>1. dead[m] \in Nat /\ dead[m] <= 1 /\ (dead[m] = 1 => place[m] = "deleted")
    BY <1>0, <1>3 DEF Sqs!IInv, Sqs!FiledOnce
  <2>2. filed = last /\ \A d \in last \ deleted : d.attempts < receipts[d.msg]
    BY <1>2, <1>3
  <2>3. CASE Cardinality(Naming(filed, m)) = 0
    <3>1. dead'[m] = dead[m]
      BY <1>9, <2>1, <2>3
    <3> QED BY <1>5, <2>1, <3>1
  <2>4. CASE Cardinality(Naming(filed, m)) # 0
    <3>1. PICK d \in filed : d.msg = m
      BY <1>8, <2>4
    <3>2. Cardinality(Naming(filed, m)) = 1 /\ place[m] = "hidden" /\ d.attempts = receipts[m]
      BY <1>8, <1>11, <2>4, <3>1
    <3>3. d \in deleted
      <4>1. receipts[m] \in Nat
        BY <1>0
      <4>2. ~(d.attempts < receipts[d.msg])
        BY <3>1, <3>2, <4>1
      <4> QED BY <2>2, <4>2
    <3>4. dead[m] = 0
      BY <2>1, <3>2
    <3> QED BY <1>4, <1>5, <1>9, <3>1, <3>2, <3>3, <3>4
  <2> QED BY <2>3, <2>4
<1>15. Sqs!NothingLost'
  <2> SUFFICES ASSUME NEW m \in Calls, place'[m] = "deleted" PROVE m \in served \/ dead'[m] > 0
    BY <1>1 DEF Sqs!NothingLost
  <2>1. CASE m \in names
    <3>1. Cardinality(Naming(filed, m)) # 0
      BY <1>4, <1>8, <2>1
    <3> QED BY <1>0, <1>8, <1>9, <3>1
  <2>2. CASE m \notin names
    <3>1. m \in served \/ dead[m] > 0
      BY <1>5, <2>2 DEF Sqs!IInv, Sqs!NothingLost
    <3> QED BY <1>0, <1>8, <1>9, <3>1
  <2> QED BY <2>1, <2>2
<1>16. Sqs!DeadAfterItsRuns'
  <2>1. ASSUME NEW m \in Calls, dead'[m] > 0, m \notin lapsed \cup served \cup unreadable
        PROVE  failed'[m] >= SqsRetries
    <3>1. CASE dead[m] > 0
      <4>1. failed[m] >= SqsRetries
        BY <2>1, <3>1 DEF Sqs!IInv, Sqs!DeadAfterItsRuns
      <4> QED BY <1>0, <1>8, <1>9, <4>1 DEF Sqs!SqsAssumption
    <3>2. CASE ~(dead[m] > 0)
      <4>1. Cardinality(Naming(filed, m)) # 0
        BY <1>0, <1>9, <2>1, <3>2
      <4>2. PICK d \in filed : d.msg = m
        BY <1>8, <4>1
      <4>3. d.attempts >= SqsRetries
        BY <1>1
      <4>4. Cardinality(Naming(ds, m)) = 1 /\ Sqs!InHand(m) /\ d.attempts = receipts[m]
        BY <1>11, <2>1, <4>2
      <4>5. receipts[m] = failed[m] + 1
        BY <2>1, <4>4 DEF Sqs!IInv, Sqs!RunsCounted
      <4> QED BY <1>0, <1>9, <4>3, <4>4, <4>5
    <3> QED BY <3>1, <3>2
  <2>2. \A k \in Calls : dead'[k] > 1 => sqsFaults' > 0 \/ k \in lapsed'
    <3> SUFFICES ASSUME NEW k \in Calls, dead'[k] > 1, k \notin lapsed' PROVE sqsFaults' > 0
      OBVIOUS
    <3>1. dead'[k] \in Nat /\ sqsFaults' \in Nat /\ (sqsFaults' = 0 => dead'[k] <= 1)
      BY <1>10, <1>14 DEF Sqs!TypeOK, Sqs!FiledOnce
    <3> QED BY <3>1
  <2>3. ASSUME NEW m \in Calls, m \in unreadable PROVE failed'[m] = 0 /\ m \notin served
    <3>1. Cardinality(Naming(ds, m)) = 0
      BY <1>7, <1>8, <2>3
    <3>2. failed[m] = 0 /\ m \notin served
      BY <2>3 DEF Sqs!IInv, Sqs!DeadAfterItsRuns
    <3> QED BY <1>9, <3>1, <3>2
  <2> QED BY <1>1, <2>1, <2>2, <2>3 DEF Sqs!DeadAfterItsRuns
<1> QED BY <1>7, <1>10, <1>12, <1>13, <1>14, <1>15, <1>16 DEF Sqs!IInv

\* The visibility of a message runs out.
LEMMA SqsReappear ==
    ASSUME Sqs!SqsAssumption, Sqs!IInv, NEW m \in Calls, Sqs!Reappear(m)
    PROVE  Sqs!IInv'
<1>0. Sqs!TypeOK /\ place[m] = "hidden"
  BY DEF Sqs!IInv, Sqs!Reappear
<1>1. /\ place' = [place EXCEPT ![m] = "visible"]
      /\ UNCHANGED <<mode, unreadable, told, receipts, dead, stopped, loop, failed, served,
            sqsFaults>>
      /\ lapsed' \in {lapsed, lapsed \cup {m}} /\ lapses' \in 0..MaxLapses
  BY DEF Sqs!Reappear, Sqs!IInv, Sqs!TypeOK, Sqs!SqsAssumption
<1>2. m \notin lapsed' => ~Sqs!InHand(m)
  BY DEF Sqs!Reappear, Sqs!InHand, Sqs!Holds, Sqs!IInv, Sqs!HeldOnce
<1>3. /\ place'[m] = "visible" /\ \A k \in Calls : k # m => place'[k] = place[k]
      /\ place' \in [Calls -> {"none", "visible", "hidden", "deleted"}]
  BY <1>0, <1>1 DEF Sqs!TypeOK
<1>4. Sqs!TypeOK'
  BY <1>0, <1>1, <1>3 DEF Sqs!TypeOK, Sqs!Loops, Sqs!Deliveries, Sqs!Redrive
<1>5. (\A l \in Sqs!Loops : (Sqs!Holds(l))' = Sqs!Holds(l)) /\ \A k \in Calls : (Sqs!InHand(k))' <=>
         Sqs!InHand(k)
  BY <1>1 DEF Sqs!Holds, Sqs!InHand, Sqs!Loops
<1>6. Sqs!HeldOnce'
  <2>1. \A l \in Sqs!Loops : \A d \in Sqs!Holds(l) :
          /\ d.attempts <= receipts[d.msg]
          /\ d.msg \notin lapsed' => d.attempts = receipts[d.msg] /\ place'[d.msg] = "hidden"
    <3> SUFFICES ASSUME NEW l \in Sqs!Loops, NEW d \in Sqs!Holds(l)
        PROVE /\ d.attempts <= receipts[d.msg]
              /\ d.msg \notin lapsed' => d.attempts = receipts[d.msg] /\ place'[d.msg] = "hidden"
      OBVIOUS
    <3>1. d.msg \in Calls
      BY SqsHolds
    <3>2. d.msg \notin lapsed' => d.msg # m /\ d.msg \notin lapsed
      BY <1>1, <1>2 DEF Sqs!InHand
    <3> QED BY <1>3, <3>1, <3>2 DEF Sqs!IInv, Sqs!HeldOnce
  <2>2. \A k, l \in Sqs!Loops : \A d \in Sqs!Holds(k), e \in Sqs!Holds(l) :
          d.msg = e.msg /\ d.msg \notin lapsed' => k = l
    BY <1>1 DEF Sqs!IInv, Sqs!HeldOnce
  <2> QED BY <1>1, <1>5, <2>1, <2>2 DEF Sqs!IInv, Sqs!HeldOnce, Sqs!Loops
<1>7. Sqs!Unsent' /\ Sqs!RunsCounted' /\ Sqs!RunsAreReadable'
  BY <1>0, <1>1, <1>3, <1>5 DEF Sqs!IInv, Sqs!Unsent, Sqs!RunsCounted, Sqs!RunsAreReadable,
     Sqs!Loops
<1>8. Sqs!FiledOnce'
  <2> SUFFICES ASSUME sqsFaults = 0, NEW k \in Calls \ lapsed'
               PROVE  dead[k] <= 1 /\ (dead[k] = 1 => place'[k] = "deleted")
    BY <1>1 DEF Sqs!FiledOnce
  <2>1. dead[k] <= 1 /\ (dead[k] = 1 => place[k] = "deleted")
    BY <1>1 DEF Sqs!IInv, Sqs!FiledOnce
  <2> QED BY <1>0, <1>3, <2>1
<1>9. Sqs!NothingLost' /\ Sqs!DeadAfterItsRuns'
  BY <1>1, <1>3 DEF Sqs!IInv, Sqs!NothingLost, Sqs!DeadAfterItsRuns
<1> QED BY <1>4, <1>6, <1>7, <1>8, <1>9 DEF Sqs!IInv

\* SQS files a message itself.
LEMMA SqsRedriven ==
    ASSUME Sqs!SqsAssumption, Sqs!IInv, NEW m \in Calls, Sqs!Redriven(m)
    PROVE  Sqs!IInv'
<1>0. Sqs!TypeOK /\ place[m] = "visible" /\ receipts[m] >= Sqs!Redrive
  BY DEF Sqs!IInv, Sqs!Redriven
<1>1. /\ place' = [place EXCEPT ![m] = "deleted"] /\ dead' = [dead EXCEPT ![m] = @ + 1]
      /\ UNCHANGED <<mode, unreadable, told, receipts, stopped, loop, failed, served, lapsed,
            lapses, sqsFaults>>
  BY DEF Sqs!Redriven
<1>2. m \notin lapsed => ~Sqs!InHand(m)
  BY <1>0, SqsHolds
<1>3. /\ place'[m] = "deleted" /\ \A k \in Calls : k # m => place'[k] = place[k] /\ dead'[k] = dead[k]
      /\ dead'[m] = dead[m] + 1 /\ dead[m] \in Nat /\ dead' \in [Calls -> Nat]
      /\ place' \in [Calls -> {"none", "visible", "hidden", "deleted"}]
  BY <1>0, <1>1 DEF Sqs!TypeOK
<1>4. Sqs!TypeOK'
  BY <1>0, <1>1, <1>3 DEF Sqs!TypeOK, Sqs!Loops, Sqs!Deliveries, Sqs!Redrive
<1>5. (\A l \in Sqs!Loops : (Sqs!Holds(l))' = Sqs!Holds(l)) /\ \A k \in Calls : (Sqs!InHand(k))' <=>
         Sqs!InHand(k)
  BY <1>1 DEF Sqs!Holds, Sqs!InHand, Sqs!Loops
<1>6. Sqs!HeldOnce'
  <2>1. \A l \in Sqs!Loops : \A d \in Sqs!Holds(l) :
          d.msg \notin lapsed => place'[d.msg] = "hidden"
    <3> SUFFICES ASSUME NEW l \in Sqs!Loops, NEW d \in Sqs!Holds(l), d.msg \notin lapsed
        PROVE place'[d.msg] = "hidden"
      OBVIOUS
    <3>1. d.msg \in Calls /\ d.msg # m
      BY <1>2, SqsHolds DEF Sqs!InHand
    <3> QED BY <1>3, <3>1 DEF Sqs!IInv, Sqs!HeldOnce
  <2> QED BY <1>1, <1>5, <2>1 DEF Sqs!IInv, Sqs!HeldOnce, Sqs!Loops
<1>7. Sqs!Unsent'
  BY <1>0, <1>1, <1>3 DEF Sqs!IInv, Sqs!Unsent
<1>8. Sqs!RunsCounted' /\ Sqs!RunsAreReadable'
  BY <1>1, <1>5 DEF Sqs!IInv, Sqs!RunsCounted, Sqs!RunsAreReadable, Sqs!Loops
<1>9. Sqs!FiledOnce'
  <2> SUFFICES ASSUME sqsFaults = 0, NEW k \in Calls \ lapsed
               PROVE  dead'[k] <= 1 /\ (dead'[k] = 1 => place'[k] = "deleted")
    BY <1>1 DEF Sqs!FiledOnce
  <2>1. dead[k] <= 1 /\ (dead[k] = 1 => place[k] = "deleted")
    BY DEF Sqs!IInv, Sqs!FiledOnce
  <2> QED BY <1>0, <1>3, <2>1
<1>10. Sqs!NothingLost'
  BY <1>1, <1>3 DEF Sqs!IInv, Sqs!NothingLost
<1>11. Sqs!DeadAfterItsRuns'
  <2>1. m \notin lapsed \cup served \cup unreadable => failed[m] >= SqsRetries
    <3> SUFFICES ASSUME m \notin lapsed \cup served \cup unreadable PROVE failed[m] >= SqsRetries
      OBVIOUS
    <3>1. receipts[m] = failed[m] + 0 /\ failed[m] \in Nat
      BY <1>0, <1>2 DEF Sqs!IInv, Sqs!RunsCounted, Sqs!TypeOK
    <3>2. Sqs!Redrive = SqsRetries + 1 /\ SqsRetries \in Nat
      BY DEF Sqs!Redrive, Sqs!SqsAssumption
    <3> QED BY <1>0, <3>1, <3>2
  <2>2. \A k \in Calls : dead'[k] > 1 => sqsFaults' > 0 \/ k \in lapsed'
    <3> SUFFICES ASSUME NEW k \in Calls, dead'[k] > 1, k \notin lapsed' PROVE sqsFaults' > 0
      OBVIOUS
    <3>1. dead'[k] \in Nat /\ sqsFaults' \in Nat /\ (sqsFaults' = 0 => dead'[k] <= 1)
      BY <1>4, <1>9 DEF Sqs!TypeOK, Sqs!FiledOnce
    <3> QED BY <3>1
  <2> QED BY <1>1, <1>3, <2>1, <2>2 DEF Sqs!IInv, Sqs!DeadAfterItsRuns
<1> QED BY <1>4, <1>6, <1>7, <1>8, <1>9, <1>10, <1>11 DEF Sqs!IInv

\* A process dies with what it holds.
LEMMA SqsDie ==
    ASSUME Sqs!SqsAssumption, Sqs!IInv, NEW l \in Sqs!Loops, Sqs!Die(l)
    PROVE  Sqs!IInv'
<1> DEFINE names == {d.msg : d \in loop[l].waiting \union loop[l].running}
<1>0. Sqs!TypeOK
  BY DEF Sqs!IInv
<1>1. /\ loop' = [loop EXCEPT ![l] = [pc |-> "ended", waiting |-> {}, running |-> {}]]
      /\ lapsed' = lapsed \union names
      /\ UNCHANGED <<mode, unreadable, told, place, receipts, dead, stopped, failed, served,
            lapses>>
  BY DEF Sqs!Die
<1>2. sqsFaults' \in 0..MaxSqsFaults /\ sqsFaults' > 0
  BY <1>0 DEF Sqs!Die, Sqs!Fault, Sqs!TypeOK, Sqs!SqsAssumption
<1>3. \A m : m \in names <=> \E d \in Sqs!Holds(l) : d.msg = m
  BY DEF Sqs!Holds
<1> HIDE DEF names
<1>4. names \subseteq Calls
  BY <1>3, SqsHolds
<1>5. /\ loop' \in [Sqs!Loops -> [pc : {"off", "top", "receive", "work", "ended"},
                                waiting : SUBSET Sqs!Deliveries, running : SUBSET Sqs!Deliveries]]
      /\ loop'[l] = [pc |-> "ended", waiting |-> {}, running |-> {}]
      /\ \A k \in Sqs!Loops : k # l => loop'[k] = loop[k]
  BY <1>0, <1>1 DEF Sqs!TypeOK
<1>6. Sqs!TypeOK'
  BY <1>0, <1>1, <1>2, <1>4, <1>5 DEF Sqs!TypeOK, Sqs!Rests, Sqs!Loops, Sqs!Deliveries, Sqs!Redrive
<1>7. (Sqs!Holds(l))' = {} /\ \A k \in Sqs!Loops : k # l => (Sqs!Holds(k))' = Sqs!Holds(k)
  BY <1>5 DEF Sqs!Holds
<1>8. Sqs!HeldOnce'
  BY <1>1, <1>5, <1>7 DEF Sqs!IInv, Sqs!HeldOnce, Sqs!Loops
<1>9. \A m \in Calls \ lapsed' : (Sqs!InHand(m))' <=> Sqs!InHand(m)
  BY <1>1, <1>3, <1>7 DEF Sqs!InHand, Sqs!Loops
<1>10. Sqs!Unsent' /\ Sqs!RunsCounted' /\ Sqs!RunsAreReadable'
  BY <1>1, <1>5, <1>9 DEF Sqs!IInv, Sqs!Unsent, Sqs!RunsCounted, Sqs!RunsAreReadable, Sqs!Loops
<1>11. Sqs!FiledOnce' /\ Sqs!NothingLost' /\ Sqs!DeadAfterItsRuns'
  BY <1>1, <1>2 DEF Sqs!IInv, Sqs!FiledOnce, Sqs!NothingLost, Sqs!DeadAfterItsRuns
<1> QED BY <1>6, <1>8, <1>10, <1>11 DEF Sqs!IInv

\* What nothing can read is filed with its copy, or stays.
LEMMA SqsDiscard ==
    ASSUME Sqs!SqsAssumption, Sqs!IInv, NEW l \in Sqs!Loops, NEW d \in loop[l].waiting,
           NEW filed \in BOOLEAN, NEW deleted \in BOOLEAN, Sqs!Discard(l, d, filed, deleted)
    PROVE  Sqs!IInv'
<1> DEFINE m == d.msg
           pc == IF loop[l].waiting = {d} /\ loop[l].running = {} THEN "top" ELSE loop[l].pc
           x == [loop[l] EXCEPT !.waiting = @ \ {d}, !.pc = pc]
<1>0. /\ loop \in [Sqs!Loops -> [pc : {"off", "top", "receive", "work", "ended"},
                                waiting : SUBSET Sqs!Deliveries, running : SUBSET Sqs!Deliveries]]
      /\ \A k \in Sqs!Loops : Sqs!Rests(loop[k])
      /\ \A k \in Sqs!Loops : loop[k].waiting \cap loop[k].running = {}
      /\ Sqs!TypeOK /\ dead \in [Calls -> Nat] /\ receipts \in [Calls -> 0..Sqs!Redrive]
      /\ d \in Sqs!Holds(l) /\ m \in Calls /\ d.attempts \in Nat /\ receipts[m] \in Nat
  <2>1. d \in Sqs!Holds(l)
    BY DEF Sqs!Holds
  <2>2. d.msg \in Calls /\ d.attempts \in Nat /\ Sqs!Redrive \in Nat
    BY <2>1, SqsHolds, SqsDeliveries
  <2> QED BY <2>1, <2>2 DEF Sqs!IInv, Sqs!TypeOK, Sqs!HeldOnce
<1>1. /\ loop[l].pc = "work" /\ m \in unreadable /\ (deleted => filed)
      /\ dead' = [dead EXCEPT ![m] = IF filed THEN @ + 1 ELSE @]
      /\ place' = [place EXCEPT ![m] = IF deleted THEN "deleted" ELSE @]
      /\ loop' = [loop EXCEPT ![l] = x]
      /\ UNCHANGED <<mode, unreadable, told, receipts, stopped, failed, served, lapsed, lapses>>
      /\ Sqs!Fault \/ (Sqs!NoFault /\ filed /\ (deleted \/ d.attempts < receipts[m]))
  BY DEF Sqs!Discard
<1>2. /\ sqsFaults' \in 0..MaxSqsFaults /\ (Sqs!Fault => sqsFaults' # 0)
      /\ sqsFaults' = 0 => sqsFaults = 0
      /\ sqsFaults > 0 => sqsFaults' > 0
  BY <1>0, <1>1 DEF Sqs!TypeOK, Sqs!Fault, Sqs!NoFault, Sqs!SqsAssumption
<1>3. /\ x \in [pc : {"off", "top", "receive", "work", "ended"},
               waiting : SUBSET Sqs!Deliveries, running : SUBSET Sqs!Deliveries]
      /\ x.pc = pc /\ x.waiting = loop[l].waiting \ {d} /\ x.running = loop[l].running
      /\ Sqs!Rests(x)
  <2>1. loop[l].waiting \ {d} \in SUBSET Sqs!Deliveries
        /\ pc \in {"off", "top", "receive", "work", "ended"}
        /\ (pc = "work" \/ (loop[l].waiting \ {d} = {} /\ loop[l].running = {}))
    BY <1>0, <1>1
  <2> HIDE DEF pc
  <2>2. x.pc = pc /\ x.waiting = loop[l].waiting \ {d} /\ x.running = loop[l].running
        /\ x \in [pc : {"off", "top", "receive", "work", "ended"},
                  waiting : SUBSET Sqs!Deliveries, running : SUBSET Sqs!Deliveries]
    BY <1>0, <2>1
  <2> HIDE DEF x
  <2> QED BY <2>1, <2>2 DEF Sqs!Rests
<1> HIDE DEF x
<1>4. /\ loop' \in [Sqs!Loops -> [pc : {"off", "top", "receive", "work", "ended"},
                                waiting : SUBSET Sqs!Deliveries, running : SUBSET Sqs!Deliveries]]
      /\ loop'[l] = x /\ \A k \in Sqs!Loops : k # l => loop'[k] = loop[k]
      /\ \A k \in Sqs!Loops : Sqs!Rests(loop'[k])
      /\ \A k \in Sqs!Loops : loop'[k].waiting \cap loop'[k].running = {}
  BY <1>0, <1>1, <1>3
<1>5. (Sqs!Holds(l))' = Sqs!Holds(l) \ {d} /\ {d} \subseteq Sqs!Holds(l)
      /\ \A k \in Sqs!Loops : k # l => (Sqs!Holds(k))' = Sqs!Holds(k)
  BY <1>0, <1>3, <1>4 DEF Sqs!Holds
<1>6. /\ place' \in [Calls -> {"none", "visible", "hidden", "deleted"}] /\ dead' \in [Calls -> Nat]
      /\ place'[m] = (IF deleted THEN "deleted" ELSE place[m])
      /\ dead'[m] = (IF filed THEN dead[m] + 1 ELSE dead[m]) /\ dead[m] \in Nat
      /\ \A k \in Calls : k # m => place'[k] = place[k] /\ dead'[k] = dead[k]
  BY <1>0, <1>1 DEF Sqs!TypeOK
<1>7. /\ Sqs!HeldOnce'
      /\ \A k \in Calls \ lapsed : (Sqs!InHand(k))' <=> Sqs!InHand(k) /\ m # k
      /\ m \notin lapsed => Sqs!InHand(m) /\ place[m] = "hidden" /\ d.attempts = receipts[m]
      /\ place[m] # "none"
  <2>1. \A k \in Calls : place'[k] = place[k] \/ \E e \in {d} : e.msg = k
    BY <1>6
  <2>2. {d} \in SUBSET Sqs!Holds(l) /\ UNCHANGED <<receipts, lapsed>>
    BY <1>1, <1>5
  <2>3. /\ Sqs!HeldOnce'
        /\ \A k \in Calls \ lapsed : (Sqs!InHand(k))' <=> Sqs!InHand(k) /\ \A e \in {d} : e.msg # k
        /\ \A k \in Calls \ lapsed : \A e \in {d} : e.msg = k =>
              Sqs!InHand(k) /\ place[k] = "hidden" /\ e.attempts = receipts[k]
        /\ \A e \in {d} : place[e.msg] # "none"
    BY <1>4, <1>5, <2>1, <2>2, SqsLetsGo
  <2> QED BY <1>0, <2>3
<1>8. Sqs!TypeOK'
  BY <1>0, <1>1, <1>2, <1>4, <1>6 DEF Sqs!TypeOK, Sqs!Loops, Sqs!Deliveries, Sqs!Redrive
<1> HIDE DEF m
<1>9. Sqs!Unsent' /\ Sqs!NothingLost'
  BY <1>1, <1>6, <1>7 DEF Sqs!IInv, Sqs!Unsent, Sqs!NothingLost
<1>10. Sqs!RunsAreReadable'
  BY <1>1, <1>3, <1>4 DEF Sqs!IInv, Sqs!RunsAreReadable, Sqs!Loops
<1>11. Sqs!RunsCounted'
  BY <1>1, <1>7 DEF Sqs!IInv, Sqs!RunsCounted
<1>12. Sqs!FiledOnce'
  <2> SUFFICES ASSUME sqsFaults' = 0, NEW k \in Calls \ lapsed
               PROVE  dead'[k] <= 1 /\ (dead'[k] = 1 => place'[k] = "deleted")
    BY <1>1 DEF Sqs!FiledOnce
  <2>1. dead[k] \in Nat /\ dead[k] <= 1 /\ (dead[k] = 1 => place[k] = "deleted")
    BY <1>0, <1>2 DEF Sqs!IInv, Sqs!FiledOnce
  <2>2. CASE k # m
    BY <1>6, <2>1, <2>2
  <2>3. CASE k = m
    <3>1. filed /\ place[m] = "hidden" /\ d.attempts = receipts[m]
          /\ (deleted \/ d.attempts < receipts[m])
      BY <1>1, <1>2, <1>7, <2>3
    <3>2. dead[m] = 0
      BY <2>1, <2>3, <3>1
    <3>3. receipts[m] \in Nat /\ d.attempts \in Nat
      BY <1>0 DEF m
    <3>4. deleted
      BY <3>1, <3>3
    <3> QED BY <1>6, <2>3, <3>1, <3>2, <3>4
  <2> QED BY <2>2, <2>3
<1>13. Sqs!DeadAfterItsRuns'
  <2>1. \A k \in Calls : dead'[k] > 1 => sqsFaults' > 0 \/ k \in lapsed'
    <3> SUFFICES ASSUME NEW k \in Calls, dead'[k] > 1, k \notin lapsed' PROVE sqsFaults' > 0
      OBVIOUS
    <3>1. dead'[k] \in Nat /\ sqsFaults' \in Nat /\ (sqsFaults' = 0 => dead'[k] <= 1)
      BY <1>8, <1>12 DEF Sqs!TypeOK, Sqs!FiledOnce
    <3> QED BY <3>1
  <2>2. \A k \in Calls : dead'[k] > 0 /\ k \notin lapsed \cup served \cup unreadable => dead[k] > 0
    BY <1>1, <1>6
  <2> QED BY <1>1, <2>1, <2>2 DEF Sqs!IInv, Sqs!DeadAfterItsRuns
<1> QED BY <1>7, <1>8, <1>9, <1>10, <1>11, <1>12, <1>13 DEF Sqs!IInv

\* So the invariant is inductive.
LEMMA SqsSteps == ASSUME Sqs!SqsAssumption, Sqs!IInv, [Sqs!Next]_(Sqs!sqsVars) PROVE Sqs!IInv'
BY SqsGoesOn, SqsPush, SqsReceive, SqsReceiveFails, SqsAck, SqsFail, SqsDiscard, SqsReappear,
   SqsRedriven, SqsDie DEF Sqs!Next

-----------------------------------------------------------------------------
(* The topology of the queues (queue/topology).                               *)

\* The greatest of a number and of what each member of a finite set asks for.
LEMMA BoundsOf ==
    ASSUME NEW f, NEW S, IsFiniteSet(S), \A q \in S : f[q] \in Nat, NEW b \in Nat, NEW top,
           top = Topology!Max({b} \cup {f[q] : q \in S})
    PROVE  top \in Nat /\ \A q \in S : f[q] <= top
<1> DEFINE g == [q \in S |-> f[q]]
           T == {f[q] : q \in S}
           A == {b} \cup T
<1>1. g \in Surjection(S, T)
  BY DEF Surjection
<1>2. IsFiniteSet(T)
  BY <1>1, FS_Surjection
<1>3. IsFiniteSet(T \cup {b})
  BY <1>2, FS_AddElement
<1>4. A = T \cup {b} /\ A \in SUBSET Nat /\ A # {}
  OBVIOUS
<1>5. top \in A /\ \A n \in A : top >= n
  <2> HIDE DEF A
  <2>1. Delivery!IsFiniteSet(A)
    BY <1>3, <1>4 DEF Delivery!IsFiniteSet, IsFiniteSet
  <2>2. top = Delivery!Max(A)
    BY DEF A, Delivery!Max, Topology!Max
  <2> QED BY <1>4, <2>1, <2>2, Delivery!FiniteHasMax
<1>6. \A q \in S : f[q] \in A
  OBVIOUS
<1> QED BY <1>4, <1>5, <1>6

\* The slots of some queues are no more than those of all, and finitely many.
LEMMA TopologySlots ==
    ASSUME Topology!TopologyAssumption, NEW r \in Replicas, NEW declared \in SUBSET Queues,
           NEW qs \in SUBSET declared
    PROVE  /\ Cardinality(Topology!Slots(r, declared)) \in Nat
           /\ Cardinality(Topology!Slots(r, qs)) <= Cardinality(Topology!Slots(r, declared))
<1> DEFINE g == [q \in declared |-> {q} \X (1..Asked[r][q].concurrency)]
           T == {{q} \X (1..Asked[r][q].concurrency) : q \in declared}
<1>1. IsFiniteSet(declared)
  BY FS_Subset, TopologySets DEF Topology!TopologyAssumption
<1>2. g \in Surjection(declared, T)
  BY DEF Surjection
<1>3. IsFiniteSet(T)
  BY <1>1, <1>2, FS_Surjection
<1>4. ASSUME NEW q \in declared PROVE IsFiniteSet({q} \X (1..Asked[r][q].concurrency))
  <2>1. Asked[r][q].concurrency \in Int
    BY DEF Topology!TopologyAssumption
  <2>2. IsFiniteSet({q})
    BY FS_Singleton
  <2>3. IsFiniteSet(1..Asked[r][q].concurrency)
    BY <2>1, FS_Interval
  <2> QED BY <2>2, <2>3, FS_Product
<1>5. \A t \in T : IsFiniteSet(t)
  BY <1>4
<1> HIDE DEF T
<1>6. IsFiniteSet(UNION T)
  BY <1>3, <1>5, FS_UNION
<1> USE DEF T
<1>7. Topology!Slots(r, declared) = UNION T
  BY DEF Topology!Slots
<1>8. Topology!Slots(r, qs) \subseteq Topology!Slots(r, declared)
  BY DEF Topology!Slots
<1> HIDE DEF T
<1> QED BY <1>6, <1>7, <1>8, FS_Subset, FS_CardinalityType

\* What a plan grants its queues.
LEMMA TopologyPlans ==
    ASSUME Topology!TopologyAssumption, NEW r \in Replicas, NEW declared \in SUBSET Queues,
           NEW plan,
           plan = Topology!PlanFor(r, declared)
    PROVE  /\ plan.maxPerSubject \in Nat /\ plan.maxDeliver \in Nat /\ plan.maxAckPending \in Nat
           /\ \A q \in declared : Asked[r][q].maxLen <= plan.maxPerSubject
                                  /\ Asked[r][q].maxRetries < plan.maxDeliver
           /\ Cardinality(Topology!Slots(r, declared)) <= plan.maxAckPending
           /\ plan.dedicated = declared \cap Dedicated
<1> DEFINE len == [q \in declared |-> Asked[r][q].maxLen]
           retries == [q \in declared |-> Asked[r][q].maxRetries]
           len_ == {Asked[r][q].maxLen : q \in declared}
           retries_ == {Asked[r][q].maxRetries : q \in declared}
<1>0. IsFiniteSet(declared) /\ declared \subseteq Queues
  BY FS_Subset, TopologySets DEF Topology!TopologyAssumption
<1>1. \A q \in declared : Asked[r][q].maxLen \in Nat /\ Asked[r][q].maxRetries \in Nat
  BY DEF Topology!TopologyAssumption
<1>2. len_ = {len[q] : q \in declared} /\ retries_ = {retries[q] : q \in declared}
  OBVIOUS
<1>3. plan.maxPerSubject = Topology!Max({Topology!DefaultMaxLen} \cup len_)
         /\ plan.maxDeliver = Topology!Max({Topology!DefaultMaxRetries} \cup retries_) + 1
      /\ plan.maxAckPending = Topology!Max({Topology!DefaultMaxAckPending,
                                      Cardinality(Topology!Slots(r, declared))})
      /\ plan.dedicated = declared \cap Dedicated
  BY TopologySets DEF Topology!PlanFor
<1>4. Topology!DefaultMaxLen \in Nat /\ Topology!DefaultMaxRetries \in Nat
         /\ Topology!DefaultMaxAckPending \in Nat
  BY DEF Topology!DefaultMaxLen, Topology!DefaultMaxRetries, Topology!DefaultMaxAckPending
<1>5. (\A q \in declared : len[q] = Asked[r][q].maxLen) /\ (\A q \in declared :
         retries[q] = Asked[r][q].maxRetries)
  OBVIOUS
<1> HIDE DEF len, retries, len_, retries_
<1>6. plan.maxPerSubject \in Nat /\ \A q \in declared : len[q] <= plan.maxPerSubject
  BY <1>0, <1>1, <1>2, <1>3, <1>4, <1>5, BoundsOf
<1>7. PICK top \in Nat : top = Topology!Max({Topology!DefaultMaxRetries} \cup retries_)
              /\ \A q \in declared : retries[q] <= top
  BY <1>0, <1>1, <1>2, <1>4, <1>5, BoundsOf
<1>8. plan.maxDeliver \in Nat /\ \A q \in declared : retries[q] < plan.maxDeliver
  <2>1. plan.maxDeliver = top + 1
    BY <1>3, <1>7
  <2>2. \A q \in declared : retries[q] \in Nat
    BY <1>1, <1>5
  <2>3. top + 1 \in Nat /\ \A q \in declared : retries[q] < top + 1
    <3>1. \A q \in declared : retries[q] <= top
      BY <1>7
    <3>2. top \in Nat
      BY <1>7
    <3> HIDE DEF retries
    <3> QED BY <2>2, <3>1, <3>2
  <2> QED BY <2>1, <2>3
<1>9. plan.maxAckPending \in Nat /\ Cardinality(Topology!Slots(r, declared)) <= plan.maxAckPending
  <2> DEFINE c == Cardinality(Topology!Slots(r, declared))
             b == Topology!DefaultMaxAckPending
  <2>1. c \in Nat /\ b \in Nat
    BY <1>4, TopologySlots
  <2> HIDE DEF c, b
  <2>3. Topology!Max({b, c}) \in Nat /\ c <= Topology!Max({b, c})
    <3>1. \E n \in {b, c} : \A k \in {b, c} : n >= k
      BY <2>1
    <3> QED BY <2>1, <3>1 DEF Topology!Max
  <2> QED BY <1>3, <2>3 DEF c, b
<1> QED BY <1>3, <1>5, <1>6, <1>8, <1>9

\* The items of a plan are the stream, the consumer the queues share and those of the
\* dedicated ones.
LEMMA TopologyItems ==
    ASSUME Topology!TopologyAssumption, NEW r \in Replicas, NEW declared \in SUBSET Queues,
           NEW items,
           items = Topology!Items(Topology!PlanFor(r, declared))
    PROVE  /\ Len(items) \in Nat /\ Len(items) >= 2
           /\ items[1] = "stream" /\ items[2] = Topology!Shared
           /\ \A i \in 1..Len(items) : items[i] \in {"stream"} \cup Topology!Durables
           /\ \A d \in declared \cap Dedicated : \E i \in 1..Len(items) : items[i] = d
<1> DEFINE S == declared \cap Dedicated
           f == Topology!SetToSeq(S)
           all == {"stream"} \cup Topology!Durables
           n == Cardinality(S)
<1>1. IsFiniteSet(S)
  BY FS_Subset, TopologySets DEF Topology!TopologyAssumption
<1>2. n \in Nat /\ ExistsBijection(1..n, S)
  BY <1>1, FS_CardinalityType
<1>3. f \in [1..n -> S] /\ Topology!IsInjective(f)
  <2>1. \E g \in [1..n -> S] : Topology!IsInjective(g)
    BY <1>2 DEF ExistsBijection, Bijection, Injection, IsInjective, Topology!IsInjective
  <2> QED BY <2>1, TopologySets DEF Topology!SetToSeq
<1>4. \A d \in S : \E i \in 1..n : f[i] = d
  <2>1. f \in Injection(1..n, S)
    BY <1>3 DEF Injection, IsInjective, Topology!IsInjective
  <2>2. Cardinality(1..n) = n
    <3>1. Cardinality(1..n) = IF 1 > n THEN 0 ELSE n - 1 + 1
      BY <1>2, FS_Interval
    <3> QED BY <1>2, <3>1
  <2>3. f \in Surjection(1..n, S)
    BY <1>1, <2>1, <2>2, FS_Injection
  <2> QED BY <2>3 DEF Surjection
<1>5. f \in Seq(all) /\ Len(f) = n
  <2>1. f \in [1..n -> all]
    BY <1>3 DEF Topology!Durables
  <2> HIDE DEF f, n, all
  <2> QED BY <1>2, <2>1
<1>6. <<"stream", Topology!Shared>> \in Seq(all) /\ Len(<<"stream", Topology!Shared>>) = 2
  BY DEF Topology!Durables
<1>7. items = <<"stream", Topology!Shared>> \o f
  BY DEF Topology!Items, Topology!PlanFor
<1> HIDE DEF f, n, all, S
<1>8. /\ items \in Seq(all) /\ Len(items) = 2 + n
      /\ \A i \in 1..2 + n : items[i] = IF i <= 2 THEN <<"stream", Topology!Shared>>[i] ELSE f[i - 2]
  BY <1>5, <1>6, <1>7, ConcatProperties
<1>9. \A d \in S : \E i \in 1..Len(items) : items[i] = d
  <2> SUFFICES ASSUME NEW d \in S PROVE \E i \in 1..Len(items) : items[i] = d
    OBVIOUS
  <2>1. PICK i \in 1..n : f[i] = d
    BY <1>4
  <2>2. i + 2 \in 1..2 + n /\ ~(i + 2 <= 2) /\ (i + 2) - 2 = i
    BY <1>2
  <2> QED BY <1>8, <2>1, <2>2
<1>10. items[1] = "stream" /\ items[2] = Topology!Shared
  BY <1>2, <1>8
<1>11. \A i \in 1..Len(items) : items[i] \in all
  BY <1>8, ElementOfSeq
<1> QED BY <1>2, <1>8, <1>9, <1>10, <1>11 DEF all, S

\* An item is the stream or a consumer, and is granted naturals.
LEMMA TopologyRuns ==
    ASSUME Topology!TopologyAssumption, NEW run \in Topology!Runs, NEW plan, NEW items,
           plan = Topology!Plan(run), items = Topology!Items(plan)
    PROVE  /\ run.by \in Replicas /\ run.queues \in SUBSET Queues /\ run.held \in Topology!Grants
                 /\ run.at \in Nat
           /\ plan = Topology!PlanFor(run.by, run.queues)
           /\ Len(items) \in Nat /\ Len(items) >= 2
           /\ \A i \in 1..Len(items) : items[i] \in {"stream"} \cup Topology!Durables
           /\ \A i \in {"stream"} \cup Topology!Durables : Topology!Granted(plan, i) \in Topology!Grants
<1>1. run.by \in Replicas /\ run.queues \in SUBSET Queues /\ run.held \in Topology!Grants
         /\ run.at \in Nat
  BY DEF Topology!Runs
<1>2. plan = Topology!PlanFor(run.by, run.queues)
  BY DEF Topology!Plan
<1>3. plan.maxPerSubject \in Nat /\ plan.maxDeliver \in Nat /\ plan.maxAckPending \in Nat
  BY <1>1, <1>2, TopologyPlans
<1>4. /\ Len(items) \in Nat /\ Len(items) >= 2
      /\ \A i \in 1..Len(items) : items[i] \in {"stream"} \cup Topology!Durables
  BY <1>1, <1>2, TopologyItems
<1>5. \A i \in {"stream"} \cup Topology!Durables : Topology!Granted(plan, i) \in Topology!Grants
  BY <1>3 DEF Topology!Granted, Topology!Grants
<1> QED BY <1>1, <1>2, <1>4, <1>5

\* What the stream and the consumers have are naturals.
LEMMA TopologyBounds ==
    ASSUME Topology!TypeOK
    PROVE  /\ Topology!Bounds \in [{"stream"} \cup Topology!Durables -> Topology!Grants]
           /\ \A i \in {"stream"} \cup Topology!Durables : Topology!Bounds[i] = Topology!Held(i)
<1>1. \A i \in {"stream"} \cup Topology!Durables : Topology!Held(i) \in Topology!Grants
  BY DEF Topology!Held, Topology!Grants, Topology!TypeOK
<1> QED BY <1>1 DEF Topology!Bounds

\* Bounds that only grow leave a provisioning as it should be.
LEMMA TopologyGrows ==
    ASSUME Topology!TopologyAssumption, NEW run \in Topology!Runs,
           NEW old \in [{"stream"} \cup Topology!Durables -> Topology!Grants],
           NEW new \in [{"stream"} \cup Topology!Durables -> Topology!Grants],
           NEW race \in BOOLEAN, NEW race2 \in BOOLEAN, NEW kept, NEW kept2,
           Topology!InOrder(run, old, race, kept), race => race2, kept \subseteq kept2,
           race2 \/ \A i \in {"stream"} \cup Topology!Durables : Topology!Within(old[i], new[i])
    PROVE  Topology!InOrder(run, new, race2, kept2)
<1> DEFINE plan == Topology!Plan(run)
           items == Topology!Items(plan)
<1>1. /\ run.held \in Topology!Grants
      /\ \A i \in 1..Len(items) : items[i] \in {"stream"} \cup Topology!Durables
            /\ Topology!Granted(plan, items[i]) \in Topology!Grants
  BY TopologyRuns
<1>2. /\ run.state \in {"info", "write"} => run.at \in 1..Len(items)
      /\ run.state = "write" => race \/ Topology!Within(run.held, old[items[run.at]])
      /\ \/ race \/ run.by \in kept
         \/ \A i \in 1..Len(items) : Topology!Behind(run, i) =>
               Topology!Within(Topology!Granted(plan, items[i]), old[items[i]])
  BY DEF Topology!InOrder
<1> HIDE DEF plan, items
<1>3. CASE race2
  BY <1>2, <1>3 DEF Topology!InOrder, plan, items
<1>4. CASE ~race2
  <2>1. ASSUME NEW low \in Topology!Grants, NEW i \in 1..Len(items), Topology!Within(low, old[items[i]])
        PROVE  Topology!Within(low, new[items[i]])
    <3>1. \A a, b, c \in Topology!Grants : Topology!Within(a, b) /\ Topology!Within(b, c) =>
             Topology!Within(a, c)
      BY DEF Topology!Within, Topology!Grants
    <3>2. Topology!Within(old[items[i]], new[items[i]]) /\ old[items[i]] \in Topology!Grants
             /\ new[items[i]] \in Topology!Grants
      BY <1>1, <1>4
    <3> QED BY <2>1, <3>1, <3>2
  <2>2. run.state = "write" => Topology!Within(run.held, new[items[run.at]])
    BY <1>1, <1>2, <1>4, <2>1
  <2>3. \/ run.by \in kept2
        \/ \A i \in 1..Len(items) : Topology!Behind(run, i) =>
              Topology!Within(Topology!Granted(plan, items[i]), new[items[i]])
    BY <1>1, <1>2, <1>4, <2>1
  <2> QED BY <1>2, <2>2, <2>3 DEF Topology!InOrder, plan, items
<1> QED BY <1>3, <1>4

\* Nothing is declared or provisioned at first.
LEMMA TopologyStarts == ASSUME Topology!TopologyAssumption PROVE Topology!Init => Topology!IInv
<1> SUFFICES ASSUME Topology!Init PROVE Topology!IInv
  OBVIOUS
<1>1. Topology!TypeOK
  <2>1. Topology!NoRun \in Topology!Runs
    BY DEF Topology!NoRun, Topology!Nothing, Topology!Runs, Topology!Grants,
       Topology!TopologyAssumption
  <2>2. Topology!Nothing \in Topology!Grants
    BY DEF Topology!Nothing, Topology!Grants
  <2>3. 0 \in 0..MaxRuns /\ 0 \in 0..MaxTopologyFaults
    BY DEF Topology!TopologyAssumption
  <2> QED BY <2>1, <2>2, <2>3 DEF Topology!Init, Topology!TypeOK
<1>2. \A n \in Topology!Numbers : provisioning[n].state = "unused"
  BY DEF Topology!Init, Topology!NoRun
<1>3. \A r \in Replicas : process[r].ready = 0
  BY DEF Topology!Init
<1>4. Topology!EachInOrder
  BY <1>2 DEF Topology!EachInOrder, Topology!InOrder, Topology!Behind
<1> QED BY <1>1, <1>2, <1>3, <1>4 DEF Topology!IInv, Topology!OwnRemembered,
           Topology!QueuesGetWhatTheyAsked, Topology!Remembered

\* What its plan grants is enough for its queues.
LEMMA TopologyFits ==
    ASSUME Topology!TopologyAssumption, Topology!TypeOK, NEW n \in Topology!Numbers,
           \A i \in 1..Len(Topology!Items(Topology!Plan(provisioning[n]))) :
              Topology!Within(Topology!Granted(Topology!Plan(provisioning[n]),
                                                 Topology!Items(Topology!Plan(provisioning[n]))[i]),
                     Topology!Held(Topology!Items(Topology!Plan(provisioning[n]))[i]))
    PROVE  Topology!Fits(provisioning[n])
<1> DEFINE run == provisioning[n]
           plan == Topology!PlanFor(run.by, run.queues)
           items == Topology!Items(plan)
           asked == Asked[run.by]
           sharing(d) == IF d = Topology!Shared THEN run.queues \ Dedicated ELSE {d} \cap run.queues
<1>1. run.by \in Replicas /\ run.queues \in SUBSET Queues
  BY DEF Topology!TypeOK, Topology!Runs
<1>2. /\ plan.maxPerSubject \in Nat /\ plan.maxDeliver \in Nat /\ plan.maxAckPending \in Nat
      /\ \A q \in run.queues : asked[q].maxLen <= plan.maxPerSubject
            /\ asked[q].maxRetries < plan.maxDeliver
      /\ Cardinality(Topology!Slots(run.by, run.queues)) <= plan.maxAckPending
  BY <1>1, TopologyPlans
<1>3. /\ Len(items) \in Nat /\ Len(items) >= 2 /\ items[1] = "stream" /\ items[2] = Topology!Shared
      /\ \A d \in run.queues \cap Dedicated : \E i \in 1..Len(items) : items[i] = d
  BY <1>1, TopologyItems
<1>4. \A i \in 1..Len(items) :
         Topology!Within(Topology!Granted(plan, items[i]), Topology!Held(items[i]))
  BY DEF Topology!Plan
<1> HIDE DEF plan, items
<1>5. /\ stream \in Nat /\ consumer \in [Topology!Durables -> Topology!Grants]
      /\ \A q \in run.queues : asked[q].maxLen \in Nat /\ asked[q].maxRetries \in Nat
  BY <1>1 DEF Topology!TypeOK, Topology!TopologyAssumption
<1>6. plan.maxPerSubject <= stream
  <2>1. Topology!Within(Topology!Granted(plan, "stream"), Topology!Held("stream"))
    BY <1>3, <1>4
  <2> QED BY <2>1 DEF Topology!Within, Topology!Granted, Topology!Held
<1>7. ASSUME NEW d \in Topology!Durables, d # "stream", NEW i \in 1..Len(items), items[i] = d
      PROVE  plan.maxDeliver <= consumer[d].deliver /\ plan.maxAckPending <= consumer[d].pending
  BY <1>4, <1>7 DEF Topology!Within, Topology!Granted, Topology!Held
<1>8. \A q \in run.queues : stream >= asked[q].maxLen
  BY <1>2, <1>5, <1>6
<1>9. ASSUME NEW d \in Topology!Durables
      PROVE  /\ \A q \in sharing(d) : consumer[d].deliver > asked[q].maxRetries
             /\ consumer[d].pending >= Cardinality(Topology!Slots(run.by, sharing(d)))
  <2>1. sharing(d) \in SUBSET run.queues
    OBVIOUS
  <2>2. consumer[d].deliver \in Nat /\ consumer[d].pending \in Nat
    BY <1>5 DEF Topology!Grants
  <2>3. CASE \E i \in 1..Len(items) : items[i] = d
    <3>0. d # "stream"
      BY DEF Topology!Durables, Topology!Shared, Topology!TopologyAssumption
    <3>1. plan.maxDeliver <= consumer[d].deliver /\ plan.maxAckPending <= consumer[d].pending
      BY <1>7, <2>3, <3>0
    <3>2. /\ Cardinality(Topology!Slots(run.by, run.queues)) \in Nat
          /\ Cardinality(Topology!Slots(run.by, sharing(d)))
                <= Cardinality(Topology!Slots(run.by, run.queues))
          /\ Cardinality(Topology!Slots(run.by, sharing(d))) \in Nat
      <4>1. sharing(d) \in SUBSET Queues /\ sharing(d) \in SUBSET sharing(d)
        BY <1>1, <2>1
      <4> HIDE DEF sharing
      <4> QED BY <1>1, <2>1, <4>1, TopologySlots
    <3>3. \A q \in sharing(d) : consumer[d].deliver > asked[q].maxRetries
      <4> HIDE DEF sharing, asked
      <4> QED BY <1>2, <1>5, <2>1, <2>2, <3>1
    <3> HIDE DEF sharing
    <3> QED BY <1>2, <2>2, <3>1, <3>2, <3>3
  <2>4. CASE ~ \E i \in 1..Len(items) : items[i] = d
    <3>1. d # Topology!Shared
      BY <1>3, <2>4
    <3>2. d \in Dedicated /\ d \notin run.queues
      BY <1>3, <2>4, <3>1 DEF Topology!Durables
    <3>3. sharing(d) = {}
      BY <3>1, <3>2
    <3> HIDE DEF sharing
    <3>4. Topology!Slots(run.by, sharing(d)) = {}
      BY <3>3 DEF Topology!Slots
    <3>5. Cardinality(Topology!Slots(run.by, sharing(d))) = 0
      BY <3>4, FS_EmptySet
    <3> HIDE DEF asked
    <3> QED BY <2>2, <3>3, <3>5
  <2> QED BY <2>3, <2>4
<1> QED BY <1>8, <1>9, TopologySets DEF Topology!Fits

\* A provisioning that is done grants its queues what they asked for.
LEMMA TopologyGranted ==
    ASSUME Topology!TopologyAssumption, Topology!TypeOK, Topology!OwnRemembered,
           Topology!EachInOrder
    PROVE  Topology!QueuesGetWhatTheyAsked
<1>1. Topology!Remembered
  BY DEF Topology!Remembered, Topology!OwnRemembered
<1>2. ASSUME NEW n \in Topology!Numbers, provisioning[n].state = "done", ~raced, provisioning[n].by \notin narrowed
      PROVE  Topology!Fits(provisioning[n])
  <2> DEFINE plan == Topology!Plan(provisioning[n])
             items == Topology!Items(plan)
  <2>1. \A i \in 1..Len(items) :
           Topology!Within(Topology!Granted(plan, items[i]), Topology!Bounds[items[i]])
    BY <1>2 DEF Topology!EachInOrder, Topology!InOrder, Topology!Behind
  <2>2. \A i \in 1..Len(items) : items[i] \in {"stream"} \cup Topology!Durables
    <3>1. provisioning[n] \in Topology!Runs
      BY DEF Topology!TypeOK
    <3> QED BY <3>1, TopologyRuns
  <2>3. \A i \in 1..Len(items) : Topology!Bounds[items[i]] = Topology!Held(items[i])
    BY <2>2, TopologyBounds
  <2> QED BY <2>1, <2>3, TopologyFits
<1> QED BY <1>1, <1>2 DEF Topology!QueuesGetWhatTheyAsked

\* A step that lowers no bound, but for a race, keeps the invariant if every provisioning
\* it moves is as it should be after it.
LEMMA TopologyMoves ==
    ASSUME Topology!TopologyAssumption, Topology!IInv, Topology!TypeOK', Topology!OwnRemembered',
           raced => raced', narrowed \subseteq narrowed',
           raced' \/ \A i \in {"stream"} \cup Topology!Durables : Topology!Within(Topology!Bounds[i],
              Topology!Bounds'[i]),
           \A n \in Topology!Numbers : provisioning'[n] # provisioning[n] =>
              Topology!InOrder(provisioning'[n], Topology!Bounds', raced', narrowed')
    PROVE  Topology!IInv'
<1>1. Topology!Bounds \in [{"stream"} \cup Topology!Durables -> Topology!Grants] /\ raced \in BOOLEAN
  BY TopologyBounds DEF Topology!IInv, Topology!TypeOK
<1>2. Topology!Bounds' \in [{"stream"} \cup Topology!Durables -> Topology!Grants]
  <2>1. stream' \in Nat /\ consumer' \in [Topology!Durables -> Topology!Grants]
    BY DEF Topology!TypeOK
  <2> QED BY <2>1 DEF Topology!Bounds, Topology!Held, Topology!Grants
<1>3. raced' \in BOOLEAN
  BY DEF Topology!TypeOK
<1>4. ASSUME NEW n \in Topology!Numbers
      PROVE  Topology!InOrder(provisioning'[n], Topology!Bounds', raced', narrowed')
  <2>1. CASE provisioning'[n] = provisioning[n]
    <3>1. provisioning[n] \in Topology!Runs /\ Topology!InOrder(provisioning[n],
             Topology!Bounds, raced, narrowed)
      BY DEF Topology!IInv, Topology!TypeOK, Topology!EachInOrder
    <3>2. Topology!InOrder(provisioning[n], Topology!Bounds', raced', narrowed')
      BY <1>1, <1>2, <1>3, <3>1, TopologyGrows
    <3> QED BY <2>1, <3>2
  <2>2. CASE provisioning'[n] # provisioning[n]
    BY <2>2
  <2> QED BY <2>1, <2>2
<1>5. Topology!EachInOrder'
  BY <1>4 DEF Topology!EachInOrder
<1>6. Topology!QueuesGetWhatTheyAsked'
  BY <1>5, TopologyGranted, PTL
<1> QED BY <1>5, <1>6 DEF Topology!IInv

\* So does one that leaves the stream and the consumers alone.
LEMMA TopologyStays ==
    ASSUME Topology!TopologyAssumption, Topology!IInv, Topology!TypeOK', Topology!OwnRemembered',
           UNCHANGED <<stream, consumer, raced>>,
           narrowed \subseteq narrowed',
           \A n \in Topology!Numbers : provisioning'[n] # provisioning[n] =>
              Topology!InOrder(provisioning'[n], Topology!Bounds, raced, narrowed')
    PROVE  Topology!IInv'
<1>1. Topology!Bounds' = Topology!Bounds
  BY DEF Topology!Bounds, Topology!Held
<1>2. \A i \in {"stream"} \cup Topology!Durables : Topology!Within(Topology!Bounds[i],
         Topology!Bounds[i])
  <2>1. Topology!Bounds \in [{"stream"} \cup Topology!Durables -> Topology!Grants]
    BY TopologyBounds DEF Topology!IInv
  <2>2. \A a \in Topology!Grants : Topology!Within(a, a)
    BY DEF Topology!Within, Topology!Grants
  <2> QED BY <2>1, <2>2
<1> QED BY <1>1, <1>2, TopologyMoves

\* A queue that is declared changes no provisioning: it is of another plan.
LEMMA TopologyDeclares ==
    ASSUME Topology!TopologyAssumption, Topology!IInv, NEW r \in Replicas, NEW q \in Queues,
           Topology!Declare(r, q)
    PROVE  Topology!IInv'
<1>1. Topology!TypeOK'
  BY DEF Topology!IInv, Topology!TypeOK, Topology!Declare
<1>2. Topology!OwnRemembered'
  BY DEF Topology!IInv, Topology!TypeOK, Topology!OwnRemembered, Topology!Declare
<1> QED BY <1>1, <1>2, TopologyStays DEF Topology!Declare

\* The connection is no part of what is provisioned.
LEMMA TopologyDials ==
    ASSUME Topology!TopologyAssumption, Topology!IInv, NEW r \in Replicas, NEW ok \in BOOLEAN,
           Topology!Dial(r, ok)
    PROVE  Topology!IInv'
<1>1. Topology!TypeOK'
  <2>1. topologyFaults' \in 0..MaxTopologyFaults
    BY DEF Topology!IInv, Topology!TypeOK, Topology!Dial, Topology!TopologyAssumption
  <2>2. process' \in [Replicas -> [declared : SUBSET Queues, connection : {"none", "open", "rejected"},
                                   ready : 0..MaxRuns]]
    BY DEF Topology!IInv, Topology!TypeOK, Topology!Dial
  <2> QED BY <2>1, <2>2 DEF Topology!IInv, Topology!TypeOK, Topology!Dial
<1>2. Topology!OwnRemembered'
  BY DEF Topology!IInv, Topology!TypeOK, Topology!OwnRemembered, Topology!Dial
<1> QED BY <1>1, <1>2, TopologyStays DEF Topology!Dial

\* A provisioning begins at its first item, with nothing behind it.
LEMMA TopologyEnsures ==
    ASSUME Topology!TopologyAssumption, Topology!IInv, NEW r \in Replicas,
           Topology!Ensure(r)
    PROVE  Topology!IInv'
<1>1. PICK n \in Topology!Unused :
         /\ process' = [process EXCEPT ![r].ready = n]
         /\ provisioning' = [provisioning EXCEPT ![n] =
               [by |-> r, state |-> "info",
                  queues |-> process[r].declared, at |-> 1, held |-> Topology!Nothing]]
  BY DEF Topology!Ensure
<1>2. n \in Topology!Numbers /\ n \in 0..MaxRuns /\ n # 0 /\ provisioning[n].state = "unused"
  BY DEF Topology!Unused, Topology!Numbers
<1>3. provisioning'[n] =
         [by |-> r, state |-> "info",
            queues |-> process[r].declared, at |-> 1, held |-> Topology!Nothing]
      /\ \A k \in Topology!Numbers \ {n} : provisioning'[k] = provisioning[k]
  BY <1>1, <1>2 DEF Topology!IInv, Topology!TypeOK
<1>4. provisioning'[n] \in Topology!Runs
  <2>1. process[r].declared \in SUBSET Queues
    BY DEF Topology!IInv, Topology!TypeOK
  <2> QED BY <1>3, <2>1 DEF Topology!Runs, Topology!Grants, Topology!Nothing
<1>5. Topology!TypeOK'
  <2>1. provisioning' \in [Topology!Numbers -> Topology!Runs]
    BY <1>1, <1>3, <1>4 DEF Topology!IInv, Topology!TypeOK
  <2>2. process' \in [Replicas -> [declared : SUBSET Queues, connection : {"none", "open", "rejected"},
                                   ready : 0..MaxRuns]]
    BY <1>1, <1>2 DEF Topology!IInv, Topology!TypeOK
  <2> QED BY <2>1, <2>2 DEF Topology!IInv, Topology!TypeOK, Topology!Ensure
<1>6. Topology!OwnRemembered'
  <2> SUFFICES ASSUME NEW s \in Replicas, process'[s].ready # 0
               PROVE  /\ provisioning'[process'[s].ready].by = s
                      /\ provisioning'[process'[s].ready].state \in {"info", "write", "done"}
    BY DEF Topology!OwnRemembered
  <2>1. CASE s = r
    <3>1. process'[r].ready = n
      BY <1>1 DEF Topology!IInv, Topology!TypeOK
    <3> QED BY <1>3, <2>1, <3>1
  <2>2. CASE s # r
    <3>1. process'[s].ready = process[s].ready
      BY <1>1, <2>2 DEF Topology!IInv, Topology!TypeOK
    <3>2. process[s].ready \in Topology!Numbers
      BY <3>1 DEF Topology!IInv, Topology!TypeOK, Topology!Numbers
    <3>3. /\ provisioning[process[s].ready].by = s
          /\ provisioning[process[s].ready].state \in {"info", "write", "done"}
      BY <3>1 DEF Topology!IInv, Topology!OwnRemembered
    <3> QED BY <1>2, <1>3, <3>1, <3>2, <3>3
  <2> QED BY <2>1, <2>2
<1>7. Topology!InOrder(provisioning'[n], Topology!Bounds, raced, narrowed')
  <2> DEFINE run == provisioning'[n]
  <2>1. Len(Topology!Items(Topology!Plan(run))) \in Nat /\ Len(Topology!Items(Topology!Plan(run))) >= 2
    BY <1>4, TopologyRuns
  <2>2. run.at = 1 /\ run.state = "info"
    BY <1>3
  <2> HIDE DEF run
  <2>3. run.at \in 1..Len(Topology!Items(Topology!Plan(run)))
    BY <2>1, <2>2
  <2>4. \A i \in 1..Len(Topology!Items(Topology!Plan(run))) : ~Topology!Behind(run, i)
    BY <2>1, <2>2 DEF Topology!Behind
  <2>5. Topology!InOrder(run, Topology!Bounds, raced, narrowed')
    BY <2>2, <2>3, <2>4 DEF Topology!InOrder
  <2> QED BY <2>5 DEF run
<1> QED BY <1>3, <1>5, <1>6, <1>7, TopologyStays DEF Topology!Ensure

\* What fails is neither remembered nor behind anything.
LEMMA TopologyFailures ==
    ASSUME Topology!TopologyAssumption, Topology!IInv, NEW n \in Topology!Numbers,
           provisioning[n].state # "unused", Topology!Failed(n),
           UNCHANGED <<stream, consumer, raced, narrowed>>, topologyFaults' \in 0..MaxTopologyFaults
    PROVE  Topology!IInv'
<1> DEFINE by == provisioning[n].by
<1>1. provisioning[n] \in Topology!Runs /\ by \in Replicas
  BY DEF Topology!IInv, Topology!TypeOK, Topology!Runs
<1>2. /\ provisioning'[n] \in Topology!Runs /\ provisioning'[n].state = "failed"
      /\ \A k \in Topology!Numbers \ {n} : provisioning'[k] = provisioning[k]
      /\ provisioning' \in [Topology!Numbers -> Topology!Runs]
  BY <1>1 DEF Topology!Failed, Topology!IInv, Topology!TypeOK, Topology!Runs, Topology!Grants,
     Topology!Nothing
<1>3. /\ process'[by].ready = 0
      /\ \A s \in Replicas \ {by} : process'[s] = process[s]
      /\ process' \in [Replicas -> [declared : SUBSET Queues, connection : {"none", "open", "rejected"},
                                    ready : 0..MaxRuns]]
  <2>1. process' = [process EXCEPT ![by].ready = 0]
    BY DEF Topology!Failed
  <2>2. process \in [Replicas -> [declared : SUBSET Queues, connection : {"none", "open", "rejected"},
                                  ready : 0..MaxRuns]]
    BY DEF Topology!IInv, Topology!TypeOK
  <2>3. 0 \in 0..MaxRuns
    BY DEF Topology!TopologyAssumption
  <2> HIDE DEF by
  <2> QED BY <1>1, <2>1, <2>2, <2>3
<1>4. Topology!TypeOK'
  BY <1>2, <1>3 DEF Topology!IInv, Topology!TypeOK
<1>5. Topology!OwnRemembered'
  <2> SUFFICES ASSUME NEW s \in Replicas, process'[s].ready # 0
               PROVE  /\ provisioning'[process'[s].ready].by = s
                      /\ provisioning'[process'[s].ready].state \in {"info", "write", "done"}
    BY DEF Topology!OwnRemembered
  <2>1. s # by /\ process'[s] = process[s]
    BY <1>3
  <2>2. process[s].ready \in Topology!Numbers
    BY <2>1 DEF Topology!IInv, Topology!TypeOK, Topology!Numbers
  <2>3. /\ provisioning[process[s].ready].by = s
        /\ provisioning[process[s].ready].state \in {"info", "write", "done"}
    BY <2>1 DEF Topology!IInv, Topology!OwnRemembered
  <2> QED BY <1>2, <2>1, <2>2, <2>3
<1>6. Topology!InOrder(provisioning'[n], Topology!Bounds, raced, narrowed')
  BY <1>2 DEF Topology!InOrder, Topology!Behind
<1> QED BY <1>2, <1>4, <1>5, <1>6, TopologyStays

\* A provisioning that goes on to the next item, or is done, has every item before it.
LEMMA TopologyAdvances ==
    ASSUME Topology!TopologyAssumption, NEW run \in Topology!Runs, NEW next, NEW bounds,
           NEW race, NEW kept, NEW kept2,
           run.state = "write", Topology!InOrder(run, bounds, race, kept), kept \subseteq kept2,
           next.by = run.by, next.queues = run.queues,
           IF run.at = Len(Topology!Items(Topology!Plan(run))) THEN next.state = "done"
              /\ next.at = run.at
                                             ELSE next.state = "info" /\ next.at = run.at + 1,
           \/ race \/ run.by \in kept2
           \/ Topology!Within(Topology!Granted(Topology!Plan(run),
                                               Topology!Items(Topology!Plan(run))[run.at]),
                              bounds[Topology!Items(Topology!Plan(run))[run.at]])
    PROVE  Topology!InOrder(next, bounds, race, kept2)
<1> DEFINE plan == Topology!Plan(run)
           items == Topology!Items(plan)
<1>1. Topology!Plan(next) = plan
  BY DEF Topology!Plan
<1>2. Len(items) \in Nat /\ run.at \in 1..Len(items)
  BY TopologyRuns DEF Topology!InOrder
<1>3. \/ race \/ run.by \in kept
      \/ \A i \in 1..Len(items) : Topology!Behind(run, i) =>
            Topology!Within(Topology!Granted(plan, items[i]), bounds[items[i]])
  BY DEF Topology!InOrder
<1>4. next.by = run.by /\ next.queues = run.queues
  OBVIOUS
<1>5. IF run.at = Len(items) THEN next.state = "done" /\ next.at = run.at
                             ELSE next.state = "info" /\ next.at = run.at + 1
  OBVIOUS
<1>6. \/ race \/ run.by \in kept2
      \/ Topology!Within(Topology!Granted(plan, items[run.at]), bounds[items[run.at]])
  OBVIOUS
<1> HIDE DEF plan, items
<1>7. \A i \in 1..Len(items) : Topology!Behind(next, i) => Topology!Behind(run, i) \/ i = run.at
  BY <1>2, <1>5 DEF Topology!Behind
<1>8. \/ race \/ next.by \in kept2
      \/ \A i \in 1..Len(items) : Topology!Behind(next, i) =>
            Topology!Within(Topology!Granted(plan, items[i]), bounds[items[i]])
  BY <1>3, <1>4, <1>6, <1>7
<1>9. next.state \in {"info", "write"} => next.at \in 1..Len(items)
  BY <1>2, <1>5
<1>10. next.state # "write"
  BY <1>5
<1> QED BY <1>1, <1>8, <1>9, <1>10 DEF Topology!InOrder, items

\* What a step does of its provisioning only, the rest of the types follow from.
LEMMA TopologyOwn ==
    ASSUME Topology!IInv, NEW n \in Topology!Numbers, process' = process,
           provisioning'[n].by = provisioning[n].by,
           provisioning'[n].state \in {"info", "write", "done"},
           \A k \in Topology!Numbers \ {n} : provisioning'[k] = provisioning[k]
    PROVE  Topology!OwnRemembered'
<1> SUFFICES ASSUME NEW s \in Replicas, process'[s].ready # 0
             PROVE  /\ provisioning'[process'[s].ready].by = s
                    /\ provisioning'[process'[s].ready].state \in {"info", "write", "done"}
  BY DEF Topology!OwnRemembered
<1>1. process[s].ready \in Topology!Numbers
  BY DEF Topology!IInv, Topology!TypeOK, Topology!Numbers
<1>2. /\ provisioning[process[s].ready].by = s
      /\ provisioning[process[s].ready].state \in {"info", "write", "done"}
  BY DEF Topology!IInv, Topology!OwnRemembered
<1> QED BY <1>1, <1>2

\* What is read of an item is what it has, or nothing, so no more than it.
LEMMA TopologyInfos ==
    ASSUME Topology!TopologyAssumption, Topology!IInv, NEW n \in Topology!Numbers,
           NEW ok \in BOOLEAN, Topology!Info(n, ok)
    PROVE  Topology!IInv'
<1> DEFINE run == provisioning[n]
           items == Topology!Items(Topology!Plan(run))
           held == IF ok THEN Topology!Held(Topology!Item(n)) ELSE Topology!Nothing
<1>1. run \in Topology!Runs /\ run.state = "info"
         /\ Topology!InOrder(run, Topology!Bounds, raced, narrowed)
  BY DEF Topology!IInv, Topology!TypeOK, Topology!EachInOrder, Topology!Info
<1>2. run.at \in 1..Len(items) /\ items[run.at] \in {"stream"} \cup Topology!Durables
  <2>1. run.at \in 1..Len(items)
    BY <1>1 DEF Topology!InOrder
  <2> QED BY <1>1, <2>1, TopologyRuns
<1>3. Topology!Bounds \in [{"stream"} \cup Topology!Durables -> Topology!Grants]
         /\ Topology!Held(items[run.at]) = Topology!Bounds[items[run.at]]
  BY <1>2, TopologyBounds DEF Topology!IInv
<1>4. held \in Topology!Grants /\ Topology!Within(held, Topology!Bounds[items[run.at]])
  <2>1. Topology!Held(Topology!Item(n)) = Topology!Bounds[items[run.at]]
    BY <1>3 DEF Topology!Item
  <2>2. Topology!Bounds[items[run.at]] \in Topology!Grants
    BY <1>2, <1>3
  <2>3. \A a \in Topology!Grants : Topology!Within(a, a) /\ Topology!Within(Topology!Nothing, a)
    BY DEF Topology!Within, Topology!Grants, Topology!Nothing
  <2>4. Topology!Nothing \in Topology!Grants
    BY DEF Topology!Grants, Topology!Nothing
  <2> QED BY <2>1, <2>2, <2>3, <2>4
<1>5. provisioning' = [provisioning EXCEPT ![n].state = "write", ![n].held = held]
  BY DEF Topology!Info
<1> HIDE DEF held
<1>6. /\ provisioning' \in [Topology!Numbers -> Topology!Runs]
      /\ provisioning'[n].by = run.by /\ provisioning'[n].queues = run.queues
            /\ provisioning'[n].at = run.at
      /\ provisioning'[n].state = "write" /\ provisioning'[n].held = held
      /\ \A k \in Topology!Numbers \ {n} : provisioning'[k] = provisioning[k]
  BY <1>1, <1>4, <1>5 DEF Topology!IInv, Topology!TypeOK, Topology!Runs
<1>7. Topology!TypeOK'
  <2>1. topologyFaults' \in 0..MaxTopologyFaults
    BY DEF Topology!IInv, Topology!TypeOK, Topology!Info, Topology!TopologyAssumption
  <2> QED BY <1>6, <2>1 DEF Topology!IInv, Topology!TypeOK, Topology!Info
<1>8. Topology!OwnRemembered'
  BY <1>6, TopologyOwn DEF Topology!Info
<1>9. Topology!InOrder(provisioning'[n], Topology!Bounds, raced, narrowed')
  <2> DEFINE next == provisioning'[n]
  <2>1. Topology!Plan(next) = Topology!Plan(run)
    BY <1>6 DEF Topology!Plan
  <2>2. /\ next.by = run.by /\ next.at = run.at /\ next.state = "write" /\ next.held = held
    BY <1>6
  <2>3. \A i : Topology!Behind(next, i) => Topology!Behind(run, i)
    BY <1>1, <2>2 DEF Topology!Behind
  <2>4. narrowed' = narrowed
    BY DEF Topology!Info
  <2>5. \/ raced \/ run.by \in narrowed
        \/ \A i \in 1..Len(items) : Topology!Behind(run, i) =>
              Topology!Within(Topology!Granted(Topology!Plan(run), items[i]), Topology!Bounds[items[i]])
    BY <1>1 DEF Topology!InOrder
  <2> HIDE DEF next, run
  <2>6. \/ raced \/ next.by \in narrowed
        \/ \A i \in 1..Len(items) : Topology!Behind(next, i) =>
              Topology!Within(Topology!Granted(Topology!Plan(run), items[i]), Topology!Bounds[items[i]])
    BY <2>2, <2>3, <2>5
  <2>7. Topology!InOrder(next, Topology!Bounds, raced, narrowed)
    BY <1>2, <1>4, <2>1, <2>2, <2>6 DEF Topology!InOrder, items
  <2> QED BY <2>4, <2>7 DEF next
<1>10. UNCHANGED <<stream, consumer, raced, narrowed>>
  BY DEF Topology!Info
<1> QED BY <1>6, <1>7, <1>8, <1>9, <1>10, TopologyStays

\* What Advance makes of a provisioning.
LEMMA TopologyAdvanced ==
    ASSUME Topology!TopologyAssumption, Topology!IInv, NEW n \in Topology!Numbers,
           provisioning[n].state = "write", Topology!Advance(n)
    PROVE  /\ provisioning' \in [Topology!Numbers -> Topology!Runs]
           /\ \A k \in Topology!Numbers \ {n} : provisioning'[k] = provisioning[k]
           /\ provisioning'[n].by = provisioning[n].by
                 /\ provisioning'[n].queues = provisioning[n].queues
           /\ IF provisioning[n].at = Len(Topology!Items(Topology!Plan(provisioning[n])))
              THEN provisioning'[n].state = "done" /\ provisioning'[n].at = provisioning[n].at
              ELSE provisioning'[n].state = "info" /\ provisioning'[n].at = provisioning[n].at + 1
<1> DEFINE run == provisioning[n]
           last == run.at = Len(Topology!Items(Topology!Plan(run)))
           at == IF last THEN run.at ELSE run.at + 1
           state == IF last THEN "done" ELSE "info"
<1>1. run \in Topology!Runs /\ provisioning \in [Topology!Numbers -> Topology!Runs]
  BY DEF Topology!IInv, Topology!TypeOK
<1>2. provisioning' =
         [provisioning EXCEPT ![n].held = Topology!Nothing, ![n].at = at, ![n].state = state]
  BY DEF Topology!Advance
<1>3. Topology!Nothing \in Topology!Grants /\ at \in Nat /\ state \in {"done", "info"}
  BY <1>1 DEF Topology!Nothing, Topology!Grants, Topology!Runs
<1>4. IF last THEN state = "done" /\ at = run.at ELSE state = "info" /\ at = run.at + 1
  OBVIOUS
<1> HIDE DEF last, at, state
<1>5. /\ provisioning' \in [Topology!Numbers -> Topology!Runs]
      /\ \A k \in Topology!Numbers \ {n} : provisioning'[k] = provisioning[k]
      /\ provisioning'[n].by = run.by /\ provisioning'[n].queues = run.queues
      /\ provisioning'[n].at = at /\ provisioning'[n].state = state
  BY <1>1, <1>2, <1>3 DEF Topology!Runs
<1> QED BY <1>4, <1>5 DEF last

\* A write leaves the item with what its plan grants and lowers no bound, but for a race.
LEMMA TopologyWrites ==
    ASSUME Topology!TopologyAssumption, Topology!IInv, NEW n \in Topology!Numbers,
           Topology!Write(n)
    PROVE  Topology!IInv'
<1> DEFINE run == provisioning[n]
           plan == Topology!Plan(run)
           items == Topology!Items(plan)
           item == items[run.at]
           g == Topology!Granted(plan, item)
           now == Topology!Held(item)
           widened == Topology!Widened(plan, item, run.held)
           after == [f \in {"deliver", "pending"} |-> IF f \in widened THEN g[f] ELSE now[f]]
           all == {"stream"} \cup Topology!Durables
<1>1. run \in Topology!Runs /\ run.state = "write"
         /\ Topology!InOrder(run, Topology!Bounds, raced, narrowed)
  BY DEF Topology!IInv, Topology!TypeOK, Topology!EachInOrder, Topology!Write
<1>2. Topology!Item(n) = item
  BY DEF Topology!Item
<1>3. /\ Topology!Advance(n)
      /\ stream' = IF item = "stream" THEN after.deliver ELSE stream
      /\ consumer' = IF item = "stream" THEN consumer ELSE [consumer EXCEPT ![item] = after]
      /\ raced' = (raced \/ (now # run.held /\ \E f \in widened : after[f] < now[f]))
      /\ UNCHANGED <<process, narrowed, topologyFaults>>
  BY <1>2 DEF Topology!Write
<1>4. run.at \in 1..Len(items) /\ item \in all
  <2>1. run.at \in 1..Len(items)
    BY <1>1 DEF Topology!InOrder
  <2> QED BY <1>1, <2>1, TopologyRuns
<1>5. run.held \in Topology!Grants /\ g \in Topology!Grants
  BY <1>1, <1>4, TopologyRuns
<1>6. Topology!Bounds \in [all -> Topology!Grants] /\ now = Topology!Bounds[item]
         /\ now \in Topology!Grants
  <2>1. Topology!Bounds \in [all -> Topology!Grants] /\ now = Topology!Bounds[item]
    BY <1>4, TopologyBounds DEF Topology!IInv
  <2> QED BY <1>4, <2>1
<1>7. raced \/ Topology!Within(run.held, now)
  BY <1>1, <1>6 DEF Topology!InOrder
<1>8. widened = {f \in {"deliver", "pending"} : run.held[f] < g[f]}
  BY DEF Topology!Widened
<1>9. raced' \in BOOLEAN /\ (raced => raced')
  BY <1>3 DEF Topology!IInv, Topology!TypeOK
<1>10. item = "stream" => after.pending = 0
  <2>1. item = "stream" => g.pending = 0 /\ now.pending = 0
    BY DEF Topology!Granted, Topology!Held
  <2> HIDE DEF g, now, widened, item
  <2> QED BY <2>1
<1>11. PICK made : made = after
  OBVIOUS
<1>12. PICK held : held = run.held
  OBVIOUS
<1> HIDE DEF g, now, widened, item, plan, items, run
<1>13. made \in Topology!Grants
  <2>1. made.deliver \in Nat /\ made.pending \in Nat
    BY <1>5, <1>6, <1>11 DEF Topology!Grants
  <2>2. made = [deliver |-> made.deliver, pending |-> made.pending]
    BY <1>11
  <2> QED BY <2>1, <2>2 DEF Topology!Grants
<1>14. \/ raced'
       \/ Topology!Within(now, made) /\ Topology!Within(g, made)
  <2> SUFFICES ASSUME ~raced' PROVE Topology!Within(now, made) /\ Topology!Within(g, made)
    OBVIOUS
  <2>1. ~raced /\ (now = held \/ \A f \in widened : ~(made[f] < now[f]))
    BY <1>3, <1>11, <1>12
  <2>2. Topology!Within(held, now)
    BY <1>7, <1>12, <2>1
  <2>3. /\ made.deliver = IF held.deliver < g.deliver THEN g.deliver ELSE now.deliver
        /\ made.pending = IF held.pending < g.pending THEN g.pending ELSE now.pending
    BY <1>8, <1>11, <1>12
  <2>4. /\ now = held \/ ~(held.deliver < g.deliver) \/ ~(made.deliver < now.deliver)
        /\ now = held \/ ~(held.pending < g.pending) \/ ~(made.pending < now.pending)
    BY <1>8, <1>12, <2>1
  <2>5. held \in Topology!Grants
    BY <1>5, <1>12
  <2> QED BY <1>5, <1>6, <1>13, <2>2, <2>3, <2>4, <2>5 DEF Topology!Within, Topology!Grants
<1>15. stream' \in Nat /\ consumer' \in [Topology!Durables -> Topology!Grants]
  BY <1>3, <1>4, <1>11, <1>13 DEF Topology!IInv, Topology!TypeOK, Topology!Grants
<1>16. /\ Topology!Bounds' \in [all -> Topology!Grants]
       /\ Topology!Bounds'[item] = made
       /\ \A i \in all \ {item} : Topology!Bounds'[i] = Topology!Bounds[i]
  <2>0. Topology!Bounds' =
           [i \in all |-> IF i = "stream" THEN [deliver |-> stream', pending |-> 0] ELSE consumer'[i]]
    BY DEF Topology!Bounds, Topology!Held
  <2>1. Topology!Bounds' \in [all -> Topology!Grants]
    BY <1>15, <2>0 DEF Topology!Grants
  <2>2. CASE item = "stream"
    <3>1. made = [deliver |-> made.deliver, pending |-> 0]
      BY <1>10, <1>11, <1>13, <2>2 DEF Topology!Grants
    <3>2. stream' = made.deliver /\ consumer' = consumer
      BY <1>3, <1>11, <2>2
    <3> QED BY <1>4, <2>0, <2>1, <2>2, <3>1, <3>2 DEF Topology!Bounds, Topology!Held
  <2>3. CASE item # "stream"
    <3>1. item \in Topology!Durables /\ stream' = stream /\ consumer' = [consumer EXCEPT ![item] = made]
      BY <1>3, <1>4, <1>11, <2>3
    <3>2. consumer'[item] = made /\ \A i \in Topology!Durables \ {item} : consumer'[i] = consumer[i]
      BY <3>1 DEF Topology!IInv, Topology!TypeOK
    <3> QED BY <1>4, <2>0, <2>1, <2>3, <3>1, <3>2 DEF Topology!Bounds, Topology!Held
  <2> QED BY <2>2, <2>3
<1>17. raced' \/ \A i \in all : Topology!Within(Topology!Bounds[i], Topology!Bounds'[i])
  <2>1. \A a \in Topology!Grants : Topology!Within(a, a)
    BY DEF Topology!Within, Topology!Grants
  <2> QED BY <1>6, <1>14, <1>16, <2>1
<1>18. /\ provisioning' \in [Topology!Numbers -> Topology!Runs]
       /\ \A k \in Topology!Numbers \ {n} : provisioning'[k] = provisioning[k]
       /\ provisioning'[n].by = run.by /\ provisioning'[n].queues = run.queues
       /\ IF run.at = Len(Topology!Items(Topology!Plan(run)))
          THEN provisioning'[n].state = "done" /\ provisioning'[n].at = run.at
          ELSE provisioning'[n].state = "info" /\ provisioning'[n].at = run.at + 1
  BY <1>1, <1>3, TopologyAdvanced DEF run
<1>19. Topology!TypeOK'
  BY <1>3, <1>9, <1>15, <1>18 DEF Topology!IInv, Topology!TypeOK
<1>20. Topology!OwnRemembered'
  <2>1. provisioning'[n].state \in {"info", "write", "done"}
    BY <1>18
  <2> QED BY <1>3, <1>18, <2>1, TopologyOwn DEF run
<1>21. Topology!InOrder(provisioning'[n], Topology!Bounds', raced', narrowed')
  <2>1. Topology!InOrder(run, Topology!Bounds', raced', narrowed')
    <3>1. raced \in BOOLEAN /\ narrowed \subseteq narrowed'
      BY <1>3 DEF Topology!IInv, Topology!TypeOK
    <3> QED BY <1>1, <1>6, <1>9, <1>16, <1>17, <3>1, TopologyGrows
  <2>2. raced' \/ Topology!Within(Topology!Granted(Topology!Plan(run),
                                                   Topology!Items(Topology!Plan(run))[run.at]),
                                  Topology!Bounds'[Topology!Items(Topology!Plan(run))[run.at]])
    BY <1>14, <1>16 DEF g, plan, items, item
  <2> QED BY <1>1, <1>18, <2>1, <2>2, TopologyAdvances
<1>22. narrowed \subseteq narrowed'
  BY <1>3
<1> QED BY <1>9, <1>17, <1>18, <1>19, <1>20, <1>21, <1>22, TopologyMoves

\* A refused write fails the provisioning, or leaves its replica among the narrowed.
LEMMA TopologyRefuses ==
    ASSUME Topology!TopologyAssumption, Topology!IInv, NEW n \in Topology!Numbers,
           Topology!WriteRefused(n)
    PROVE  Topology!IInv'
<1> DEFINE run == provisioning[n]
           exists == run.held = Topology!Nothing
              /\ Topology!Held(Topology!Item(n)) \notin
                    {Topology!Nothing, Topology!Granted(Topology!Plan(run), Topology!Item(n))}
<1>1. run \in Topology!Runs /\ run.state = "write"
         /\ Topology!InOrder(run, Topology!Bounds, raced, narrowed)
  BY DEF Topology!IInv, Topology!TypeOK, Topology!EachInOrder, Topology!WriteRefused
<1>2. topologyFaults' \in 0..MaxTopologyFaults /\ UNCHANGED <<stream, consumer, raced>>
  <2>1. /\ exists \/ topologyFaults < MaxTopologyFaults
        /\ topologyFaults' = topologyFaults + IF exists THEN 0 ELSE 1
    BY DEF Topology!WriteRefused
  <2> HIDE DEF exists
  <2> QED BY <2>1 DEF Topology!IInv, Topology!TypeOK, Topology!TopologyAssumption,
             Topology!WriteRefused
<1>3. CASE Topology!Failed(n) /\ UNCHANGED narrowed
  BY <1>1, <1>2, <1>3, TopologyFailures
<1>4. CASE Topology!Advance(n) /\ narrowed' = narrowed \cup {run.by} /\ UNCHANGED process
  <2>1. /\ provisioning' \in [Topology!Numbers -> Topology!Runs]
        /\ \A k \in Topology!Numbers \ {n} : provisioning'[k] = provisioning[k]
        /\ provisioning'[n].by = run.by /\ provisioning'[n].queues = run.queues
        /\ IF run.at = Len(Topology!Items(Topology!Plan(run)))
           THEN provisioning'[n].state = "done" /\ provisioning'[n].at = run.at
           ELSE provisioning'[n].state = "info" /\ provisioning'[n].at = run.at + 1
    BY <1>1, <1>4, TopologyAdvanced
  <2>2. Topology!TypeOK'
    <3>1. run.by \in Replicas
      BY <1>1 DEF Topology!Runs
    <3> QED BY <1>2, <1>4, <2>1, <3>1 DEF Topology!IInv, Topology!TypeOK
  <2>3. Topology!OwnRemembered'
    <3>1. provisioning'[n].state \in {"info", "write", "done"}
      BY <2>1
    <3> QED BY <1>4, <2>1, <3>1, TopologyOwn
  <2>4. Topology!InOrder(provisioning'[n], Topology!Bounds, raced, narrowed')
    <3>1. raced \in BOOLEAN /\ run.by \in narrowed' /\ narrowed \subseteq narrowed'
      BY <1>4 DEF Topology!IInv, Topology!TypeOK
    <3> QED BY <1>1, <2>1, <3>1, TopologyAdvances
  <2> QED BY <1>2, <1>4, <2>1, <2>2, <2>3, <2>4, TopologyStays
<1> QED BY <1>3, <1>4 DEF Topology!WriteRefused

\* So the invariant is inductive.
LEMMA TopologySteps ==
    ASSUME Topology!TopologyAssumption, Topology!IInv, [Topology!Next]_(Topology!topologyVars)
    PROVE  Topology!IInv'
<1>1. ASSUME NEW r \in Replicas, NEW q \in Queues, Topology!Declare(r, q) PROVE Topology!IInv'
  BY <1>1, TopologyDeclares
<1>2. ASSUME NEW r \in Replicas, Topology!Ensure(r) PROVE Topology!IInv'
  BY <1>2, TopologyEnsures
<1>3. ASSUME NEW r \in Replicas, NEW ok \in BOOLEAN, Topology!Dial(r, ok) PROVE Topology!IInv'
  BY <1>3, TopologyDials
<1>4. ASSUME NEW n \in Topology!Numbers, Topology!NoManager(n) PROVE Topology!IInv'
  <2>1. topologyFaults' \in 0..MaxTopologyFaults /\ provisioning[n].state # "unused"
    BY <1>4 DEF Topology!NoManager, Topology!IInv, Topology!TypeOK, Topology!TopologyAssumption
  <2> QED BY <1>4, <2>1, TopologyFailures DEF Topology!NoManager
<1>5. ASSUME NEW n \in Topology!Numbers, Topology!Write(n) PROVE Topology!IInv'
  BY <1>5, TopologyWrites
<1>6. ASSUME NEW n \in Topology!Numbers, Topology!WriteRefused(n) PROVE Topology!IInv'
  BY <1>6, TopologyRefuses
<1>7. ASSUME NEW n \in Topology!Numbers, NEW ok \in BOOLEAN, Topology!Info(n, ok)
      PROVE  Topology!IInv'
  BY <1>7, TopologyInfos
<1>8. CASE UNCHANGED Topology!topologyVars
  <2>1. Topology!TypeOK' /\ Topology!OwnRemembered'
    BY <1>8 DEF Topology!topologyVars, Topology!IInv, Topology!TypeOK, Topology!OwnRemembered
  <2> QED BY <1>8, <2>1, TopologyStays DEF Topology!topologyVars
<1> QED BY <1>1, <1>2, <1>3, <1>4, <1>5, <1>6, <1>7, <1>8 DEF Topology!Next

-----------------------------------------------------------------------------
(* The queues together.                                                       *)

\* The invariant of the one that runs.
QueuesInv ==
    /\ queues = "sqs" => Sqs!IInv
    /\ queues = "pubSub" => PubSub!IInv
    /\ queues = "delayed" => Delayed!IInv
    /\ queues = "loops" => Loops!IInv
    /\ queues = "topology" => Topology!IInv
    /\ queues = "delivery" => Delivery!IInv

\* Each of the queues starts as its invariant says.
LEMMA QueuesStart == Init => QueuesInv
<1> SUFFICES ASSUME Init PROVE QueuesInv
  OBVIOUS
<1>1. ASSUME queues = "sqs" PROVE Sqs!IInv
  BY <1>1, SqsStarts, QueuesAssumption DEF Init
<1>2. ASSUME queues = "pubSub" PROVE PubSub!IInv
  BY <1>2, PubSubStarts, QueuesAssumption DEF Init
<1>3. ASSUME queues = "delayed" PROVE Delayed!IInv
  BY <1>3, DelayedStarts, QueuesAssumption DEF Init
<1>4. ASSUME queues = "loops" PROVE Loops!IInv
  BY <1>4, LoopsStarts, QueuesAssumption DEF Init
<1>5. ASSUME queues = "topology" PROVE Topology!IInv
  BY <1>5, TopologyStarts, QueuesAssumption DEF Init
<1>6. ASSUME queues = "delivery" PROVE Delivery!IInv
  BY <1>6, Delivery!Starts, QueuesAssumption DEF Init
<1> QED BY <1>1, <1>2, <1>3, <1>4, <1>5, <1>6 DEF QueuesInv

\* A step is of the one that runs, and keeps its invariant.
LEMMA QueuesStep == QueuesInv /\ [Next]_vars => QueuesInv'
<1> SUFFICES ASSUME QueuesInv, [Next]_vars PROVE QueuesInv'
  OBVIOUS
<1>0. queues' = queues
  BY DEF Next, Of, vars
<1>1. ASSUME queues = "sqs" PROVE Sqs!IInv'
  <2>1. [Sqs!Next]_(Sqs!sqsVars)
    BY <1>1 DEF Next, Of, vars, Sqs!sqsVars
  <2> QED BY <1>1, <2>1, SqsSteps, QueuesAssumption DEF QueuesInv
<1>2. ASSUME queues = "pubSub" PROVE PubSub!IInv'
  <2>1. [PubSub!Next]_(PubSub!pubSubVars)
    BY <1>2 DEF Next, Of, vars, PubSub!pubSubVars
  <2> QED BY <1>2, <2>1, PubSubSteps, QueuesAssumption DEF QueuesInv
<1>3. ASSUME queues = "delayed" PROVE Delayed!IInv'
  <2>1. [Delayed!Next]_(Delayed!delayedVars)
    BY <1>3 DEF Next, Of, vars, Delayed!delayedVars
  <2> QED BY <1>3, <2>1, DelayedSteps, QueuesAssumption DEF QueuesInv
<1>4. ASSUME queues = "loops" PROVE Loops!IInv'
  <2>1. [Loops!Next]_(Loops!loopVars)
    BY <1>4 DEF Next, Of, vars, Loops!loopVars
  <2> QED BY <1>4, <2>1, LoopsSteps, QueuesAssumption DEF QueuesInv
<1>5. ASSUME queues = "topology" PROVE Topology!IInv'
  <2>1. [Topology!Next]_(Topology!topologyVars)
    BY <1>5 DEF Next, Of, vars, Topology!topologyVars
  <2> QED BY <1>5, <2>1, TopologySteps, QueuesAssumption DEF QueuesInv
<1>6. ASSUME queues = "delivery" PROVE Delivery!IInv'
  <2>1. [Delivery!Next]_(Delivery!vars)
    BY <1>6 DEF Next, Of, vars, Delivery!vars, Delivery!pushed, Delivery!fates, Delivery!history
  <2> QED BY <1>6, <2>1, Delivery!Steps, QueuesAssumption DEF QueuesInv
<1> QED BY <1>0, <1>1, <1>2, <1>3, <1>4, <1>5, <1>6 DEF QueuesInv

\* Whichever of the queues runs keeps the invariant it is proved from.
THEOREM QueuesKeptInOrder == Spec => []QueuesInv
BY QueuesStart, QueuesStep, PTL DEF Spec

\* The state of each queue, of its loops, its broker and its provisionings stays in its
\* types, whatever the processes do and the services fail at.
THEOREM QueuesTyped == Spec => []TypeOK
<1>1. QueuesInv => TypeOK
  BY DEF QueuesInv, TypeOK, Sqs!IInv, PubSub!IInv, Delayed!IInv, Loops!IInv, Topology!IInv,
     Delivery!IInv
<1> QED BY <1>1, QueuesKeptInOrder, PTL

\* What SQS accepted is handled or filed as dead, after its runs, once, unless it lapsed,
\* and no message leaves a Pub/Sub subscription unhandled (sqs_queue_backend.ts,
\* pubsub_queue_backend.ts).
THEOREM NothingLeavesUnhandled == Spec => []QueuesLoseNothing
<1>1. QueuesInv => QueuesLoseNothing
  BY DEF QueuesInv, QueuesLoseNothing, Sqs!IInv, PubSub!IInv
<1> QED BY <1>1, QueuesKeptInOrder, PTL

\* A delayed job is promoted when due, at least once, and once while the broker remembers
\* its key, whoever promotes it and wherever a promoter dies (queue/delayed).
THEOREM DelayedPromoted == Spec => []PromotedOnce
<1>1. QueuesInv => PromotedOnce
  BY DEF QueuesInv, PromotedOnce, Delayed!IInv
<1> QED BY <1>1, QueuesKeptInOrder, PTL

\* A runner that was started has one loop and a stopped one none, but for the two gaps of
\* the loops that look at the flag alone, however often it is started, stopped and
\* restarted (queue/runner, trigger_runner.ts, cron_runner.ts).
THEOREM OneLoopEach == Spec => []LoopsFollowTheSwitch
<1>1. QueuesInv => LoopsFollowTheSwitch
  BY LoopsFollow DEF QueuesInv, LoopsFollowTheSwitch
<1> QED BY <1>1, QueuesKeptInOrder, PTL

\* What a deployment provisioned grants its queues what they asked for, whichever replicas
\* provision the same streams in between, but for a race on a bound (queue/topology).
THEOREM ProvisionedAsAsked == Spec => []QueuesGetWhatTheyAsked
<1>1. QueuesInv => QueuesGetWhatTheyAsked
  BY DEF QueuesInv, QueuesGetWhatTheyAsked, Topology!IInv
<1> QED BY <1>1, QueuesKeptInOrder, PTL

\* The extra delivery of max_deliver pays for one that comes to nothing: a message dropped
\* without a trace had two (topology_plan.ts).
THEOREM OneLossIsPaidFor == Spec => []DroppedOnlyAfterTwoLosses
<1>1. QueuesInv => DroppedOnlyAfterTwoLosses
  BY Delivery!TwoLost, QueuesAssumption DEF QueuesInv, DroppedOnlyAfterTwoLosses
<1> QED BY <1>1, QueuesKeptInOrder, PTL

\* Hand-backs are not tries: what is filed was refused as often as its queue allows, but
\* for deliveries that went unanswered (queue/runner/base_processor.ts).
THEOREM FiledOnlyAfterItsTries == Spec => []FiledAfterItsTries
<1>1. QueuesInv => FiledAfterItsTries
  BY DEF QueuesInv, FiledAfterItsTries, Delivery!IInv
<1> QED BY <1>1, QueuesKeptInOrder, PTL

\* A job that succeeded is filed as a failure only after an answer of its own that came to
\* nothing, whatever became of the others in its group (queue/runner).
THEOREM SuccessIsNotFiled == Spec => []SuccessFiledOnlyUnanswered
<1>1. QueuesInv => SuccessFiledOnlyUnanswered
  BY DEF QueuesInv, SuccessFiledOnlyUnanswered, Delivery!IInv
<1> QED BY <1>1, QueuesKeptInOrder, PTL

\* Filing a message ends it: it is delivered again only if the answer that should have
\* ended it failed or was lost (queue/runner).
THEOREM FilingEnds == Spec => FiledForGood
<1>1. ASSUME QueuesInv, [Next]_vars, queues = "delivery" PROVE Delivery!FiledStaysFiled
  <2>1. [Delivery!Next]_(Delivery!vars)
    BY <1>1 DEF Next, Of, vars, Delivery!vars, Delivery!pushed, Delivery!fates, Delivery!history
  <2> QED BY <1>1, <2>1, Delivery!FiledKept DEF QueuesInv
<1>2. QueuesInv /\ [Next]_vars => (queues = "delivery" => Delivery!FiledStaysFiled)
  BY <1>1
<1> QED BY <1>2, QueuesKeptInOrder, PTL DEF Spec, FiledForGood
=============================================================================
