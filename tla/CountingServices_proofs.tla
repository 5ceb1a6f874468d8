----------------------- MODULE CountingServices_proofs -----------------------
(* The services that count, guesses, hits, pages of rows and time, each proved *)
(* for every value of its constants from the inductive invariant IInv of its   *)
(* module: that it holds at the start (...Starts), that every step keeps it    *)
(* (...Steps), one lemma per action, and what it says of the properties        *)
(* (...Kept). Since no two of them ever run together they take the same        *)
(* variables, which MCServices gives them: a name that two of them have has    *)
(* the same one. Cardinalities are reasoned about with what FiniteSetTheorems  *)
(* states, and the least or the greatest of a bounded set of numbers stands    *)
(* for an induction.                                                           *)
EXTENDS Integers, Sequences, FiniteSets, FiniteSetTheorems, SequenceTheorems,
        WellFoundedInduction, TLAPS

CONSTANTS
    \* StorageFiles
    StoredPaths, FolderPaths, StorageCalls, ClearedPage, MaxPages, MaxStorageFaults,
    \* OneTimeCodes
    CodeCalls, CodeKind, CodeTokens, Attempts, MaxCodeFaults,
    \* RateLimiter
    HitLimit, FirstBlock, LongestBlock, StrikesAsked, OpenOnOutage, RateHorizon,
    \* CronSlots
    CronJobs, Strikes, TimeLimit, CronReplicas, CronAhead, GateWidth, MaxCronFaults,
    CronHorizon,
    \* CronSchedules
    ClockHosts, HostAhead, Declarations, UnitsOfMinute, MinutesOfDay, ZoneChanges,
    ScheduleHorizon,
    \* RealtimeCatchUp
    CatchUpEntities, CatchUpWriters, CatchUpLag, CatchUpRetention, CatchUpHorizon,
    CatchUpEvents, CatchUpCalls,
    \* RealtimeChannels
    GrantAccounts, GrantProcesses, GrantListen, GrantRequests, GrantPageSize, MaxGrantBegun,
    MaxGrantFaults,
    \* SignIns
    SignInCalls, GuessLimit, DeviceTokens, MaxAttempts, MaxSignInFaults

VARIABLES
    v1, v2, v3, v4, v5, v6, v7, v8, v9, v10, v11, v12, v13, v14, v15, v16, v17

Storage == INSTANCE StorageFiles WITH Paths <- StoredPaths, Own <- FolderPaths, Writers <-
    StorageCalls, PageSize <- ClearedPage, row <- v1, bytes <- v2, writer <- v3, clear <-
    v4, mixed <- v5, storageFaults <- v6
Codes == INSTANCE OneTimeCodes WITH Calls <- CodeCalls, Kind <- CodeKind, MaxTokens <-
    CodeTokens, MaxFaults <- MaxCodeFaults, rows <- v3, issued <- v4, parent <- v5, replaced
    <- v6, code <- v7, sent <- v1, tried <- v8, guessed <- v9, call <- v2, open <- v10,
    codeFaults <- v11
Rate == INSTANCE RateLimiter WITH Limit <- HitLimit, Penalty <- FirstBlock, MaxPenalty <-
    LongestBlock, AskedMemory <- StrikesAsked, FailOpen <- OpenOnOutage, MaxTime <-
    RateHorizon, now <- v1, arrival <- v2, blocked <- v3, strikes <- v4, outcome <- v5, hits
    <- v6, blocks <- v7
Cron == INSTANCE CronSlots WITH Jobs <- CronJobs, Occurrences <- Strikes, Timeout <-
    TimeLimit, Replicas <- CronReplicas, Ahead <- CronAhead, MaxConcurrent <- GateWidth,
    Horizon <- CronHorizon, MaxFaults <- MaxCronFaults, now <- v1, next <- v3, token <- v5,
    runs <- v4, markers <- v6, claims <- v7, missed <- v8, spoiled <- v2, faults <- v9
Schedules == INSTANCE CronSchedules WITH Replicas <- ClockHosts, Ahead <- HostAhead, Offered
    <- Declarations, Minute <- UnitsOfMinute, Day <- MinutesOfDay, Changes <- ZoneChanges,
    Horizon <- ScheduleHorizon, now <- v1, clocked <- v3, armed <- v4, taken <- v2
Missed == INSTANCE RealtimeCatchUp WITH Entities <- CatchUpEntities, Writers <-
    CatchUpWriters, Lag <- CatchUpLag, Retention <- CatchUpRetention, MaxNow <-
    CatchUpHorizon, MaxEvents <- CatchUpEvents, MaxCalls <- CatchUpCalls, now <- v1, live <-
    v4, began <- v5, events <- v6, client <- v7, calls <- v2, lost <- v3
Grants == INSTANCE RealtimeChannels WITH Accounts <- GrantAccounts, Processes <-
    GrantProcesses, Listen <- GrantListen, Requests <- GrantRequests, PageSize <-
    GrantPageSize, MaxBegun <- MaxGrantBegun, MaxRealtimeFaults <- MaxGrantFaults, stored <-
    v1, at <- v6, seen <- v4, booted <- v5, refusedSync <- v7, grants <- v8, request <- v9,
    settled <- v10, walk <- v2, begun <- v3, realtimeFaults <- v11
SignIn == INSTANCE SignIns WITH Calls <- SignInCalls, Limit <- GuessLimit, MaxTokens <-
    DeviceTokens, kind <- v7, at <- v6, attempts <- v8, session <- v3, token <- v5, known <-
    v9, banned <- v10, late <- v2, device <- v1, held <- v4, tokens <- v11, strays <- v12,
    orphans <- v13, measured <- v14, guesses <- v15, excused <- v16, signInFaults <- v17

\* A set of numbers has a least one: the induction that the proofs need.
LEMMA LeastNumber ==
    ASSUME NEW S, S \subseteq Nat, S # {}
    PROVE  \E m \in S : \A n \in S : m <= n
<1>1. IsWellFoundedOn(OpToRel(<, Nat), Nat)
  BY NatLessThanWellFounded
<1>2. PICK m \in S : \A n \in S : ~(<<n, m>> \in OpToRel(<, Nat))
  BY ONLY <1>1, WFMin, S \subseteq Nat, S # {}
<1>3. \A n \in S : ~(n < m)
  BY <1>2 DEF OpToRel
<1> QED BY <1>3

\* A finite set of numbers has a greatest: the one fewest are above.
LEMMA GreatestNumber ==
    ASSUME NEW S, S \subseteq Nat, IsFiniteSet(S), S # {}
    PROVE  \E m \in S : \A n \in S : n <= m
<1> DEFINE Above(p) == {q \in S : q > p}
           Counts == {Cardinality(Above(p)) : p \in S}
<1>0. \A p \in S : p \in Nat
  OBVIOUS
<1>1. \A p \in S : Above(p) \subseteq S /\ IsFiniteSet(Above(p)) /\ Cardinality(Above(p)) \in Nat
  BY FS_Subset, FS_CardinalityType
<1>2. Counts \subseteq Nat /\ Counts # {}
  BY <1>1
<1>3. PICK c \in Counts : \A d \in Counts : c <= d
  <2> HIDE DEF Counts
  <2> QED BY <1>2, LeastNumber
<1>4. PICK m \in S : c = Cardinality(Above(m))
  OBVIOUS
<1>5. ASSUME NEW n \in S, n > m PROVE FALSE
  <2>1. Above(n) \subseteq Above(m) /\ n \in Above(m) /\ n \notin Above(n)
    <3>1. n \in Nat /\ m \in Nat
      BY <1>0
    <3>2. ASSUME NEW s \in S, s > n PROVE s > m
      <4>1. s \in Nat
        BY <1>0
      <4> QED BY <1>5, <3>1, <3>2, <4>1
    <3>3. ~(n > n)
      BY <3>1
    <3>4. n \in {s \in S : s > m} /\ n \notin {s \in S : s > n}
      BY <1>5, <3>3
    <3>5. {s \in S : s > n} \subseteq {s \in S : s > m}
      BY <3>2
    <3> QED BY <3>4, <3>5
  <2>2. Cardinality(Above(n)) < Cardinality(Above(m))
    <3> HIDE DEF Above
    <3> QED BY <1>1, <2>1, FS_Subset
  <2>3. Cardinality(Above(m)) <= Cardinality(Above(n))
    BY <1>3, <1>4
  <2>4. Cardinality(Above(m)) \in Nat /\ Cardinality(Above(n)) \in Nat
    BY <1>1
  <2> HIDE DEF Above
  <2> QED BY <2>2, <2>3, <2>4
<1> QED BY <1>0, <1>5

\* The variables of StorageFiles.
row == v1
bytes == v2
writer == v3
clear == v4
mixed == v5
storageFaults == v6
USE DEF row, bytes, writer, clear, mixed, storageFaults

\* The finiteness and the count of the module's own FiniteSets.
LEMMA StorageSets ==
    /\ \A S : Storage!Cardinality(S) = Cardinality(S)
    /\ \A S : Storage!IsFiniteSet(S) <=> IsFiniteSet(S)
<1>1. \A S : Storage!Cardinality(S) = Cardinality(S)
  BY Zenon DEF Storage!Cardinality, Cardinality
<1>2. \A S : Storage!IsFiniteSet(S) <=> IsFiniteSet(S)
  BY DEF Storage!IsFiniteSet, IsFiniteSet
<1> QED BY <1>1, <1>2

\* A page is what comes first, and all there is when it is not full.
LEMMA LowestNumbers ==
    ASSUME NEW S, S \subseteq Nat, IsFiniteSet(S), NEW n \in Nat
    PROVE  /\ Storage!Lowest(n, S) \subseteq S
           /\ \A p \in Storage!Lowest(n, S), q \in S : q < p => q \in Storage!Lowest(n, S)
           /\ n > 0 /\ S # {} => Storage!Lowest(n, S) # {}
           /\ Cardinality(Storage!Lowest(n, S)) < n => Storage!Lowest(n, S) = S
<1> DEFINE Below(p) == {q \in S : q < p}
           L == Storage!Lowest(n, S)
<1>0. \A p \in S : p \in Nat
  OBVIOUS
<1>1. L = {p \in S : Cardinality(Below(p)) < n}
  BY StorageSets DEF Storage!Lowest
<1>2. \A p : Below(p) \subseteq S /\ IsFiniteSet(Below(p)) /\ Cardinality(Below(p)) \in Nat
  BY FS_Subset, FS_CardinalityType
<1>3. ASSUME NEW p \in L, NEW q \in S, q < p PROVE q \in L
  <2>1. Below(q) \subseteq Below(p)
    <3>1. p \in Nat /\ q \in Nat
      BY <1>0, <1>1, <1>3
    <3>2. ASSUME NEW s \in S, s < q PROVE s < p
      <4>1. s \in Nat
        BY <1>0
      <4> QED BY <1>3, <3>1, <3>2, <4>1
    <3> QED BY <3>2
  <2>2. Cardinality(Below(q)) <= Cardinality(Below(p))
    <3> HIDE DEF Below
    <3> QED BY <1>2, <2>1, FS_Subset
  <2>3. Cardinality(Below(p)) < n
    BY <1>1
  <2>4. Cardinality(Below(q)) < n
    <3> HIDE DEF Below
    <3> QED BY <1>2, <2>2, <2>3
  <2> QED BY <1>1, <2>4
<1>4. ASSUME n > 0, S # {} PROVE L # {}
  <2>1. PICK m \in S : \A q \in S : m <= q
    BY <1>4, LeastNumber
  <2>2. Below(m) = {}
    <3>1. \A q \in S : ~(q < m)
      BY <1>0, <2>1
    <3> QED BY <3>1
  <2>3. Cardinality(Below(m)) = 0
    BY <2>2, FS_EmptySet
  <2> QED BY <1>1, <1>4, <2>3
<1>5. ASSUME Cardinality(L) < n PROVE L = S
  <2> SUFFICES ASSUME S \ L # {} PROVE FALSE
    BY <1>1
  <2>1. PICK m \in S \ L : \A q \in S \ L : m <= q
    BY LeastNumber
  <2>2. Below(m) \subseteq L
    <3>1. \A q \in S \ L : ~(q < m)
      BY <1>0, <2>1
    <3> QED BY <3>1
  <2>3. Cardinality(Below(m)) <= Cardinality(L) /\ Cardinality(L) \in Nat
    <3>1. IsFiniteSet(L)
      BY <1>1, FS_Subset
    <3> HIDE DEF Below, L
    <3> QED BY <2>2, <3>1, FS_Subset, FS_CardinalityType
  <2>4. ~(Cardinality(Below(m)) < n)
    BY <1>1, <2>1
  <2>5. Cardinality(Below(m)) \in Nat
    BY <1>2
  <2> HIDE DEF Below, L
  <2> QED BY <1>5, <2>3, <2>4, <2>5
<1> QED BY <1>1, <1>3, <1>4, <1>5

-----------------------------------------------------------------------------
(* The files under a folder (storage: src/runtime/resource.ts, src/core/      *)
(* storage.ts, src/db/objects.ts).                                            *)

AtWork == {"bytes", "read", "record", "displace", "unlink", "forget"}
Astray == {"failed", "stray", "astray"}

\* A path whose row, bytes and calls stay as they are stays as sound as it was.
LEMMA StorageElsewhere ==
    ASSUME NEW q,
           row'[q] = row[q], \A b \in Storage!Buckets : q \in bytes'[b] <=> q \in bytes[b],
           Storage!On(q)' = Storage!On(q), \A x \in Storage!On(q) : writer'[x] = writer[x],
           \A x \in Storage!On(q) : writer[x].in \in Storage!Buckets
    PROVE  /\ Storage!Busy(q)' = Storage!Busy(q)
           /\ Storage!Broken(q)' <=> Storage!Broken(q)
           /\ clear' = clear => (Storage!Followed(q) => Storage!Followed(q)')
           /\ clear' = clear => (Storage!SweptAt(q) => Storage!SweptAt(q)')
           /\ Storage!Agreed(q)' <=> Storage!Agreed(q)
<1>1. Storage!Busy(q) = {x \in Storage!On(q) : writer[x].pc \in AtWork}
  BY DEF Storage!Busy, Storage!On, AtWork
<1>2. Storage!Busy(q)' = {x \in Storage!On(q)' : writer'[x].pc \in AtWork}
  BY DEF Storage!Busy, Storage!On, AtWork
<1>3. Storage!Busy(q)' = Storage!Busy(q)
  BY <1>1, <1>2
<1>4. Storage!Broken(q)' <=> Storage!Broken(q)
  BY DEF Storage!Broken
<1>5. Storage!Agreed(q)' <=> Storage!Agreed(q)
  BY DEF Storage!Agreed
<1>6. \A x \in Storage!Busy(q) : writer[x].path = q /\ x \in Storage!On(q)
  BY DEF Storage!Busy, Storage!On
<1>7. ASSUME NEW x \in Storage!Busy(q), Storage!OnItsWay(writer[x])
      PROVE  Storage!OnItsWay(writer[x])'
  <2>1. writer'[x] = writer[x] /\ writer[x].path = q /\ writer[x].in \in Storage!Buckets
    BY <1>6
  <2>2. Storage!Other(writer[x].in) \in Storage!Buckets
    BY <2>1 DEF Storage!Other, Storage!Buckets
  <2>3. (writer[x].pc \in {"bytes", "unlink"} => Storage!Agreed(writer[x].path))'
    BY <1>5, <1>7, <2>1 DEF Storage!OnItsWay, Storage!Agreed
  <2>4. \A b \in Storage!Buckets : (q \in bytes'[b] <=> row'[q] = b) <=> (q \in bytes[b] <=> row[q] = b)
    OBVIOUS
  <2> QED BY <1>7, <2>1, <2>2, <2>3, <2>4 DEF Storage!OnItsWay, Storage!Apart
<1>8. ASSUME clear' = clear, Storage!Followed(q) PROVE Storage!Followed(q)'
  <2>1. \A x \in Storage!Busy(q)' : Storage!OnItsWay(writer[x])'
    BY <1>3, <1>7, <1>8 DEF Storage!Followed
  <2>2. Storage!Busy(q)' = {} /\ clear'.pc \in {"idle", "page", "remove", "done"} => Storage!Agreed(q)'
    BY <1>3, <1>5, <1>8 DEF Storage!Followed
  <2>3. clear'.pc = "drop" => IF q \in clear'.page THEN \A b \in Storage!Buckets : q \notin bytes'[b]
                                                   ELSE Storage!Agreed(q)'
    BY <1>5, <1>8 DEF Storage!Followed
  <2> QED BY <2>1, <2>2, <2>3 DEF Storage!Followed
<1>9. ASSUME clear' = clear, Storage!SweptAt(q) PROVE Storage!SweptAt(q)'
  BY <1>9 DEF Storage!SweptAt
<1> QED BY <1>3, <1>4, <1>5, <1>8, <1>9

\* What is so of a path when its only call gets on with it, or comes to it.
LEMMA StorageMoves ==
    ASSUME Storage!StorageAssumption, Storage!IInv, Storage!TypeOK', NEW w \in StorageCalls, NEW p \in FolderPaths,
           writer[w].path \in {0, p}, writer'[w].path = p, writer'[w].pc # "idle",
           \A x \in StorageCalls : x # w => writer'[x] = writer[x],
           \A q \in FolderPaths : q # p => /\ row'[q] = row[q]
                                  /\ \A b \in Storage!Buckets : q \in bytes'[b] <=> q \in bytes[b],
           clear' = clear, mixed \subseteq mixed', mixed' \subseteq mixed \cup {p},
           p \notin mixed' => Storage!Busy(p)' \subseteq {w} /\ ~Storage!Clearing,
           p \notin mixed' /\ ~Storage!Broken(p)' /\ clear.pc # "failed" =>
              \/ writer'[w].pc \in AtWork /\ Storage!OnItsWay(writer[w])'
              \/ writer'[w].pc \notin AtWork /\ Storage!Agreed(p)'
    PROVE  Storage!IInv'
<1> USE DEF Storage!StorageAssumption
<1>0. /\ 0 \notin FolderPaths /\ \A x \in StorageCalls : writer[x].in \in Storage!Buckets
      /\ \A x \in StorageCalls : writer[x].path \in FolderPaths \cup {0}
  BY DEF Storage!IInv, Storage!TypeOK
<1>1. ASSUME NEW q \in FolderPaths, q # p
      PROVE  /\ Storage!On(q)' = Storage!On(q) /\ Storage!Busy(q)' = Storage!Busy(q)
             /\ Storage!Broken(q)' <=> Storage!Broken(q)
             /\ Storage!Followed(q) => Storage!Followed(q)'
             /\ Storage!SweptAt(q) => Storage!SweptAt(q)'
  <2>1. w \notin Storage!On(q) /\ w \notin Storage!On(q)'
    BY <1>0, <1>1 DEF Storage!On
  <2>2. Storage!On(q)' = Storage!On(q)
    BY <2>1 DEF Storage!On
  <2>3. \A x \in Storage!On(q) : writer'[x] = writer[x] /\ writer[x].in \in Storage!Buckets
    BY <1>0, <2>1 DEF Storage!On
  <2>4. row'[q] = row[q] /\ \A b \in Storage!Buckets : q \in bytes'[b] <=> q \in bytes[b]
    BY <1>1
  <2> QED BY <2>2, <2>3, <2>4, StorageElsewhere
<1>2. w \in Storage!On(p)'
  BY DEF Storage!On
<1>3. Storage!Alone'
  <2>1. \A x \in StorageCalls : writer'[x].pc = "idle" <=> writer'[x].path = 0
    BY <1>0 DEF Storage!IInv, Storage!Alone
  <2>2. ASSUME NEW q \in FolderPaths \ mixed'
        PROVE  (\A x, y \in Storage!Busy(q)' : x = y) /\ (Storage!Clearing' => Storage!Busy(q)' = {})
    <3>1. CASE q = p
      BY <2>2, <3>1 DEF Storage!Clearing
    <3>2. CASE q # p
      BY <1>1, <2>2, <3>2 DEF Storage!IInv, Storage!Alone, Storage!Clearing
    <3> QED BY <3>1, <3>2
  <2> QED BY <2>1, <2>2 DEF Storage!Alone
<1>4. Storage!Following'
  <2> SUFFICES ASSUME clear.pc # "failed", NEW q \in FolderPaths \ mixed', ~Storage!Broken(q)'
               PROVE  Storage!Followed(q)'
    BY DEF Storage!Following
  <2>1. CASE q # p
    BY <1>1, <2>1 DEF Storage!IInv, Storage!Following
  <2>2. CASE q = p
    <3>1. w \in Storage!Busy(p)' <=> writer'[w].pc \in AtWork
      BY DEF Storage!Busy, AtWork
    <3>2. \A x \in Storage!Busy(p)' : Storage!OnItsWay(writer[x])'
      BY <2>2, <3>1
    <3>3. Storage!Busy(p)' = {} => Storage!Agreed(p)'
      BY <2>2, <3>1
    <3>4. clear'.pc # "drop"
      BY <2>2 DEF Storage!Clearing
    <3> QED BY <2>2, <3>2, <3>3, <3>4 DEF Storage!Followed
  <2> QED BY <2>1, <2>2
<1>5. Storage!Swept'
  <2> SUFFICES ASSUME NEW q \in FolderPaths, Storage!On(q)' = {} PROVE q \notin mixed' /\ Storage!SweptAt(q)'
    BY DEF Storage!Swept
  <2> QED BY <1>1, <1>2 DEF Storage!IInv, Storage!Swept
<1>6. Storage!Advancing'
  BY StorageSets DEF Storage!IInv, Storage!Advancing, Storage!NoClear
<1> QED BY <1>3, <1>4, <1>5, <1>6 DEF Storage!IInv

\* The only call that is on a path gets on with it.
LEMMA StorageWorks ==
    ASSUME Storage!StorageAssumption, Storage!IInv, Storage!TypeOK', NEW w \in StorageCalls, NEW p,
           p = writer[w].path, writer[w].pc \in AtWork, writer'[w].path = p, writer'[w].pc # "idle",
           \A x \in StorageCalls : x # w => writer'[x] = writer[x],
           \A q \in FolderPaths : q # p => /\ row'[q] = row[q]
                                  /\ \A b \in Storage!Buckets : q \in bytes'[b] <=> q \in bytes[b],
           clear' = clear, mixed' = mixed,
           Storage!OnItsWay(writer[w]) =>
              \/ writer'[w].pc \in Astray
              \/ writer'[w].pc \in AtWork /\ Storage!OnItsWay(writer[w])'
              \/ writer'[w].pc \notin AtWork /\ Storage!Agreed(p)'
    PROVE  Storage!IInv'
<1>1. p \in FolderPaths
  BY DEF Storage!IInv, Storage!TypeOK, Storage!Alone, AtWork
<1>2. w \in Storage!Busy(p) /\ w \in Storage!On(p)'
  BY DEF Storage!Busy, Storage!On, AtWork
<1>3. Storage!Busy(p)' \subseteq Storage!Busy(p) \cup {w}
  BY DEF Storage!Busy
<1>4. p \notin mixed => Storage!Busy(p) = {w} /\ ~Storage!Clearing
  BY <1>1, <1>2 DEF Storage!IInv, Storage!Alone
<1>5. writer'[w].pc \in Astray => Storage!Broken(p)'
  BY <1>2 DEF Storage!Broken, Astray
<1>6. ~Storage!Broken(p)' => ~Storage!Broken(p)
  <2>1. writer[w].pc \notin Astray
    BY DEF AtWork, Astray
  <2>2. \A x \in Storage!On(p) : x # w => x \in Storage!On(p)' /\ writer'[x] = writer[x]
    BY DEF Storage!On
  <2>3. \A x \in Storage!On(p) : writer[x].pc \in Astray => x # w
    BY <2>1
  <2> QED BY <2>2, <2>3 DEF Storage!Broken, Astray
<1>7. p \notin mixed /\ ~Storage!Broken(p)' /\ clear.pc # "failed" => Storage!OnItsWay(writer[w])
  BY <1>1, <1>2, <1>6 DEF Storage!IInv, Storage!Following, Storage!Followed
<1> QED BY <1>1, <1>3, <1>4, <1>5, <1>7, StorageMoves

\* What one call of a bucket or of the index of a writer is.
LEMMA StorageCall ==
    ASSUME Storage!StorageAssumption, Storage!TypeOK, NEW w \in StorageCalls, NEW pc \in AtWork, NEW next,
           NEW ok \in BOOLEAN, Storage!Step(w, pc, next, ok),
           next \in AtWork \cup {"stored", "removed", "astray"}
    PROVE  /\ writer[w].pc = pc /\ clear' = clear /\ mixed' = mixed
           /\ writer'[w].path = writer[w].path /\ writer'[w].in = writer[w].in
           /\ writer'[w].displaced = writer[w].displaced
           /\ ok => writer'[w].pc = next
           /\ ~ok => writer'[w].pc \in Astray
           /\ writer'[w].pc # "idle"
           /\ \A x \in StorageCalls : x # w => writer'[x] = writer[x]
           /\ writer[w].in \in Storage!Buckets
           /\ storageFaults' \in 0..MaxStorageFaults
           /\ writer' \in [StorageCalls -> [pc : {"idle", "bytes", "read", "record", "displace", "unlink",
                                  "forget", "stored", "removed", "astray", "stray", "failed"},
                              path : FolderPaths \cup {0}, in : Storage!Buckets,
                              displaced : Storage!Buckets \cup {"none"}]]
           /\ \A x \in StorageCalls : writer'[x].displaced # writer'[x].in
<1> DEFINE to == IF ok THEN next ELSE IF pc = "displace" THEN "stray" ELSE "failed"
<1>1. /\ writer[w].pc = pc /\ clear' = clear /\ mixed' = mixed
      /\ writer' = [writer EXCEPT ![w].pc = to]
      /\ IF ok THEN storageFaults' = storageFaults
         ELSE storageFaults < MaxStorageFaults /\ storageFaults' = storageFaults + 1
  BY Zenon DEF Storage!Step, Storage!May, Storage!Fault
<1>2. storageFaults' \in 0..MaxStorageFaults
  BY <1>1 DEF Storage!TypeOK, Storage!StorageAssumption
<1>3. /\ to \in {"bytes", "read", "record", "displace", "unlink", "forget", "stored", "removed", "astray",
                "stray", "failed"}
      /\ ok => to = next
      /\ ~ok => to \in Astray
  BY DEF AtWork, Astray
<1> HIDE DEF to
<1>4. /\ writer'[w].path = writer[w].path /\ writer'[w].in = writer[w].in
      /\ writer'[w].displaced = writer[w].displaced /\ writer'[w].pc = to
      /\ \A x \in StorageCalls : x # w => writer'[x] = writer[x]
  BY <1>1 DEF Storage!TypeOK
<1>5. writer' \in [StorageCalls -> [pc : {"idle", "bytes", "read", "record", "displace", "unlink",
                                  "forget", "stored", "removed", "astray", "stray", "failed"},
                              path : FolderPaths \cup {0}, in : Storage!Buckets,
                              displaced : Storage!Buckets \cup {"none"}]]
  BY <1>1, <1>3 DEF Storage!TypeOK
<1>6. \A x \in StorageCalls : writer'[x].displaced # writer'[x].in
  BY <1>4 DEF Storage!TypeOK
<1>7. writer[w].in \in Storage!Buckets
  BY DEF Storage!TypeOK
<1> QED BY <1>1, <1>2, <1>3, <1>4, <1>5, <1>6, <1>7

\* An upload puts its bytes first.
LEMMA StorageStore ==
    ASSUME Storage!StorageAssumption, Storage!IInv, NEW w \in StorageCalls, NEW ok \in BOOLEAN, Storage!Store(w, ok)
    PROVE  Storage!IInv'
<1> DEFINE p == writer[w].path
           b == writer[w].in
<1>1. Storage!TypeOK /\ Storage!Step(w, "bytes", "read", ok) /\ row' = row
      /\ bytes' = [bytes EXCEPT ![b] = IF ok THEN @ \cup {p} ELSE @]
  BY DEF Storage!IInv, Storage!Store
<1>2. "bytes" \in AtWork /\ "read" \in AtWork
  BY DEF AtWork
<1> PICK q : q = p
  OBVIOUS
<1>3. q \in FolderPaths /\ q \in StoredPaths
  <2>1. writer[w].pc = "bytes"
    BY <1>1 DEF Storage!Step
  <2> QED BY <2>1 DEF Storage!IInv, Storage!TypeOK, Storage!Alone, Storage!StorageAssumption
<1>4. bytes \in [Storage!Buckets -> SUBSET StoredPaths] /\ b \in Storage!Buckets
  BY <1>1 DEF Storage!TypeOK
<1>5. /\ bytes' \in [Storage!Buckets -> SUBSET StoredPaths]
      /\ \A x, c : c \in Storage!Buckets /\ x # q => (x \in bytes'[c] <=> x \in bytes[c])
      /\ \A c \in Storage!Buckets : c # b => bytes'[c] = bytes[c]
      /\ ok => q \in bytes'[b]
  BY <1>1, <1>3, <1>4
<1>6. Storage!TypeOK'
  BY <1>1, <1>2, <1>5, StorageCall DEF Storage!TypeOK
<1>7. Storage!OnItsWay(writer[w]) =>
              \/ writer'[w].pc \in Astray
              \/ writer'[w].pc \in AtWork /\ Storage!OnItsWay(writer[w])'
              \/ writer'[w].pc \notin AtWork /\ Storage!Agreed(q)'
  <2> SUFFICES ASSUME Storage!OnItsWay(writer[w]), ok
               PROVE  writer'[w].pc \in AtWork /\ Storage!OnItsWay(writer[w])'
    BY <1>1, <1>2, StorageCall
  <2>1. writer[w].pc = "bytes" /\ writer'[w].pc = "read" /\ writer'[w].path = q /\ writer'[w].in = b
    BY <1>1, <1>2, StorageCall
  <2>2. Storage!Agreed(q)
    BY <2>1 DEF Storage!OnItsWay
  <2>3. Storage!Other(b) \in Storage!Buckets /\ Storage!Other(b) # b
    BY <1>4 DEF Storage!Buckets, Storage!Other
  <2>4. Storage!Apart(q, Storage!Other(b))'
    <3>1. q \in bytes'[Storage!Other(b)] <=> row'[q] = Storage!Other(b)
      BY <1>1, <1>5, <2>2, <2>3 DEF Storage!Agreed
    <3> QED BY <2>1, <3>1 DEF Storage!Apart, Storage!Other
  <2> QED BY <1>2, <1>5, <2>1, <2>4 DEF Storage!OnItsWay, Storage!Apart, Storage!Other
<1> QED BY <1>1, <1>2, <1>5, <1>6, <1>7, StorageCall, StorageWorks

\* An upload reads which bucket it is about to displace.
LEMMA StorageReadRow ==
    ASSUME Storage!StorageAssumption, Storage!IInv, NEW w \in StorageCalls, Storage!ReadRow(w)
    PROVE  Storage!IInv'
<1> DEFINE b == writer[w].in
           old == row[writer[w].path]
           d == IF old = b THEN "none" ELSE old
<1>1. /\ Storage!TypeOK /\ writer[w].pc = "read"
      /\ writer' = [writer EXCEPT ![w].pc = "record", ![w].displaced = d]
      /\ row' = row /\ bytes' = bytes /\ clear' = clear /\ mixed' = mixed
      /\ storageFaults' = storageFaults
  BY DEF Storage!IInv, Storage!ReadRow
<1> PICK q : q = writer[w].path
  OBVIOUS
<1>2. q \in FolderPaths /\ q \in StoredPaths
  BY <1>1 DEF Storage!IInv, Storage!TypeOK, Storage!Alone, Storage!StorageAssumption
<1>3. d \in Storage!Buckets \cup {"none"} /\ d # b /\ b \in Storage!Buckets
  BY <1>1, <1>2 DEF Storage!TypeOK, Storage!Buckets
<1>4. /\ writer'[w].pc = "record" /\ writer'[w].path = q /\ writer'[w].in = b
      /\ writer'[w].displaced = d
      /\ \A x \in StorageCalls : x # w => writer'[x] = writer[x]
  <2> HIDE DEF d
  <2> QED BY <1>1 DEF Storage!TypeOK
<1>5. writer' \in [StorageCalls -> [pc : {"idle", "bytes", "read", "record", "displace", "unlink",
                                  "forget", "stored", "removed", "astray", "stray", "failed"},
                              path : FolderPaths \cup {0}, in : Storage!Buckets,
                              displaced : Storage!Buckets \cup {"none"}]]
  <2> HIDE DEF d, b
  <2> DEFINE Record == [pc : {"idle", "bytes", "read", "record", "displace", "unlink",
                                  "forget", "stored", "removed", "astray", "stray", "failed"},
                              path : FolderPaths \cup {0}, in : Storage!Buckets,
                              displaced : Storage!Buckets \cup {"none"}]
  <2>1. writer \in [StorageCalls -> Record]
    BY <1>1 DEF Storage!TypeOK
  <2>2. [writer[w] EXCEPT !.pc = "record", !.displaced = d] \in Record
    <3>1. [[writer[w] EXCEPT !.pc = "record"] EXCEPT !.displaced = d] \in Record
      BY <1>3, <2>1
    <3> QED BY <2>1, <3>1
  <2>3. writer' = [writer EXCEPT ![w] = [writer[w] EXCEPT !.pc = "record", !.displaced = d]]
    BY <1>1, <2>1
  <2> HIDE DEF Record
  <2>4. writer' \in [StorageCalls -> Record]
    BY <2>1, <2>2, <2>3
  <2> QED BY <2>4 DEF Record
<1>6. Storage!TypeOK'
  <2>1. \A x \in StorageCalls : writer'[x].displaced # writer'[x].in
    BY <1>1, <1>3, <1>4 DEF Storage!TypeOK
  <2> QED BY <1>1, <1>5, <2>1 DEF Storage!TypeOK
<1>7. Storage!OnItsWay(writer[w]) => writer'[w].pc \in AtWork /\ Storage!OnItsWay(writer[w])'
  <2> SUFFICES ASSUME Storage!OnItsWay(writer[w]) PROVE Storage!OnItsWay(writer[w])'
    BY <1>4 DEF AtWork
  <2>1. q \in bytes[b] /\ Storage!Apart(q, Storage!Other(b))
    BY <1>1 DEF Storage!OnItsWay
  <2>2. Storage!Apart(q, Storage!Other(b))'
    BY <1>1, <1>4, <2>1 DEF Storage!Apart, Storage!Other
  <2> QED BY <1>1, <1>4, <2>1, <2>2 DEF Storage!OnItsWay, Storage!Apart, Storage!Other
<1>8. writer[w].pc \in AtWork /\ writer'[w].pc # "idle"
  BY <1>1, <1>4 DEF AtWork
<1>9. \A x \in FolderPaths : x # q => /\ row'[x] = row[x]
                              /\ \A c \in Storage!Buckets : x \in bytes'[c] <=> x \in bytes[c]
  BY <1>1
<1> HIDE DEF b, d
<1> QED BY <1>1, <1>4, <1>6, <1>7, <1>8, <1>9, StorageWorks

\* An upload records its bucket, and learns of the one before.
LEMMA StorageRecord ==
    ASSUME Storage!StorageAssumption, Storage!IInv, NEW w \in StorageCalls, NEW ok \in BOOLEAN, Storage!Record(w, ok)
    PROVE  Storage!IInv'
<1> DEFINE b == writer[w].in
           next == IF writer[w].displaced = "none" THEN "stored" ELSE "displace"
<1>1. Storage!TypeOK /\ Storage!Step(w, "record", next, ok) /\ bytes' = bytes
      /\ row' = [row EXCEPT ![writer[w].path] = IF ok THEN b ELSE @]
  BY DEF Storage!IInv, Storage!Record
<1>2. "record" \in AtWork /\ next \in AtWork \cup {"stored", "removed", "astray"}
  BY DEF AtWork
<1> PICK q : q = writer[w].path
  OBVIOUS
<1>3. q \in FolderPaths /\ q \in StoredPaths
  <2>1. writer[w].pc = "record"
    BY <1>1 DEF Storage!Step
  <2> QED BY <2>1 DEF Storage!IInv, Storage!TypeOK, Storage!Alone, Storage!StorageAssumption
<1>4. row \in [StoredPaths -> Storage!Buckets \cup {"none"}] /\ b \in Storage!Buckets
  BY <1>1 DEF Storage!TypeOK
<1>5. /\ row' \in [StoredPaths -> Storage!Buckets \cup {"none"}]
      /\ \A x \in FolderPaths : x # q => /\ row'[x] = row[x]
                              /\ \A c \in Storage!Buckets : x \in bytes'[c] <=> x \in bytes[c]
      /\ ok => row'[q] = b
  <2>1. FolderPaths \subseteq StoredPaths
    BY DEF Storage!StorageAssumption
  <2> QED BY <1>1, <1>3, <1>4, <2>1
<1> HIDE DEF next
<1>6. Storage!TypeOK'
  BY <1>1, <1>2, <1>5, StorageCall DEF Storage!TypeOK
<1>7. Storage!OnItsWay(writer[w]) =>
              \/ writer'[w].pc \in Astray
              \/ writer'[w].pc \in AtWork /\ Storage!OnItsWay(writer[w])'
              \/ writer'[w].pc \notin AtWork /\ Storage!Agreed(q)'
  <2> SUFFICES ASSUME Storage!OnItsWay(writer[w]), ok
               PROVE  \/ writer'[w].pc \in AtWork /\ Storage!OnItsWay(writer[w])'
                      \/ writer'[w].pc \notin AtWork /\ Storage!Agreed(q)'
    BY <1>1, <1>2, StorageCall
  <2>1. writer[w].pc = "record" /\ writer'[w].pc = next /\ writer'[w].path = q /\ writer'[w].in = b
        /\ writer'[w].displaced = writer[w].displaced
    BY <1>1, <1>2, StorageCall
  <2>2. /\ q \in bytes[b] /\ Storage!Apart(q, Storage!Other(b))
        /\ writer[w].displaced = IF row[q] = b THEN "none" ELSE row[q]
    BY <2>1 DEF Storage!OnItsWay
  <2>3. CASE writer[w].displaced = "none"
    <3>1. row[q] \in {b, "none"}
      BY <2>2, <2>3
    <3>2. \A c \in Storage!Buckets : c = b \/ c = Storage!Other(b)
      BY <1>4 DEF Storage!Buckets, Storage!Other
    <3>3. Storage!Other(b) \notin {b, "none"}
      BY <1>4 DEF Storage!Buckets, Storage!Other
    <3>4. q \notin bytes[Storage!Other(b)]
      BY <2>2, <3>1, <3>3 DEF Storage!Apart
    <3>5. Storage!Agreed(q)'
      BY <1>1, <1>5, <2>2, <3>2, <3>3, <3>4 DEF Storage!Agreed
    <3>6. writer'[w].pc \notin AtWork
      BY <2>1, <2>3 DEF next, AtWork
    <3> QED BY <3>5, <3>6
  <2>4. CASE writer[w].displaced # "none"
    <3>1. writer'[w].pc = "displace"
      BY <2>1, <2>4 DEF next
    <3> QED BY <1>1, <1>5, <2>1, <2>2, <2>4, <3>1 DEF Storage!OnItsWay, AtWork
  <2> QED BY <2>3, <2>4
<1>8. writer[w].pc \in AtWork
  BY <1>1, <1>2, StorageCall
<1> QED BY <1>1, <1>2, <1>5, <1>6, <1>7, <1>8, StorageCall, StorageWorks

\* The bytes of the bucket before are taken away.
LEMMA StorageDisplace ==
    ASSUME Storage!StorageAssumption, Storage!IInv, NEW w \in StorageCalls, NEW ok \in BOOLEAN, Storage!Displace(w, ok)
    PROVE  Storage!IInv'
<1> DEFINE p == writer[w].path
           b == writer[w].in
           d == writer[w].displaced
<1>1. Storage!TypeOK /\ Storage!Step(w, "displace", "stored", ok) /\ row' = row
      /\ bytes' = [bytes EXCEPT ![d] = IF ok THEN @ \ {p} ELSE @]
  BY DEF Storage!IInv, Storage!Displace
<1>2. "displace" \in AtWork
  BY DEF AtWork
<1> PICK q : q = p
  OBVIOUS
<1>3. q \in FolderPaths /\ writer[w].pc = "displace"
  <2>1. writer[w].pc = "displace"
    BY <1>1 DEF Storage!Step
  <2> QED BY <2>1 DEF Storage!IInv, Storage!TypeOK, Storage!Alone
<1>4. bytes \in [Storage!Buckets -> SUBSET StoredPaths] /\ b \in Storage!Buckets /\ d # b
      /\ d \in Storage!Buckets \cup {"none"}
  BY <1>1 DEF Storage!TypeOK
<1>5. /\ bytes' \in [Storage!Buckets -> SUBSET StoredPaths]
      /\ \A x, c : c \in Storage!Buckets /\ x # q => (x \in bytes'[c] <=> x \in bytes[c])
      /\ \A c \in Storage!Buckets : c # d => bytes'[c] = bytes[c]
      /\ ok /\ d # "none" => q \notin bytes'[d]
  BY <1>1, <1>4
<1>6. Storage!TypeOK'
  BY <1>1, <1>2, <1>5, StorageCall DEF Storage!TypeOK
<1>7. Storage!OnItsWay(writer[w]) =>
              \/ writer'[w].pc \in Astray
              \/ writer'[w].pc \in AtWork /\ Storage!OnItsWay(writer[w])'
              \/ writer'[w].pc \notin AtWork /\ Storage!Agreed(q)'
  <2> SUFFICES ASSUME Storage!OnItsWay(writer[w]), ok
               PROVE  writer'[w].pc \notin AtWork /\ Storage!Agreed(q)'
    BY <1>1, <1>2, StorageCall
  <2>1. writer'[w].pc = "stored"
    BY <1>1, <1>2, StorageCall
  <2>2. row[q] = b /\ d # "none" /\ q \in bytes[b]
    BY <1>3 DEF Storage!OnItsWay
  <2>3. \A c \in Storage!Buckets : c = b \/ c = d
    BY <1>4, <2>2 DEF Storage!Buckets
  <2> QED BY <1>1, <1>4, <1>5, <2>1, <2>2, <2>3 DEF Storage!Agreed, AtWork
<1> QED BY <1>1, <1>2, <1>3, <1>5, <1>6, <1>7, StorageCall, StorageWorks

\* A removal takes the bytes away.
LEMMA StorageUnlink ==
    ASSUME Storage!StorageAssumption, Storage!IInv, NEW w \in StorageCalls, NEW ok \in BOOLEAN, Storage!Unlink(w, ok)
    PROVE  Storage!IInv'
<1> DEFINE p == writer[w].path
           b == writer[w].in
<1>1. Storage!TypeOK /\ Storage!Step(w, "unlink", "forget", ok) /\ row' = row
      /\ bytes' = [bytes EXCEPT ![b] = IF ok THEN @ \ {p} ELSE @]
  BY DEF Storage!IInv, Storage!Unlink
<1>2. "unlink" \in AtWork /\ "forget" \in AtWork
  BY DEF AtWork
<1> PICK q : q = p
  OBVIOUS
<1>3. q \in FolderPaths /\ writer[w].pc = "unlink"
  <2>1. writer[w].pc = "unlink"
    BY <1>1 DEF Storage!Step
  <2> QED BY <2>1 DEF Storage!IInv, Storage!TypeOK, Storage!Alone
<1>4. bytes \in [Storage!Buckets -> SUBSET StoredPaths] /\ b \in Storage!Buckets
  BY <1>1 DEF Storage!TypeOK
<1>5. /\ bytes' \in [Storage!Buckets -> SUBSET StoredPaths]
      /\ \A x, c : c \in Storage!Buckets /\ x # q => (x \in bytes'[c] <=> x \in bytes[c])
      /\ \A c \in Storage!Buckets : c # b => bytes'[c] = bytes[c]
      /\ ok => q \notin bytes'[b]
  BY <1>1, <1>4
<1>6. Storage!TypeOK'
  BY <1>1, <1>2, <1>5, StorageCall DEF Storage!TypeOK
<1>7. Storage!OnItsWay(writer[w]) =>
              \/ writer'[w].pc \in Astray
              \/ writer'[w].pc \in AtWork /\ Storage!OnItsWay(writer[w])'
              \/ writer'[w].pc \notin AtWork /\ Storage!Agreed(q)'
  <2> SUFFICES ASSUME Storage!OnItsWay(writer[w]), ok
               PROVE  writer'[w].pc \in AtWork /\ Storage!OnItsWay(writer[w])'
    BY <1>1, <1>2, StorageCall
  <2>1. writer'[w].pc = "forget" /\ writer'[w].path = q /\ writer'[w].in = b
    BY <1>1, <1>2, StorageCall
  <2>2. Storage!Agreed(q)
    BY <1>3 DEF Storage!OnItsWay
  <2>3. Storage!Other(b) \in Storage!Buckets /\ Storage!Other(b) # b
    BY <1>4 DEF Storage!Buckets, Storage!Other
  <2>4. q \in bytes'[Storage!Other(b)] <=> row'[q] = Storage!Other(b)
    BY <1>1, <1>5, <2>2, <2>3 DEF Storage!Agreed
  <2> QED BY <1>2, <1>5, <2>1, <2>4 DEF Storage!OnItsWay, Storage!Apart, Storage!Other
<1> QED BY <1>1, <1>2, <1>3, <1>5, <1>6, <1>7, StorageCall, StorageWorks

\* A removal forgets the row last.
LEMMA StorageForgetRow ==
    ASSUME Storage!StorageAssumption, Storage!IInv, NEW w \in StorageCalls, NEW ok \in BOOLEAN, Storage!ForgetRow(w, ok)
    PROVE  Storage!IInv'
<1> DEFINE b == writer[w].in
           next == IF row[writer[w].path] \in {b, "none"} THEN "removed" ELSE "astray"
<1>1. Storage!TypeOK /\ Storage!Step(w, "forget", next, ok) /\ bytes' = bytes
      /\ row' = [row EXCEPT ![writer[w].path] = IF ok THEN "none" ELSE @]
  BY DEF Storage!IInv, Storage!ForgetRow
<1>2. "forget" \in AtWork /\ next \in {"removed", "astray"}
  BY DEF AtWork
<1> PICK q : q = writer[w].path
  OBVIOUS
<1>3. q \in FolderPaths /\ q \in StoredPaths /\ writer[w].pc = "forget"
  <2>1. writer[w].pc = "forget"
    BY <1>1 DEF Storage!Step
  <2> QED BY <2>1 DEF Storage!IInv, Storage!TypeOK, Storage!Alone, Storage!StorageAssumption
<1>4. row \in [StoredPaths -> Storage!Buckets \cup {"none"}] /\ b \in Storage!Buckets
  BY <1>1 DEF Storage!TypeOK
<1>5. /\ row' \in [StoredPaths -> Storage!Buckets \cup {"none"}]
      /\ \A x \in FolderPaths : x # q => /\ row'[x] = row[x]
                              /\ \A c \in Storage!Buckets : x \in bytes'[c] <=> x \in bytes[c]
      /\ ok => row'[q] = "none"
  <2>1. FolderPaths \subseteq StoredPaths
    BY DEF Storage!StorageAssumption
  <2> QED BY <1>1, <1>3, <1>4, <2>1
<1>6. next = "removed" => row[q] \in {b, "none"}
  OBVIOUS
<1> HIDE DEF next
<1>7. Storage!TypeOK'
  BY <1>1, <1>2, <1>5, StorageCall DEF Storage!TypeOK
<1>8. Storage!OnItsWay(writer[w]) =>
              \/ writer'[w].pc \in Astray
              \/ writer'[w].pc \in AtWork /\ Storage!OnItsWay(writer[w])'
              \/ writer'[w].pc \notin AtWork /\ Storage!Agreed(q)'
  <2> SUFFICES ASSUME Storage!OnItsWay(writer[w]), ok, next = "removed"
               PROVE  writer'[w].pc \notin AtWork /\ Storage!Agreed(q)'
    BY <1>1, <1>2, StorageCall DEF Astray
  <2>1. writer'[w].pc = "removed"
    BY <1>1, <1>2, StorageCall
  <2>2. q \notin bytes[b] /\ Storage!Apart(q, Storage!Other(b))
    BY <1>3 DEF Storage!OnItsWay
  <2>3. \A c \in Storage!Buckets : c = b \/ c = Storage!Other(b)
    BY <1>4 DEF Storage!Buckets, Storage!Other
  <2>4. Storage!Other(b) \notin {b, "none"} /\ "none" \notin Storage!Buckets
    BY <1>4 DEF Storage!Buckets, Storage!Other
  <2>5. \A c \in Storage!Buckets : q \notin bytes[c]
    BY <1>6, <2>2, <2>3, <2>4 DEF Storage!Apart
  <2> QED BY <1>1, <1>5, <2>1, <2>4, <2>5 DEF Storage!Agreed, AtWork
<1> QED BY <1>1, <1>2, <1>3, <1>5, <1>7, <1>8, StorageCall, StorageWorks

\* A call starts at a path nobody else is at, or mixes it.
LEMMA StorageEnter ==
    ASSUME Storage!StorageAssumption, Storage!IInv, NEW w \in StorageCalls, NEW p \in FolderPaths,
           NEW step \in {"bytes", "unlink"}, NEW b \in Storage!Buckets, Storage!Enter(w, p, step, b)
    PROVE  Storage!IInv'
<1>1. /\ Storage!TypeOK /\ writer[w].pc = "idle" /\ writer[w].path = 0
      /\ writer' = [writer EXCEPT ![w] = [pc |-> step, path |-> p, in |-> b, displaced |-> "none"]]
      /\ mixed' = IF Storage!Busy(p) # {} \/ Storage!Clearing THEN mixed \cup {p} ELSE mixed
      /\ row' = row /\ bytes' = bytes /\ clear' = clear /\ storageFaults' = storageFaults
  BY DEF Storage!IInv, Storage!Alone, Storage!Enter
<1>2. /\ writer'[w] = [pc |-> step, path |-> p, in |-> b, displaced |-> "none"]
      /\ writer'[w].path = p /\ writer'[w].pc = step
      /\ \A x \in StorageCalls : x # w => writer'[x] = writer[x]
  BY <1>1 DEF Storage!TypeOK
<1>3. Storage!TypeOK'
  <2>1. writer' \in [StorageCalls -> [pc : {"idle", "bytes", "read", "record", "displace", "unlink",
                                  "forget", "stored", "removed", "astray", "stray", "failed"},
                              path : FolderPaths \cup {0}, in : Storage!Buckets,
                              displaced : Storage!Buckets \cup {"none"}]]
    BY <1>1 DEF Storage!TypeOK
  <2>2. \A x \in StorageCalls : writer'[x].displaced # writer'[x].in
    BY <1>1, <1>2 DEF Storage!TypeOK, Storage!Buckets
  <2>3. mixed' \subseteq FolderPaths
    BY <1>1 DEF Storage!TypeOK
  <2> QED BY <1>1, <2>1, <2>2, <2>3 DEF Storage!TypeOK
<1>4. mixed \subseteq mixed' /\ mixed' \subseteq mixed \cup {p}
  BY <1>1
<1>5. p \notin mixed' => Storage!Busy(p) = {} /\ ~Storage!Clearing /\ p \notin mixed
  BY <1>1
<1>6. Storage!Busy(p)' \subseteq Storage!Busy(p) \cup {w}
  BY <1>2 DEF Storage!Busy
<1>7. ~Storage!Broken(p)' => ~Storage!Broken(p)
  <2>1. \A x \in Storage!On(p) : x # w
    BY <1>1 DEF Storage!On, Storage!StorageAssumption
  <2>2. \A x \in Storage!On(p) : x \in Storage!On(p)' /\ writer'[x] = writer[x]
    BY <1>2, <2>1 DEF Storage!On
  <2> QED BY <2>2 DEF Storage!Broken
<1>8. p \notin mixed' /\ ~Storage!Broken(p)' /\ clear.pc # "failed" =>
        writer'[w].pc \in AtWork /\ Storage!OnItsWay(writer[w])'
  <2> SUFFICES ASSUME p \notin mixed', ~Storage!Broken(p)', clear.pc # "failed"
               PROVE  Storage!OnItsWay(writer[w])'
    BY <1>2 DEF AtWork
  <2>1. Storage!Followed(p)
    BY <1>5, <1>7 DEF Storage!IInv, Storage!Following
  <2>2. clear.pc \in {"idle", "done"}
    BY <1>1, <1>5 DEF Storage!Clearing
  <2>3. Storage!Agreed(p)
    BY <1>5, <2>1, <2>2 DEF Storage!Followed
  <2> QED BY <1>1, <1>2, <2>3 DEF Storage!OnItsWay, Storage!Agreed
<1> QED BY <1>1, <1>2, <1>3, <1>4, <1>5, <1>6, <1>8, StorageMoves

\* While no call is on a path and none ends there, only the clearing counts.
LEMMA StorageStill ==
    ASSUME Storage!IInv, writer' = writer, NEW q
    PROVE  /\ Storage!On(q)' = Storage!On(q) /\ Storage!Busy(q)' = Storage!Busy(q)
           /\ Storage!Broken(q)' <=> Storage!Broken(q)
           /\ Storage!Busy(q) \subseteq Storage!On(q)
BY DEF Storage!On, Storage!Busy, Storage!Broken

\* A clearing starts at the first page.
LEMMA StorageClear ==
    ASSUME Storage!StorageAssumption, Storage!IInv, Storage!Clear
    PROVE  Storage!IInv'
<1>1. /\ Storage!TypeOK /\ clear = Storage!NoClear /\ clear' = [clear EXCEPT !.pc = "page"]
      /\ mixed' = mixed \cup {p \in FolderPaths : Storage!Busy(p) # {}}
      /\ row' = row /\ bytes' = bytes /\ writer' = writer /\ storageFaults' = storageFaults
      /\ clear.pc = "idle"
  BY DEF Storage!IInv, Storage!Advancing, Storage!Clear
<1>2. /\ clear'.pc = "page" /\ clear'.page = {} /\ clear'.after = 0 /\ clear'.from = 0
      /\ clear'.pages = 0
  BY <1>1 DEF Storage!NoClear
<1>3. Storage!TypeOK'
  <2>1. mixed' \subseteq FolderPaths
    BY <1>1 DEF Storage!TypeOK
  <2> QED BY <1>1, <2>1 DEF Storage!TypeOK
<1>4. Storage!Alone'
  <2>1. \A w \in StorageCalls : writer'[w].pc = "idle" <=> writer'[w].path = 0
    BY <1>1 DEF Storage!IInv, Storage!Alone
  <2>2. \A p \in FolderPaths \ mixed' : Storage!Busy(p)' = {}
    BY <1>1, StorageStill
  <2> QED BY <2>1, <2>2 DEF Storage!Alone
<1>5. Storage!Following'
  <2> SUFFICES ASSUME NEW p \in FolderPaths \ mixed', ~Storage!Broken(p)' PROVE Storage!Followed(p)'
    BY DEF Storage!Following
  <2>1. Storage!Busy(p) = {} /\ Storage!Busy(p)' = {} /\ p \notin mixed /\ ~Storage!Broken(p)
    BY <1>1, StorageStill
  <2>2. Storage!Agreed(p)
    BY <1>1, <2>1 DEF Storage!IInv, Storage!Following, Storage!Followed
  <2>3. Storage!Agreed(p)'
    BY <1>1, <2>2 DEF Storage!Agreed
  <2> QED BY <1>2, <2>1, <2>3 DEF Storage!Followed
<1>6. Storage!Swept'
  <2> SUFFICES ASSUME NEW p \in FolderPaths, Storage!On(p)' = {} PROVE p \notin mixed' /\ Storage!SweptAt(p)'
    BY DEF Storage!Swept
  <2>1. Storage!On(p) = {} /\ Storage!Busy(p) = {}
    BY <1>1, StorageStill
  <2>2. p \notin mixed'
    BY <1>1, <2>1 DEF Storage!IInv, Storage!Swept
  <2>3. ~(p <= 0)
    BY DEF Storage!StorageAssumption
  <2> QED BY <1>2, <2>2, <2>3 DEF Storage!SweptAt
<1>7. Storage!Advancing'
  <2>1. \A S : Cardinality(S) \in Nat \/ ~IsFiniteSet(S)
    BY FS_CardinalityType
  <2>2. \A S : S \subseteq FolderPaths => IsFiniteSet(S)
    BY FS_Subset, StorageSets DEF Storage!StorageAssumption
  <2>3. Cardinality({p \in FolderPaths : p <= clear'.after}) \in Nat /\ Cardinality(FolderPaths) \in Nat
    BY <2>1, <2>2
  <2> DEFINE s == Cardinality({p \in FolderPaths : p <= clear'.after})
             n == Cardinality(FolderPaths)
  <2>4. clear'.pages <= s /\ clear'.pages <= n + 1 /\ ~(clear'.pages > 1)
    <3>1. s \in Nat /\ n \in Nat
      BY <2>3
    <3> HIDE DEF s, n
    <3> QED BY <1>2, <3>1
  <2> QED BY <1>2, <2>4, StorageSets DEF Storage!Advancing
<1> QED BY <1>3, <1>4, <1>5, <1>6, <1>7 DEF Storage!IInv

\* A row of another folder comes or goes.
LEMMA StorageNeighbour ==
    ASSUME Storage!StorageAssumption, Storage!IInv, NEW n \in StoredPaths, Storage!Neighbour(n)
    PROVE  Storage!IInv'
<1>1. /\ Storage!TypeOK /\ n \notin FolderPaths /\ row' = [row EXCEPT ![n] = "none"]
      /\ bytes' = [b \in Storage!Buckets |-> bytes[b] \ {n}]
      /\ writer' = writer /\ clear' = clear /\ mixed' = mixed /\ storageFaults' = storageFaults
  BY DEF Storage!IInv, Storage!Neighbour
<1>2. \A q \in FolderPaths : /\ row'[q] = row[q]
                    /\ \A b \in Storage!Buckets : q \in bytes'[b] <=> q \in bytes[b]
  BY <1>1 DEF Storage!TypeOK, Storage!StorageAssumption
<1>3. Storage!TypeOK'
  BY <1>1 DEF Storage!TypeOK
<1>4. ASSUME NEW q \in FolderPaths
      PROVE  /\ Storage!On(q)' = Storage!On(q) /\ Storage!Busy(q)' = Storage!Busy(q)
             /\ Storage!Broken(q)' <=> Storage!Broken(q)
             /\ Storage!Followed(q) => Storage!Followed(q)'
             /\ Storage!SweptAt(q) => Storage!SweptAt(q)'
  <2>1. Storage!On(q)' = Storage!On(q)
    BY <1>1, StorageStill
  <2>2. \A x \in Storage!On(q) : writer'[x] = writer[x] /\ writer[x].in \in Storage!Buckets
    BY <1>1 DEF Storage!On, Storage!TypeOK
  <2>3. row'[q] = row[q] /\ \A b \in Storage!Buckets : q \in bytes'[b] <=> q \in bytes[b]
    BY <1>2
  <2> QED BY <1>1, <2>1, <2>2, <2>3, StorageElsewhere
<1>5. Storage!Alone'
  BY <1>1, <1>4 DEF Storage!IInv, Storage!Alone, Storage!Clearing
<1>6. Storage!Following'
  BY <1>1, <1>4 DEF Storage!IInv, Storage!Following
<1>7. Storage!Swept'
  BY <1>1, <1>4 DEF Storage!IInv, Storage!Swept
<1>8. Storage!Advancing'
  BY <1>1, StorageSets DEF Storage!IInv, Storage!Advancing, Storage!NoClear
<1> QED BY <1>3, <1>5, <1>6, <1>7, <1>8 DEF Storage!IInv

\* The clearing goes on: what it leaves of the calls and of mixed.
LEMMA StorageSweeps ==
    ASSUME Storage!StorageAssumption, Storage!IInv, Storage!Clearing, writer' = writer, mixed' = mixed,
           Storage!TypeOK', Storage!Advancing',
           clear'.pc # "failed" => \A p \in FolderPaths \ mixed :
                /\ ~Storage!Broken(p) /\ Storage!Followed(p) /\ Storage!Busy(p) = {}
                /\ Storage!Busy(p)' = {}
                => Storage!Followed(p)',
           \A p \in FolderPaths : Storage!On(p) = {} /\ Storage!SweptAt(p) => Storage!SweptAt(p)'
    PROVE  Storage!IInv'
<1>0. clear.pc # "failed" /\ \A p \in FolderPaths \ mixed : Storage!Busy(p) = {}
  BY DEF Storage!IInv, Storage!Alone, Storage!Clearing
<1>1. Storage!Alone'
  <2>1. \A w \in StorageCalls : writer'[w].pc = "idle" <=> writer'[w].path = 0
    BY DEF Storage!IInv, Storage!Alone
  <2>2. \A p \in FolderPaths \ mixed' : Storage!Busy(p)' = {}
    BY <1>0, StorageStill
  <2> QED BY <2>1, <2>2 DEF Storage!Alone
<1>2. Storage!Following'
  BY <1>0, StorageStill DEF Storage!IInv, Storage!Following
<1>3. Storage!Swept'
  BY StorageStill DEF Storage!IInv, Storage!Swept
<1> QED BY <1>1, <1>2, <1>3 DEF Storage!IInv

\* The last path of a page is the greatest of it.
LEMMA StorageLast ==
    ASSUME NEW S, S \subseteq Nat, IsFiniteSet(S)
    PROVE  /\ S = {} => Storage!Last(S) = 0
           /\ S # {} => Storage!Last(S) \in S /\ \A q \in S : q <= Storage!Last(S)
<1>1. CASE S = {}
  BY <1>1 DEF Storage!Last
<1>2. CASE S # {}
  <2>1. \E m \in S : \A n \in S : n <= m
    BY <1>2, GreatestNumber
  <2> QED BY <1>2, <2>1 DEF Storage!Last
<1> QED BY <1>1, <1>2

\* How many files of the folder a clearing has passed when it has read up to a path.
LEMMA StorageReach ==
    ASSUME Storage!StorageAssumption
    PROVE  /\ IsFiniteSet(FolderPaths) /\ Cardinality(FolderPaths) \in Nat
           /\ \A a : Cardinality({p \in FolderPaths : p <= a}) \in 0..Cardinality(FolderPaths)
           /\ Cardinality({p \in FolderPaths : p <= 0}) = 0
           /\ \A a, c \in Nat : c \in FolderPaths /\ a < c =>
                Cardinality({p \in FolderPaths : p <= a}) < Cardinality({p \in FolderPaths : p <= c})
<1>1. IsFiniteSet(FolderPaths) /\ Cardinality(FolderPaths) \in Nat /\ \A p \in FolderPaths : p \in Nat \ {0}
  BY FS_Subset, FS_CardinalityType, StorageSets DEF Storage!StorageAssumption
<1>2. \A S : S \subseteq FolderPaths => IsFiniteSet(S) /\ Cardinality(S) \in 0..Cardinality(FolderPaths)
  BY <1>1, FS_Subset, FS_CardinalityType
<1>3. Cardinality({p \in FolderPaths : p <= 0}) = 0
  <2>1. \A p \in FolderPaths : ~(p <= 0)
    BY <1>1
  <2>2. {p \in FolderPaths : p <= 0} = {}
    BY <2>1
  <2> QED BY <2>2, FS_EmptySet
<1>4. ASSUME NEW a \in Nat, NEW c \in Nat, c \in FolderPaths, a < c
      PROVE  Cardinality({p \in FolderPaths : p <= a}) < Cardinality({p \in FolderPaths : p <= c})
  <2> DEFINE A == {p \in FolderPaths : p <= a}
             C == {p \in FolderPaths : p <= c}
  <2>1. ASSUME NEW p \in FolderPaths, p <= a PROVE p <= c
    <3>1. p \in Nat
      BY <1>1
    <3> QED BY <1>4, <2>1, <3>1
  <2>2. ~(c <= a) /\ c <= c
    BY <1>4
  <2>3. A \subseteq C /\ c \in C /\ c \notin A /\ C \subseteq FolderPaths
    BY <1>4, <2>1, <2>2
  <2> HIDE DEF A, C
  <2>4. IsFiniteSet(C) /\ Cardinality(A) \in Nat /\ Cardinality(C) \in Nat
    BY <1>1, <2>3, FS_Subset, FS_CardinalityType
  <2>5. Cardinality(A) <= Cardinality(C) /\ Cardinality(A) # Cardinality(C)
    BY <2>3, <2>4, FS_Subset
  <2>6. Cardinality(A) < Cardinality(C)
    BY <2>4, <2>5
  <2> QED BY <2>6 DEF A, C
<1> QED BY <1>1, <1>2, <1>3, <1>4

\* A page has the rows of its folder up to its last, and is short only at the end.
LEMMA StoragePage ==
    ASSUME Storage!StorageAssumption, Storage!IInv, NEW a, a = clear.after
    PROVE  LET page == Storage!Page(a).objects
               full == Storage!Page(a).full IN
           /\ full \in BOOLEAN /\ page \subseteq FolderPaths /\ Storage!Last(page) \in FolderPaths \cup {0}
           /\ \A p \in page : p > a
           /\ page # {} => Storage!Last(page) \in page
           /\ \A p \in FolderPaths : row[p] # "none" /\ p > a /\ (p <= Storage!Last(page) \/ ~full) => p \in page
           /\ full /\ page = {} => Cardinality({p \in StoredPaths \ FolderPaths : row[p] # "none"}) > ClearedPage
<1> DEFINE rest == {p \in StoredPaths : row[p] # "none" /\ p > a}
           rows == Storage!Lowest(ClearedPage + 1, rest)
           kept == rows \cap FolderPaths
           full == Storage!Page(a).full
           page == Storage!Page(a).objects
<1>1. full = (Cardinality(rows) > ClearedPage) /\ page = IF full THEN Storage!Lowest(ClearedPage, kept) ELSE kept
  BY StorageSets DEF Storage!Page
<1>1a. (full => Cardinality(rows) > ClearedPage) /\ (~full => ~(Cardinality(rows) > ClearedPage))
  <2> HIDE DEF rows, full
  <2> QED BY <1>1
<1>2. /\ StoredPaths \subseteq Nat \ {0} /\ IsFiniteSet(StoredPaths) /\ FolderPaths \subseteq StoredPaths
      /\ ClearedPage \in Nat /\ ClearedPage > 0 /\ ClearedPage + 1 \in Nat
  BY StorageSets DEF Storage!StorageAssumption
<1>3. rest \subseteq Nat /\ IsFiniteSet(rest)
  <2>1. rest \subseteq StoredPaths
    OBVIOUS
  <2> HIDE DEF rest
  <2> QED BY <1>2, <2>1, FS_Subset
<1>4. /\ rows \subseteq rest /\ \A p \in rows, q \in rest : q < p => q \in rows
      /\ Cardinality(rows) < ClearedPage + 1 => rows = rest
  <2> HIDE DEF rest
  <2> QED BY <1>2, <1>3, LowestNumbers
<1>5. /\ IsFiniteSet(rows) /\ Cardinality(rows) \in Nat /\ rows \subseteq Nat
      /\ IsFiniteSet(kept) /\ kept \subseteq Nat
  <2> HIDE DEF rest, rows
  <2> QED BY <1>3, <1>4, FS_Subset, FS_CardinalityType
<1>6. ~full => rows = rest
  <2> HIDE DEF rest, rows, full
  <2> QED BY <1>1a, <1>2, <1>4, <1>5
<1>7. LET l == Storage!Lowest(ClearedPage, kept) IN
      l \subseteq kept /\ (\A p \in l, q \in kept : q < p => q \in l) /\ (kept # {} => l # {})
  <2> HIDE DEF kept
  <2> QED BY <1>2, <1>5, LowestNumbers
<1> HIDE DEF rows, full, page
<1>8. /\ page \subseteq kept /\ \A p \in page, q \in kept : q < p => q \in page
      /\ kept # {} => page # {}
      /\ ~full => page = kept
  <2> HIDE DEF kept
  <2> QED BY <1>1, <1>7
<1>9. IsFiniteSet(page) /\ page \subseteq Nat /\ page \subseteq FolderPaths
  BY <1>5, <1>8, FS_Subset
<1>10. full \in BOOLEAN
  BY <1>1
<1>11. /\ page = {} => Storage!Last(page) = 0
       /\ page # {} => Storage!Last(page) \in page /\ \A q \in page : q <= Storage!Last(page)
  BY <1>9, StorageLast
<1>12. \A p \in page : p > a
  BY <1>4, <1>8
<1>13. ASSUME NEW p \in FolderPaths, row[p] # "none", p > a, p <= Storage!Last(page) \/ ~full
       PROVE  p \in page
  <2>1. p \in rest /\ p \in Nat /\ p > 0
    BY <1>2, <1>13
  <2>2. CASE ~full
    BY <1>6, <1>8, <2>1, <2>2
  <2>3. CASE p <= Storage!Last(page)
    <3>1. page # {}
      BY <1>11, <2>1, <2>3
    <3>2. PICK l \in page : l = Storage!Last(page)
      BY <1>11, <3>1
    <3>3. l \in Nat /\ (p = l \/ p < l) /\ l \in kept
      BY <1>8, <1>9, <2>1, <2>3, <3>2
    <3>4. p \in kept
      BY <1>4, <2>1, <3>3
    <3> QED BY <1>8, <3>3, <3>4
  <2> QED BY <1>13, <2>2, <2>3
<1>14. ASSUME full, page = {}
       PROVE  Cardinality({p \in StoredPaths \ FolderPaths : row[p] # "none"}) > ClearedPage
  <2> DEFINE foreign == {p \in StoredPaths \ FolderPaths : row[p] # "none"}
  <2>1. rows \subseteq foreign
    BY <1>4, <1>8, <1>14
  <2>2. IsFiniteSet(foreign)
    <3>1. foreign \subseteq StoredPaths
      OBVIOUS
    <3> HIDE DEF foreign
    <3> QED BY <1>2, <3>1, FS_Subset
  <2> HIDE DEF foreign
  <2>3. Cardinality(rows) <= Cardinality(foreign) /\ Cardinality(foreign) \in Nat
    BY <2>1, <2>2, FS_Subset, FS_CardinalityType
  <2>4. Cardinality(foreign) > ClearedPage
    BY <1>1a, <1>2, <1>5, <1>14, <2>3
  <2> QED BY <2>4 DEF foreign
<1>15. Storage!Last(page) \in FolderPaths \cup {0}
  BY <1>9, <1>11
<1> QED BY <1>9, <1>10, <1>11, <1>12, <1>13, <1>14, <1>15 DEF full, page

\* A clearing reads the page after the last it has seen.
LEMMA StorageReadPage ==
    ASSUME Storage!StorageAssumption, Storage!IInv, Storage!ReadPage
    PROVE  Storage!IInv'
<1> PICK a : a = clear.after
  OBVIOUS
<1> DEFINE page == Storage!Page(a).objects
           full == Storage!Page(a).full
           others == Cardinality({p \in StoredPaths \ FolderPaths : row[p] # "none"})
<1> PICK passed : passed = (clear.passed \/ (full /\ page = {} /\ others > ClearedPage))
  OBVIOUS
<1>1. /\ Storage!TypeOK /\ clear.pc = "page" /\ clear.pages < MaxPages
      /\ clear' = [pc |-> "remove", page |-> page, full |-> full, from |-> a, after |-> Storage!Last(page),
                   pages |-> clear.pages + 1, passed |-> passed]
      /\ row' = row /\ bytes' = bytes /\ writer' = writer /\ mixed' = mixed
      /\ storageFaults' = storageFaults
  BY StorageSets DEF Storage!IInv, Storage!ReadPage
<1>2. passed \in BOOLEAN /\ (~passed => ~clear.passed /\ ~(full /\ page = {}))
  <2>1. full /\ page = {} => others > ClearedPage
    BY StoragePage
  <2>2. passed \in BOOLEAN
    OBVIOUS
  <2> HIDE DEF full, page, others
  <2> QED BY <2>1, <2>2
<1>3. /\ full \in BOOLEAN /\ page \subseteq FolderPaths /\ Storage!Last(page) \in FolderPaths \cup {0}
      /\ \A p \in page : p > a
      /\ page # {} => Storage!Last(page) \in page
      /\ \A p \in FolderPaths : row[p] # "none" /\ p > a /\ (p <= Storage!Last(page) \/ ~full) => p \in page
  BY StoragePage
<1> HIDE DEF full, page, others
<1>4. /\ clear'.pc = "remove" /\ clear'.page = page /\ clear'.full = full /\ clear'.from = a
      /\ clear'.after = Storage!Last(page) /\ clear'.pages = clear.pages + 1 /\ clear'.passed = passed
  BY <1>1
<1>5. clear.pages \in 0..MaxPages /\ clear.pages + 1 \in 0..MaxPages /\ a \in FolderPaths \cup {0}
      /\ a \in Nat /\ \A p \in FolderPaths : p \in Nat
  <2>1. FolderPaths \subseteq Nat \ {0}
    BY DEF Storage!StorageAssumption
  <2> QED BY <1>1, <2>1 DEF Storage!TypeOK, Storage!StorageAssumption
<1>6. Storage!TypeOK'
  <2>1. clear' \in [pc : {"idle", "page", "remove", "drop", "done", "failed"}, page : SUBSET FolderPaths,
                  after : FolderPaths \cup {0}, from : FolderPaths \cup {0}, full : BOOLEAN, pages : 0..MaxPages,
                  passed : BOOLEAN]
    BY <1>1, <1>2, <1>3, <1>5
  <2> QED BY <1>1, <2>1 DEF Storage!TypeOK
<1>7. Storage!Clearing
  BY <1>1 DEF Storage!Clearing
<1>8. Storage!Advancing'
  <2> DEFINE reach == Cardinality({p \in FolderPaths : p <= a})
             reach1 == Cardinality({p \in FolderPaths : p <= Storage!Last(page)})
             all == Cardinality(FolderPaths)
             m == clear.pages
  <2>1. /\ reach \in 0..all /\ reach1 \in 0..all /\ all \in Nat
    BY StorageReach
  <2>2. a = 0 => reach = 0
    BY StorageReach
  <2>3. ~clear.passed => m <= reach
    BY <1>1, StorageSets DEF Storage!IInv, Storage!Advancing
  <2>4. page # {} => reach < reach1
    <3> SUFFICES ASSUME page # {} PROVE reach < reach1
      OBVIOUS
    <3>1. Storage!Last(page) \in FolderPaths /\ Storage!Last(page) > a
      BY <1>3
    <3>2. Storage!Last(page) \in Nat /\ a \in Nat
      BY <1>5, <3>1
    <3> QED BY <3>1, <3>2, StorageReach
  <2>5. m \in Nat
    BY <1>5
  <2> HIDE DEF reach, reach1, all, m
  <2>6. ~passed => /\ full => m + 1 <= reach1
                   /\ m + 1 <= all + 1
                   /\ m + 1 > 1 => a # 0
    <3> SUFFICES ASSUME ~passed PROVE /\ full => m + 1 <= reach1
                                      /\ m + 1 <= all + 1
                                      /\ m + 1 > 1 => a # 0
      OBVIOUS
    <3>1. m <= reach /\ (full => page # {})
      BY <1>2, <2>3
    <3> QED BY <2>1, <2>2, <2>4, <2>5, <3>1
  <2>7. m + 1 > 0
    BY <2>5
  <2> QED BY <1>4, <2>6, <2>7, StorageSets DEF Storage!Advancing, reach1, all, m
<1>9. \A p \in FolderPaths \ mixed : Storage!Followed(p) /\ Storage!Busy(p) = {} => Storage!Followed(p)'
  <2> SUFFICES ASSUME NEW p \in FolderPaths \ mixed, Storage!Followed(p), Storage!Busy(p) = {}
               PROVE  Storage!Followed(p)'
    OBVIOUS
  <2>1. Storage!Busy(p)' = {} /\ Storage!Agreed(p)
    BY <1>1, StorageStill DEF Storage!Followed
  <2>2. Storage!Agreed(p)'
    BY <1>1, <2>1 DEF Storage!Agreed
  <2> QED BY <1>4, <2>1, <2>2 DEF Storage!Followed
<1>10. \A p \in FolderPaths : Storage!SweptAt(p) => Storage!SweptAt(p)'
  <2> SUFFICES ASSUME NEW p \in FolderPaths, Storage!SweptAt(p), row[p] # "none",
                      p <= Storage!Last(page) \/ ~full
               PROVE  p \in page
    BY <1>1, <1>4 DEF Storage!SweptAt
  <2>1. ~(p <= a)
    BY <1>1 DEF Storage!SweptAt
  <2>2. p > a
    BY <1>5, <2>1
  <2> QED BY <1>3, <2>2
<1> QED BY <1>1, <1>6, <1>7, <1>8, <1>9, <1>10, StorageSweeps

\* A clearing removes the bytes of its page from a bucket.
LEMMA StorageRemoveBytes ==
    ASSUME Storage!StorageAssumption, Storage!IInv, NEW ok \in BOOLEAN, Storage!RemoveBytes(ok)
    PROVE  Storage!IInv'
<1> PICK step : step = IF ok THEN "drop" ELSE "failed"
  OBVIOUS
<1>1. /\ Storage!TypeOK /\ clear.pc = "remove" /\ Storage!May(ok)
      /\ bytes' = [b \in Storage!Buckets |-> IF ok THEN bytes[b] \ {p \in clear.page : row[p] = b}
                                                   ELSE bytes[b]]
      /\ clear' = [clear EXCEPT !.pc = step]
      /\ row' = row /\ writer' = writer /\ mixed' = mixed
  BY DEF Storage!IInv, Storage!RemoveBytes
<1>2. storageFaults' \in 0..MaxStorageFaults
  <2>1. IF ok THEN storageFaults' = storageFaults
        ELSE storageFaults < MaxStorageFaults /\ storageFaults' = storageFaults + 1
    BY <1>1, Zenon DEF Storage!May, Storage!Fault
  <2> QED BY <1>1, <2>1 DEF Storage!TypeOK, Storage!StorageAssumption
<1>3. /\ clear'.pc = step /\ clear'.page = clear.page /\ clear'.full = clear.full
      /\ clear'.from = clear.from /\ clear'.after = clear.after /\ clear'.pages = clear.pages
      /\ clear'.passed = clear.passed
  BY <1>1 DEF Storage!TypeOK
<1>4. Storage!TypeOK'
  <2>1. clear' \in [pc : {"idle", "page", "remove", "drop", "done", "failed"}, page : SUBSET FolderPaths,
                  after : FolderPaths \cup {0}, from : FolderPaths \cup {0}, full : BOOLEAN, pages : 0..MaxPages,
                  passed : BOOLEAN]
    BY <1>1 DEF Storage!TypeOK
  <2>2. bytes' \in [Storage!Buckets -> SUBSET StoredPaths]
    BY <1>1 DEF Storage!TypeOK
  <2> QED BY <1>1, <1>2, <2>1, <2>2 DEF Storage!TypeOK
<1>5. Storage!Clearing
  BY <1>1 DEF Storage!Clearing
<1>6. Storage!Advancing'
  BY <1>1, <1>3, StorageSets DEF Storage!IInv, Storage!Advancing
<1>7. step # "failed" => \A p \in FolderPaths \ mixed :
          Storage!Followed(p) /\ Storage!Busy(p) = {} => Storage!Followed(p)'
  <2> SUFFICES ASSUME ok, NEW p \in FolderPaths \ mixed, Storage!Followed(p), Storage!Busy(p) = {}
               PROVE  Storage!Followed(p)'
    OBVIOUS
  <2>1. Storage!Busy(p)' = {} /\ Storage!Agreed(p)
    BY <1>1, StorageStill DEF Storage!Followed
  <2>2. \A b \in Storage!Buckets : bytes'[b] = bytes[b] \ {q \in clear.page : row[q] = b}
    BY <1>1
  <2>3. IF p \in clear.page THEN \A b \in Storage!Buckets : p \notin bytes'[b] ELSE Storage!Agreed(p)'
    BY <1>1, <2>1, <2>2 DEF Storage!Agreed
  <2> QED BY <1>3, <2>1, <2>3 DEF Storage!Followed
<1>8. \A p \in FolderPaths : Storage!SweptAt(p) => Storage!SweptAt(p)'
  BY <1>1, <1>3 DEF Storage!SweptAt
<1> QED BY <1>1, <1>3, <1>4, <1>5, <1>6, <1>7, <1>8, StorageSweeps

\* A clearing drops the rows of its page, and goes on or is done.
LEMMA StorageDropRows ==
    ASSUME Storage!StorageAssumption, Storage!IInv, NEW ok \in BOOLEAN, Storage!DropRows(ok)
    PROVE  Storage!IInv'
<1> PICK step : step = IF ~ok THEN "failed" ELSE IF clear.full THEN "page" ELSE "done"
  OBVIOUS
<1>1. /\ Storage!TypeOK /\ clear.pc = "drop" /\ Storage!May(ok)
      /\ row' = [p \in StoredPaths |-> IF ok /\ p \in clear.page THEN "none" ELSE row[p]]
      /\ clear' = [clear EXCEPT !.pc = step]
      /\ bytes' = bytes /\ writer' = writer /\ mixed' = mixed
  BY DEF Storage!IInv, Storage!DropRows
<1>2. storageFaults' \in 0..MaxStorageFaults
  <2>1. IF ok THEN storageFaults' = storageFaults
        ELSE storageFaults < MaxStorageFaults /\ storageFaults' = storageFaults + 1
    BY <1>1, Zenon DEF Storage!May, Storage!Fault
  <2> QED BY <1>1, <2>1 DEF Storage!TypeOK, Storage!StorageAssumption
<1>3. /\ clear'.pc = step /\ clear'.page = clear.page /\ clear'.full = clear.full
      /\ clear'.from = clear.from /\ clear'.after = clear.after /\ clear'.pages = clear.pages
      /\ clear'.passed = clear.passed
  BY <1>1 DEF Storage!TypeOK
<1>4. Storage!TypeOK'
  <2>1. clear' \in [pc : {"idle", "page", "remove", "drop", "done", "failed"}, page : SUBSET FolderPaths,
                  after : FolderPaths \cup {0}, from : FolderPaths \cup {0}, full : BOOLEAN, pages : 0..MaxPages,
                  passed : BOOLEAN]
    BY <1>1 DEF Storage!TypeOK
  <2>2. row' \in [StoredPaths -> Storage!Buckets \cup {"none"}]
    BY <1>1 DEF Storage!TypeOK
  <2> QED BY <1>1, <1>2, <2>1, <2>2 DEF Storage!TypeOK
<1>5. Storage!Clearing
  BY <1>1 DEF Storage!Clearing
<1>6. Storage!Advancing'
  BY <1>1, <1>3, StorageSets DEF Storage!IInv, Storage!Advancing
<1>7. ok => \A p \in FolderPaths : row'[p] = IF p \in clear.page THEN "none" ELSE row[p]
  BY <1>1 DEF Storage!StorageAssumption
<1>8. step # "failed" => \A p \in FolderPaths \ mixed :
          Storage!Followed(p) /\ Storage!Busy(p) = {} => Storage!Followed(p)'
  <2> SUFFICES ASSUME ok, NEW p \in FolderPaths \ mixed, Storage!Followed(p), Storage!Busy(p) = {}
               PROVE  Storage!Followed(p)'
    OBVIOUS
  <2>1. Storage!Busy(p)' = {}
    BY <1>1, StorageStill
  <2>2. "none" \notin Storage!Buckets
    BY DEF Storage!Buckets
  <2>3. Storage!Agreed(p)'
    BY <1>1, <1>7, <2>2 DEF Storage!Agreed, Storage!Followed
  <2> QED BY <1>3, <2>1, <2>3 DEF Storage!Followed
<1>9. step # "failed" => \A p \in FolderPaths : Storage!SweptAt(p) => Storage!SweptAt(p)'
  BY <1>1, <1>3, <1>7 DEF Storage!SweptAt
<1>10. step = "failed" => \A p \in FolderPaths : Storage!SweptAt(p)'
  BY <1>3 DEF Storage!SweptAt
<1> QED BY <1>1, <1>3, <1>4, <1>5, <1>6, <1>8, <1>9, <1>10, StorageSweeps

\* The folder starts with a row and its bytes per path.
LEMMA StorageStarts ==
    ASSUME Storage!StorageAssumption, Storage!Init
    PROVE  Storage!IInv
<1>1. /\ row = [p \in StoredPaths |-> "public"]
      /\ bytes = [b \in Storage!Buckets |-> IF b = "public" THEN StoredPaths ELSE {}]
      /\ writer = [w \in StorageCalls |-> Storage!Resting]
      /\ clear = Storage!NoClear /\ mixed = {} /\ storageFaults = 0
  BY DEF Storage!Init
<1>2. Storage!TypeOK
  <2>1. Storage!Resting \in [pc : {"idle", "bytes", "read", "record", "displace", "unlink",
                                  "forget", "stored", "removed", "astray", "stray", "failed"},
                              path : FolderPaths \cup {0}, in : Storage!Buckets,
                              displaced : Storage!Buckets \cup {"none"}]
    BY DEF Storage!Resting, Storage!Buckets
  <2>2. \A w \in StorageCalls : writer[w].displaced # writer[w].in
    BY <1>1 DEF Storage!Resting
  <2>3. clear \in [pc : {"idle", "page", "remove", "drop", "done", "failed"}, page : SUBSET FolderPaths,
                  after : FolderPaths \cup {0}, from : FolderPaths \cup {0}, full : BOOLEAN, pages : 0..MaxPages,
                  passed : BOOLEAN]
    BY <1>1 DEF Storage!NoClear, Storage!StorageAssumption
  <2>4. row \in [StoredPaths -> Storage!Buckets \cup {"none"}]
    BY <1>1 DEF Storage!Buckets
  <2>5. bytes \in [Storage!Buckets -> SUBSET StoredPaths] /\ storageFaults \in 0..MaxStorageFaults
    BY <1>1 DEF Storage!StorageAssumption
  <2>6. writer \in [StorageCalls -> [pc : {"idle", "bytes", "read", "record", "displace", "unlink",
                                  "forget", "stored", "removed", "astray", "stray", "failed"},
                              path : FolderPaths \cup {0}, in : Storage!Buckets,
                              displaced : Storage!Buckets \cup {"none"}]]
    BY <1>1, <2>1
  <2> QED BY <1>1, <2>2, <2>3, <2>4, <2>5, <2>6 DEF Storage!TypeOK
<1>3. \A w \in StorageCalls : writer[w].pc = "idle" /\ writer[w].path = 0
  BY <1>1 DEF Storage!Resting
<1>4. \A p : Storage!Busy(p) = {}
  BY <1>3 DEF Storage!Busy
<1>5. clear.pc = "idle"
  BY <1>1 DEF Storage!NoClear
<1>6. \A p \in FolderPaths : Storage!Agreed(p)
  BY <1>1 DEF Storage!Agreed, Storage!Buckets, Storage!StorageAssumption
<1>7. Storage!Alone
  BY <1>3, <1>4, <1>5 DEF Storage!Alone, Storage!Clearing
<1>8. Storage!Following
  BY <1>4, <1>5, <1>6 DEF Storage!Following, Storage!Followed
<1>9. Storage!Swept
  BY <1>1, <1>5 DEF Storage!Swept, Storage!SweptAt
<1>10. Storage!Advancing
  <2>1. clear.pages = 0 /\ Cardinality(FolderPaths) \in Nat
    BY <1>1, StorageReach DEF Storage!NoClear
  <2> QED BY <1>1, <1>5, <2>1, StorageSets DEF Storage!Advancing
<1> QED BY <1>2, <1>7, <1>8, <1>9, <1>10 DEF Storage!IInv

\* Each step of a call, and of a clearing, keeps the invariant.
LEMMA StorageSteps ==
    ASSUME Storage!StorageAssumption, Storage!IInv, [Storage!Next]_(Storage!storageVars)
    PROVE  Storage!IInv'
<1>1. CASE UNCHANGED Storage!storageVars
  BY <1>1 DEF Storage!storageVars, Storage!IInv, Storage!TypeOK, Storage!Alone, Storage!Following,
     Storage!Swept, Storage!Advancing, Storage!Clearing, Storage!Busy, Storage!On, Storage!Broken,
     Storage!Followed, Storage!SweptAt, Storage!Agreed, Storage!OnItsWay, Storage!Apart
<1>2. CASE Storage!Next
  <2>1. CASE \E w \in StorageCalls : Storage!ReadRow(w)
    BY <2>1, StorageReadRow
  <2>2. CASE \E w \in StorageCalls, p \in FolderPaths, b \in Storage!Buckets :
               Storage!Upload(w, p, b) \/ Storage!Remove(w, p, b)
    BY <2>2, StorageEnter DEF Storage!Upload, Storage!Remove
  <2>3. CASE \E w \in StorageCalls, ok \in BOOLEAN :
               \/ Storage!Store(w, ok) \/ Storage!Record(w, ok) \/ Storage!Displace(w, ok)
               \/ Storage!Unlink(w, ok) \/ Storage!ForgetRow(w, ok)
    BY <2>3, StorageStore, StorageRecord, StorageDisplace, StorageUnlink, StorageForgetRow
  <2>4. CASE \E ok \in BOOLEAN : Storage!RemoveBytes(ok) \/ Storage!DropRows(ok)
    BY <2>4, StorageRemoveBytes, StorageDropRows
  <2>5. CASE \E p \in StoredPaths : Storage!Neighbour(p)
    BY <2>5, StorageNeighbour
  <2> QED BY <1>2, <2>1, <2>2, <2>3, <2>4, <2>5, StorageClear, StorageReadPage DEF Storage!Next
<1> QED BY <1>1, <1>2

\* What the invariant says of a reader of the folder, and of who cleared it.
LEMMA StorageKept ==
    ASSUME Storage!StorageAssumption, Storage!IInv
    PROVE  Storage!TypeOK /\ Storage!RowsAndBytesAgree /\ Storage!ClearEmptiesTheFolder
<1>1. Storage!TypeOK
  BY DEF Storage!IInv
<1>2. Storage!RowsAndBytesAgree
  <2> SUFFICES ASSUME NEW p \in FolderPaths \ mixed, Storage!Busy(p) = {}, clear.pc \in {"idle", "done"},
                      ~Storage!Broken(p)
               PROVE  Storage!Agreed(p)
    BY DEF Storage!RowsAndBytesAgree, Storage!Agreed, Storage!Broken
  <2> QED BY DEF Storage!IInv, Storage!Following, Storage!Followed
<1>3. ASSUME clear.pc = "done", NEW p \in FolderPaths, Storage!On(p) = {}
      PROVE  row[p] = "none" /\ \A b \in Storage!Buckets : p \notin bytes[b]
  <2>1. p \notin mixed /\ row[p] = "none"
    BY <1>3 DEF Storage!IInv, Storage!Swept, Storage!SweptAt
  <2>2. ~Storage!Broken(p) /\ Storage!Busy(p) = {}
    BY <1>3 DEF Storage!Broken, Storage!Busy, Storage!On
  <2>3. Storage!Agreed(p)
    BY <1>3, <2>1, <2>2 DEF Storage!IInv, Storage!Following, Storage!Followed
  <2> QED BY <2>1, <2>3 DEF Storage!Agreed, Storage!Buckets
<1>4. ASSUME clear.pages > 1, clear.from = 0 \/ clear.pages > Cardinality(FolderPaths) + 1
      PROVE  clear.passed
  <2> DEFINE m == clear.pages
             n == Cardinality(FolderPaths)
  <2>1. ~clear.passed => m <= n + 1 /\ clear.from # 0
    BY <1>4, StorageSets DEF Storage!IInv, Storage!Advancing
  <2>2. m \in Nat /\ n \in Nat
    BY <1>1, StorageReach DEF Storage!TypeOK
  <2> HIDE DEF m, n
  <2>3. clear.from = 0 \/ m > n + 1
    BY <1>4 DEF m, n
  <2> QED BY <2>1, <2>2, <2>3
<1> QED BY <1>1, <1>2, <1>3, <1>4, StorageSets DEF Storage!ClearEmptiesTheFolder

\* The variables of OneTimeCodes.
rows == v3
issued == v4
parent == v5
replaced == v6
code == v7
sent == v1
tried == v8
guessed == v9
call == v2
open == v10
codeFaults == v11
USE DEF rows, issued, parent, replaced, code, sent, tried, guessed, call, open, codeFaults

\* The finiteness and the count of the module's own FiniteSets.
LEMMA CodesSets ==
    /\ \A S : Codes!IsFiniteSet(S) <=> IsFiniteSet(S)
    /\ \A S : Codes!Cardinality(S) = Cardinality(S)
<1>1. \A S : Codes!IsFiniteSet(S) <=> IsFiniteSet(S)
  BY DEF Codes!IsFiniteSet, IsFiniteSet
<1>2. \A S : Codes!Cardinality(S) = Cardinality(S)
  BY Zenon DEF Codes!Cardinality, Cardinality
<1> QED BY <1>1, <1>2

-----------------------------------------------------------------------------
(* One-time codes (sign_in/otp.ts, pending_token.ts).                         *)

CodeOuts == {"none", "session", "lost", "unheard", "raised"}
CodeSteps == {"idle", "send", "issue", "budget", "exists", "verify", "replace", "consume",
              "revoke", "done", "dead"}

\* The states of a call, their steps listed.
LEMMA CodesStates ==
    Codes!CallStates = [token: 0..CodeTokens, code: Nat, pc: CodeSteps,
                        out: CodeOuts]
<1>1. UNION {Codes!StepsOf[k] : k \in DOMAIN Codes!StepsOf} = CodeSteps
  BY DEF Codes!StepsOf, CodeSteps
<1> QED BY <1>1 DEF Codes!CallStates, CodeOuts

\* Nobody called yet.
LEMMA CodesStarts == ASSUME Codes!CodeAssumption PROVE Codes!Init => Codes!IInv
<1> SUFFICES ASSUME Codes!Init PROVE Codes!IInv
  OBVIOUS
<1>1. Codes!Placed
  BY DEF Codes!Init, Codes!CodeAssumption, Codes!Placed, Codes!Idle, Codes!StepsOf
<1>2. Codes!TypeOK
  BY CodesStates DEF Codes!Init, Codes!CodeAssumption, Codes!TypeOK, Codes!Idle, Codes!Tokens,
     CodeSteps, CodeOuts
<1>3. Codes!Counted
  <2> SUFFICES ASSUME NEW t \in Codes!Tokens
               PROVE  /\ Codes!IsFiniteSet(Codes!Allowed(t))
                      /\ guessed[t] + Codes!Cardinality(Codes!Allowed(t)) <= tried["verify"][t]
                      /\ guessed[t] + Codes!Cardinality(Codes!Allowed(t)) <= Attempts
    BY DEF Codes!Counted
  <2>1. Codes!Allowed(t) = {}
    BY DEF Codes!Allowed, Codes!Init, Codes!Idle
  <2>2. guessed[t] = 0 /\ tried["verify"][t] = 0 /\ Attempts \in Nat
    BY DEF Codes!Init, Codes!CodeAssumption
  <2> QED BY <2>1, <2>2, CodesSets, FS_EmptySet
<1>4. Codes!TokenSpentOnce
  BY DEF Codes!TokenSpentOnce, Codes!Signed, Codes!Init, Codes!Idle, Codes!CodeAssumption
<1> QED BY <1>1, <1>2, <1>3, <1>4 DEF Codes!IInv, Codes!Init, Codes!Held, Codes!ReplacedUnspent,
           Codes!NoSessionLeftOpen

\* A call takes one step, or is asked for.
CodesMoved(c, tok, k, pc, out) ==
    call' = [call EXCEPT ![c] = [token |-> tok, code |-> k, pc |-> pc, out |-> out]]

\* The types of what is not the call.
CodesTables ==
    /\ issued \in 0..CodeTokens /\ rows \subseteq 1..issued /\ replaced \subseteq 1..issued
    /\ sent \in Nat /\ code \in 0..sent /\ codeFaults \in 0..MaxCodeFaults
    /\ parent \in [Codes!Tokens -> 0..CodeTokens] /\ \A t \in Codes!Tokens : parent[t] < t
    /\ guessed \in [Codes!Tokens -> Nat]
    /\ tried \in [{"resend", "verify"} -> [Codes!Tokens -> Nat]]
    /\ open \subseteq CodeCalls

\* A call that goes on keeps what it knows and what came out of it.
LEMMA CodesGoto ==
    ASSUME Codes!IInv, NEW c \in CodeCalls, NEW pc, Codes!Goto(c, pc)
    PROVE  CodesMoved(c, call[c].token, call[c].code, pc, call[c].out)
<1>1. call[c] \in Codes!CallStates
  BY DEF Codes!IInv, Codes!TypeOK
<1>2. [call[c] EXCEPT !.pc = pc]
         = [token |-> call[c].token, code |-> call[c].code, pc |-> pc, out |-> call[c].out]
  BY <1>1, CodesStates
<1> QED BY <1>2, Zenon DEF Codes!Goto, CodesMoved

\* A call that ends keeps what it knows.
LEMMA CodesEnd ==
    ASSUME Codes!IInv, NEW c \in CodeCalls, NEW out \in CodeOuts,
           Codes!End(c, out)
    PROVE  CodesMoved(c, call[c].token, call[c].code, "done", out)
<1>1. call[c] \in Codes!CallStates
  BY DEF Codes!IInv, Codes!TypeOK
<1>2. [call[c] EXCEPT !.pc = "done", !.out = out]
         = [token |-> call[c].token, code |-> call[c].code, pc |-> "done", out |-> out]
  <2>1. PICK x \in 0..CodeTokens, y \in Nat, z \in CodeSteps, w \in CodeOuts :
           call[c] = [token |-> x, code |-> y, pc |-> z, out |-> w]
    BY <1>1, CodesStates
  <2>2. [call[c] EXCEPT !.pc = "done"] = [token |-> x, code |-> y, pc |-> "done", out |-> w]
    BY <2>1
  <2>3. [[call[c] EXCEPT !.pc = "done"] EXCEPT !.out = out]
           = [token |-> x, code |-> y, pc |-> "done", out |-> out]
    <3> DEFINE e == [token |-> x, code |-> y, pc |-> "done", out |-> w]
    <3>1. [e EXCEPT !.out = out] = [token |-> x, code |-> y, pc |-> "done", out |-> out]
      OBVIOUS
    <3> QED BY <2>2, <3>1
  <2> QED BY <2>1, <2>3
<1>3. call' = [call EXCEPT ![c] = [call[c] EXCEPT !.pc = "done", !.out = out]]
  BY DEF Codes!IInv, Codes!TypeOK, Codes!End
<1> QED BY <1>2, <1>3, Zenon DEF CodesMoved

\* A fault is counted within its bound.
LEMMA CodesFault ==
    ASSUME Codes!CodeAssumption, CodesTables, Codes!Fault \/ UNCHANGED codeFaults
    PROVE  codeFaults' \in 0..MaxCodeFaults
BY DEF Codes!CodeAssumption, CodesTables, Codes!Fault

\* The tables and the calls are in their types.
LEMMA CodesParts == Codes!IInv => /\ CodesTables /\ call \in [CodeCalls -> Codes!CallStates]
                                  /\ \A c \in CodeCalls : call[c].token \in 0..issued /\ call[c].code \in 0..sent
                                      /\ call[c].pc \in Codes!StepsOf[CodeKind[c]] /\ (call[c].pc # "done" => call[c].out = "none")
                                      /\ (CodeKind[c] # "start" /\ call[c].pc # "idle" => call[c].token \in Codes!Tokens)
BY CodesStates DEF Codes!IInv, Codes!TypeOK, CodesTables, Codes!Placed

\* A step that asks GoTrue nothing and lets no verification through keeps the count of the
\* guesses.
LEMMA CodesCountKept ==
    ASSUME Codes!CodeAssumption, Codes!IInv, CodesTables', NEW c \in CodeCalls, NEW k, NEW pc, NEW out,
           CodesMoved(c, call[c].token, k, pc, out),
           pc \in {"exists", "verify"} => call[c].pc \in {"exists", "verify"},
           UNCHANGED <<guessed, tried>>
    PROVE  Codes!Counted'
<1> SUFFICES ASSUME NEW t \in Codes!Tokens
             PROVE  /\ Codes!IsFiniteSet(Codes!Allowed(t)')
                    /\ guessed[t] + Codes!Cardinality(Codes!Allowed(t)') <= tried["verify"][t]
                    /\ guessed[t] + Codes!Cardinality(Codes!Allowed(t)') <= Attempts
  BY DEF Codes!Counted, Codes!Tokens
<1>1. /\ IsFiniteSet(Codes!Allowed(t))
      /\ guessed[t] + Cardinality(Codes!Allowed(t)) <= tried["verify"][t]
      /\ guessed[t] + Cardinality(Codes!Allowed(t)) <= Attempts
  BY CodesSets DEF Codes!IInv, Codes!Counted
<1>2. Codes!Allowed(t)' \subseteq Codes!Allowed(t)
  BY CodesParts DEF Codes!Allowed, CodesMoved
<1>3. /\ IsFiniteSet(Codes!Allowed(t)')
      /\ Cardinality(Codes!Allowed(t)') <= Cardinality(Codes!Allowed(t))
  BY <1>1, <1>2, FS_Subset
<1>4. Cardinality(Codes!Allowed(t)') \in Nat /\ Cardinality(Codes!Allowed(t)) \in Nat
  BY <1>1, <1>3, FS_CardinalityType
<1>5. guessed[t] \in Nat /\ tried["verify"][t] \in Nat /\ Attempts \in Nat
  BY DEF Codes!IInv, Codes!TypeOK, Codes!CodeAssumption
<1> HIDE DEF guessed, tried
<1> QED BY <1>1, <1>3, <1>4, <1>5, CodesSets

\* What a step of c may do to the rows, to the marks of the resends and to the sessions.
CodesRowsFollow(tok, out) ==
    /\ issued <= issued' /\ sent <= sent'
    /\ \A t \in rows' : t \in rows \/ t > issued
    /\ out = "session" => tok \in rows \ rows'
CodesMarksFollow(out) ==
    \A u \in replaced' :
        \/ u \in replaced /\ parent'[u] = parent[u]
        \/ out = "none" /\ parent'[u] \in rows \ rows'
CodesSessionsFollow(c, pc, out) ==
    \A d \in open' :
        \/ d \in open \ {c}
        \/ /\ d = c /\ CodeKind[c] # "resend"
           /\ pc \notin {"idle", "budget", "exists", "verify"}
           /\ pc = "done" => out # "none"
CodesTakes(c, tok, pc, out) ==
    /\ call[c].pc \notin {"done", "dead"}
    /\ pc \in Codes!StepsOf[CodeKind[c]]
    /\ CodeKind[c] # "start" /\ pc # "idle" => tok \in Codes!Tokens
    /\ out # "none" => pc = "done"
    /\ out = "session" => CodeKind[c] = "verify"

\* A step of a call that had not ended keeps the invariant when it answers a session only
\* for a row it took, and the rows, the tokens and the sessions follow.
LEMMA CodesMove ==
    ASSUME Codes!CodeAssumption, Codes!IInv, CodesTables', Codes!Counted',
           NEW c \in CodeCalls, NEW tok \in 0..issued', NEW k \in 0..sent',
           NEW pc, NEW out \in CodeOuts,
           CodesMoved(c, tok, k, pc, out), CodesTakes(c, tok, pc, out),
           CodesRowsFollow(tok, out), CodesMarksFollow(out), CodesSessionsFollow(c, pc, out)
    PROVE  Codes!IInv'
<1> DEFINE next == [token |-> tok, code |-> k, pc |-> pc, out |-> out]
<1>1. /\ call \in [CodeCalls -> Codes!CallStates]
      /\ \A d \in CodeCalls : call[d].token \in 0..issued /\ call[d].code \in 0..sent
      /\ CodesTables
      /\ CodeTokens \in Nat /\ Attempts \in Nat
  BY DEF Codes!IInv, Codes!TypeOK, CodesTables, Codes!CodeAssumption
<1>2. /\ issued \in 0..CodeTokens /\ rows \subseteq 1..issued /\ sent \in Nat
      /\ issued' \in 0..CodeTokens /\ rows' \subseteq 1..issued' /\ sent' \in Nat
      /\ issued <= issued' /\ sent <= sent'
      /\ replaced \subseteq 1..issued /\ replaced' \subseteq 1..issued' 
  BY <1>1 DEF CodesTables, CodesRowsFollow
<1>3. next \in Codes!CallStates
  <2>1. pc \in CodeSteps
    BY DEF Codes!StepsOf, Codes!CodeAssumption, CodeSteps, CodesTakes
  <2>2. tok \in 0..CodeTokens /\ k \in Nat
    BY <1>1, <1>2
  <2> QED BY <2>1, <2>2, CodesStates
<1>4. /\ call' \in [CodeCalls -> Codes!CallStates]
      /\ call'[c] = next
      /\ \A d \in CodeCalls \ {c} : call'[d] = call[d]
  BY <1>1, <1>3 DEF CodesMoved
<1>5. next.token = tok /\ next.code = k /\ next.pc = pc /\ next.out = out
  OBVIOUS
<1> HIDE DEF next
<1>6. Codes!TypeOK'
  <2>1. \A d \in CodeCalls : call'[d].token \in 0..issued' /\ call'[d].code \in 0..sent'
    BY <1>1, <1>2, <1>4, <1>5
  <2> QED BY <1>4, <2>1 DEF Codes!TypeOK, CodesTables
<1>7. Codes!Placed'
  BY <1>4, <1>5 DEF Codes!Placed, Codes!IInv, CodesTakes
<1>8. Codes!Held'
  <2> SUFFICES ASSUME NEW d \in open'
               PROVE  /\ CodeKind[d] # "resend"
                      /\ call'[d].pc \notin {"idle", "budget", "exists", "verify"}
    BY DEF Codes!Held
  <2>1. CASE d = c
    BY <1>4, <1>5, <2>1 DEF CodesSessionsFollow
  <2>2. CASE d # c
    BY <1>1, <1>4, <2>2 DEF CodesSessionsFollow, Codes!IInv, Codes!Held, CodesTables
  <2> QED BY <2>1, <2>2
<1>9. \A d \in CodeCalls : Codes!Signed(d)' <=> IF d = c THEN out = "session" ELSE Codes!Signed(d)
  BY <1>4, <1>5 DEF Codes!Signed, CodesTakes
<1>10. Codes!NoSessionLeftOpen'
  <2> SUFFICES ASSUME NEW d \in open', call'[d].pc = "done"
               PROVE  Codes!Signed(d)' \/ call'[d].out \in {"lost", "unheard", "raised"}
    BY DEF Codes!NoSessionLeftOpen, Codes!Ended
  <2>1. CASE d = c
    BY <1>4, <1>5, <1>9, <2>1 DEF CodesSessionsFollow, CodeOuts
  <2>2. CASE d # c
    BY <1>1, <1>4, <1>9, <2>2 DEF CodesSessionsFollow, Codes!IInv, Codes!NoSessionLeftOpen,
       Codes!Ended, CodesTables
  <2> QED BY <2>1, <2>2
<1>11. \A d \in CodeCalls : Codes!Signed(d) => call[d].token \in Codes!Tokens \ rows /\ call[d].token <= issued
  BY <1>1, <1>2 DEF Codes!IInv, Codes!TokenSpentOnce, Codes!Signed, Codes!Placed
<1>12. ASSUME NEW d \in CodeCalls, Codes!Signed(d)'
       PROVE  /\ call'[d].token \notin rows'
              /\ d # c => call'[d] = call[d] /\ Codes!Signed(d)
              /\ d = c => call'[d].token = tok /\ tok \in rows
  <2>1. CASE d # c
    <3>1. call'[d] = call[d] /\ Codes!Signed(d)
      BY <1>4, <1>9, <1>12, <2>1
    <3>2. call[d].token \notin rows /\ call[d].token <= issued /\ call[d].token \in 0..issued
      BY <1>1, <1>11, <3>1
    <3>3. ~(call[d].token > issued)
      BY <1>2, <3>2
    <3> QED BY <2>1, <3>1, <3>2, <3>3 DEF CodesRowsFollow
  <2>2. CASE d = c
    BY <1>4, <1>5, <1>9, <1>12, <2>2 DEF CodesRowsFollow
  <2> QED BY <2>1, <2>2
<1>13. Codes!TokenSpentOnce'
  <2>1. ASSUME NEW d \in CodeCalls, NEW e \in CodeCalls, Codes!Signed(d)', Codes!Signed(e)', d # e
        PROVE  call'[d].token # call'[e].token
    BY <1>11, <1>12, <2>1 DEF Codes!IInv, Codes!TokenSpentOnce
  <2>2. \A t \in Codes!Tokens : guessed'[t] <= Attempts
    <3> SUFFICES ASSUME NEW t \in Codes!Tokens PROVE guessed'[t] <= Attempts
      OBVIOUS
    <3>1. /\ IsFiniteSet(Codes!Allowed(t)')
          /\ guessed'[t] + Cardinality(Codes!Allowed(t)') <= Attempts
      BY CodesSets DEF Codes!Counted, Codes!Tokens
    <3>2. Cardinality(Codes!Allowed(t)') \in Nat
      BY <3>1, FS_CardinalityType
    <3>3. guessed'[t] \in Nat
      BY DEF CodesTables, Codes!Tokens
    <3> QED BY <1>1, <3>1, <3>2, <3>3
  <2> QED BY <1>12, <2>1, <2>2 DEF Codes!TokenSpentOnce, Codes!Tokens
<1>14. Codes!ReplacedUnspent'
  <2> SUFFICES ASSUME NEW u \in replaced'
               PROVE  /\ parent'[u] \in Codes!Tokens \ rows'
                      /\ \A d \in CodeCalls : Codes!Signed(d)' => call'[d].token # parent'[u]
    BY DEF Codes!ReplacedUnspent, Codes!Tokens
  <2>1. CASE u \in replaced /\ parent'[u] = parent[u]
    <3>1. /\ parent[u] \in Codes!Tokens \ rows
          /\ \A d \in CodeCalls : Codes!Signed(d) => call[d].token # parent[u]
      BY <2>1 DEF Codes!IInv, Codes!ReplacedUnspent
    <3>2. u \in 1..issued /\ u \in Codes!Tokens
      BY <1>1, <1>2, <2>1 DEF Codes!Tokens
    <3>3. parent[u] \in 0..CodeTokens /\ parent[u] < u
      BY <1>1, <3>2 DEF CodesTables
    <3>4. ~(parent[u] > issued)
      BY <1>2, <3>2, <3>3
    <3>5. parent[u] \notin rows'
      BY <3>1, <3>4 DEF CodesRowsFollow
    <3>6. \A d \in CodeCalls : Codes!Signed(d)' => call'[d].token # parent[u]
      BY <1>12, <3>1
    <3> QED BY <2>1, <3>1, <3>5, <3>6
  <2>2. CASE out = "none" /\ parent'[u] \in rows \ rows'
    <3>1. parent'[u] \in Codes!Tokens
      <4>1. parent'[u] \in 1..issued
        BY <1>2, <2>2
      <4> QED BY <1>1, <1>2, <4>1 DEF Codes!Tokens
    <3>2. \A d \in CodeCalls : Codes!Signed(d)' => call'[d].token # parent'[u]
      BY <1>9, <1>11, <1>12, <2>2
    <3> QED BY <2>2, <3>1, <3>2
  <2> QED BY <2>1, <2>2 DEF CodesMarksFollow
<1> QED BY <1>6, <1>7, <1>8, <1>10, <1>13, <1>14 DEF Codes!IInv

\* The same of a call on its way, which keeps its token and its code.
LEMMA CodesMoveOn ==
    ASSUME Codes!CodeAssumption, Codes!IInv, CodesTables', Codes!Counted', NEW c \in CodeCalls,
           NEW pc \in Codes!StepsOf[CodeKind[c]], NEW out \in CodeOuts,
           CodesMoved(c, call[c].token, call[c].code, pc, out),
           call[c].pc \notin {"done", "dead"}, call[c].pc = "idle" => CodeKind[c] = "start",
           out # "none" => pc = "done", out = "session" => CodeKind[c] = "verify",
           CodesRowsFollow(call[c].token, out), CodesMarksFollow(out),
           CodesSessionsFollow(c, pc, out)
    PROVE  Codes!IInv'
<1>1. call[c].token \in 0..issued' /\ call[c].code \in 0..sent'
  BY CodesParts DEF CodesRowsFollow, CodesTables
<1>2. CodesTakes(c, call[c].token, pc, out)
  BY CodesParts DEF CodesTakes
<1> QED BY <1>1, <1>2, CodesMove

\* The door has a session and a code to send, or is not told of its session.
LEMMA CodesSignIn ==
    ASSUME Codes!CodeAssumption, Codes!IInv, NEW c \in CodeCalls, Codes!SignIn(c)
    PROVE  Codes!IInv'
<1>1. PICK pc \in {"send", "done"}, out \in {"none", "unheard"} :
         /\ CodesMoved(c, call[c].token, call[c].code, pc, out)
         /\ out = (IF pc = "send" THEN "none" ELSE "unheard")
  BY CodesGoto, CodesEnd, CodesParts DEF Codes!SignIn, CodeOuts
<1>2. CodesTables'
  <2>1. codeFaults' \in 0..MaxCodeFaults
    BY CodesParts, CodesFault DEF Codes!SignIn
  <2> QED BY <2>1, CodesParts DEF Codes!SignIn, CodesTables
<1>3. Codes!Counted'
  BY <1>1, <1>2, CodesCountKept DEF Codes!SignIn
<1>4. CodesRowsFollow(call[c].token, out) /\ CodesMarksFollow(out)
  BY <1>1, CodesParts DEF Codes!SignIn, CodesRowsFollow, CodesMarksFollow, CodesTables
<1>5. /\ CodesSessionsFollow(c, pc, out) /\ pc \in Codes!StepsOf[CodeKind[c]]
      /\ out \in CodeOuts /\ (out # "none" => pc = "done") /\ out # "session"
  BY <1>1 DEF Codes!SignIn, CodesSessionsFollow, Codes!StepsOf, CodeOuts
<1> QED BY <1>1, <1>2, <1>3, <1>4, <1>5, CodesMoveOn DEF Codes!SignIn

\* A client comes back.
LEMMA CodesAsk ==
    ASSUME Codes!CodeAssumption, Codes!IInv, NEW c \in CodeCalls, NEW t \in Codes!Tokens,
           NEW k \in {0, sent}, Codes!Ask(c, t, k)
    PROVE  Codes!IInv'
<1>1. CodesMoved(c, t, k, "budget", "none")
  BY DEF Codes!Ask, CodesMoved
<1>2. CodesTables'
  BY CodesParts DEF Codes!Ask, CodesTables
<1>3. Codes!Counted'
  <2>1. \A u \in Codes!Tokens : Codes!Allowed(u)' = Codes!Allowed(u)
    BY CodesParts DEF Codes!Ask, Codes!Allowed
  <2> QED BY <2>1 DEF Codes!IInv, Codes!Counted, Codes!Ask
<1>4. t \in 0..issued' /\ k \in 0..sent' /\ "none" \in CodeOuts
  BY CodesParts DEF Codes!Ask, CodesTables, Codes!Tokens, CodeOuts
<1>5. CodesRowsFollow(t, "none") /\ CodesMarksFollow("none")
  BY CodesParts DEF Codes!Ask, CodesRowsFollow, CodesMarksFollow, CodesTables
<1>6. CodesSessionsFollow(c, "budget", "none")
  BY DEF Codes!Ask, CodesSessionsFollow, Codes!IInv, Codes!Held
<1>7. CodesTakes(c, t, "budget", "none")
  BY DEF Codes!Ask, CodesTakes, Codes!StepsOf, Codes!CodeAssumption
<1> QED BY <1>1, <1>2, <1>3, <1>4, <1>5, <1>6, <1>7, CodesMove

\* The counter lets a try through, or refuses it and drops the row; the limits may refuse.
LEMMA CodesBudget ==
    ASSUME Codes!CodeAssumption, Codes!IInv, NEW c \in CodeCalls, Codes!Budget(c)
    PROVE  Codes!IInv'
<1> DEFINE t == call[c].token
           k == CodeKind[c]
<1>1. k \in {"resend", "verify"} /\ t \in Codes!Tokens /\ call[c].out = "none"
  BY CodesParts DEF Codes!Budget, Codes!StepsOf, Codes!CodeAssumption
<1>2. PICK pc \in {"exists", "done"} :
         /\ CodesMoved(c, call[c].token, call[c].code, pc, "none")
         /\ pc = "exists" => tried[k][t] < Attempts
  <2>1. CASE tried[k][t] >= Attempts
    BY <2>1, CodesEnd DEF Codes!Budget, CodeOuts
  <2>2. CASE ~(tried[k][t] >= Attempts)
    <3>1. tried[k][t] < Attempts
      <4>1. tried[k][t] \in Nat /\ Attempts \in Nat
        BY <1>1, CodesParts DEF CodesTables, Codes!CodeAssumption
      <4> QED BY <2>2, <4>1
    <3>2. Codes!Goto(c, "exists") \/ Codes!End(c, "none")
      BY <2>2 DEF Codes!Budget
    <3> QED BY <1>1, <3>1, <3>2, CodesGoto, CodesEnd DEF CodeOuts
  <2> QED BY <2>1, <2>2
<1>3. rows' \subseteq rows /\ tried' = [tried EXCEPT ![k][t] = @ + 1]
         /\ UNCHANGED <<issued, parent, replaced, code, sent, guessed, open, codeFaults>>
  BY DEF Codes!Budget
<1>4. CodesTables'
  <2>1. tried' \in [{"resend", "verify"} -> [Codes!Tokens -> Nat]]
    BY <1>1, <1>3, CodesParts DEF CodesTables
  <2> QED BY <1>3, <2>1, CodesParts DEF CodesTables, Codes!Tokens
<1>5. Codes!Counted'
  <2> SUFFICES ASSUME NEW u \in Codes!Tokens
               PROVE  /\ Codes!IsFiniteSet(Codes!Allowed(u)')
                      /\ guessed[u] + Codes!Cardinality(Codes!Allowed(u)') <= tried'["verify"][u]
                      /\ guessed[u] + Codes!Cardinality(Codes!Allowed(u)') <= Attempts
    BY <1>3 DEF Codes!Counted, Codes!Tokens
  <2>1. /\ IsFiniteSet(Codes!Allowed(u))
        /\ guessed[u] + Cardinality(Codes!Allowed(u)) <= tried["verify"][u]
        /\ guessed[u] + Cardinality(Codes!Allowed(u)) <= Attempts
    BY CodesSets DEF Codes!IInv, Codes!Counted
  <2>2. /\ guessed[u] \in Nat /\ tried["verify"][u] \in Nat /\ Attempts \in Nat
        /\ tried'["verify"][u] = tried["verify"][u] + (IF k = "verify" /\ u = t THEN 1 ELSE 0)
    BY <1>1, <1>3, CodesParts DEF CodesTables, Codes!CodeAssumption
  <2>3. Cardinality(Codes!Allowed(u)) \in Nat
    BY <2>1, FS_CardinalityType
  <2>4. CASE k = "verify" /\ u = t /\ pc = "exists"
    <3>1. Codes!Allowed(u)' = Codes!Allowed(u) \union {c} /\ c \notin Codes!Allowed(u)
      BY <1>1, <1>2, <2>4, CodesParts DEF Codes!Allowed, CodesMoved, Codes!Budget
    <3>2. /\ IsFiniteSet(Codes!Allowed(u)')
          /\ Cardinality(Codes!Allowed(u)') = Cardinality(Codes!Allowed(u)) + 1
      BY <2>1, <3>1, FS_AddElement
    <3>3. tried["verify"][u] < Attempts
      BY <1>2, <2>4
    <3> HIDE DEF guessed, tried, t, k
    <3> QED BY <2>1, <2>2, <2>3, <2>4, <3>2, <3>3, CodesSets
  <2>5. CASE ~(k = "verify" /\ u = t /\ pc = "exists")
    <3>1. Codes!Allowed(u)' = Codes!Allowed(u)
      BY <1>1, <1>2, <2>5, CodesParts DEF Codes!Allowed, CodesMoved, Codes!Budget
    <3> HIDE DEF guessed, tried, t, k
    <3> QED BY <2>1, <2>2, <2>3, <3>1, CodesSets
  <2> QED BY <2>4, <2>5
<1>6. CodesRowsFollow(call[c].token, "none") /\ CodesMarksFollow("none")
  BY <1>3, CodesParts DEF CodesRowsFollow, CodesMarksFollow, CodesTables
<1>7. CodesSessionsFollow(c, pc, "none") /\ pc \in Codes!StepsOf[CodeKind[c]]
  BY <1>1, <1>3 DEF Codes!Budget, CodesSessionsFollow, Codes!StepsOf, Codes!IInv, Codes!Held
<1> QED BY <1>1, <1>2, <1>4, <1>5, <1>6, <1>7, CodesMoveOn DEF Codes!Budget, CodeOuts

\* Redis did not count, or the table was not read.
LEMMA CodesUncounted ==
    ASSUME Codes!CodeAssumption, Codes!IInv, NEW c \in CodeCalls, Codes!Uncounted(c)
    PROVE  Codes!IInv'
<1>1. CodesMoved(c, call[c].token, call[c].code, "done", "none")
  BY CodesEnd DEF Codes!Uncounted, CodeOuts
<1>2. CodesTables'
  BY CodesParts, CodesFault DEF Codes!Uncounted, CodesTables
<1>3. Codes!Counted'
  BY <1>1, <1>2, CodesCountKept DEF Codes!Uncounted
<1>4. CodesRowsFollow(call[c].token, "none") /\ CodesMarksFollow("none")
  BY CodesParts DEF Codes!Uncounted, CodesRowsFollow, CodesMarksFollow, CodesTables
<1>5. CodesSessionsFollow(c, "done", "none") /\ "done" \in Codes!StepsOf[CodeKind[c]]
  BY CodesParts DEF Codes!Uncounted, CodesSessionsFollow, Codes!StepsOf, Codes!IInv, Codes!Held, Codes!CodeAssumption
<1> QED BY <1>1, <1>2, <1>3, <1>4, <1>5, CodesParts, CodesMoveOn DEF Codes!Uncounted, CodeOuts,
           Codes!StepsOf, Codes!CodeAssumption

\* The row is there, or the call ends.
LEMMA CodesExists ==
    ASSUME Codes!CodeAssumption, Codes!IInv, NEW c \in CodeCalls, Codes!Exists(c)
    PROVE  Codes!IInv'
<1>1. CodeKind[c] \in {"resend", "verify"} /\ call[c].out = "none"
  BY CodesParts DEF Codes!Exists, Codes!StepsOf, Codes!CodeAssumption
<1>2. PICK pc \in {IF CodeKind[c] = "resend" THEN "send" ELSE "verify", "done"} :
         CodesMoved(c, call[c].token, call[c].code, pc, "none")
  BY <1>1, CodesGoto, CodesEnd DEF Codes!Exists, CodeOuts
<1>3. CodesTables'
  BY CodesParts DEF Codes!Exists, CodesTables
<1>4. Codes!Counted'
  BY <1>2, <1>3, CodesCountKept DEF Codes!Exists
<1>5. CodesRowsFollow(call[c].token, "none") /\ CodesMarksFollow("none")
  BY CodesParts DEF Codes!Exists, CodesRowsFollow, CodesMarksFollow, CodesTables
<1>6. CodesSessionsFollow(c, pc, "none") /\ pc \in Codes!StepsOf[CodeKind[c]]
  BY <1>1 DEF Codes!Exists, CodesSessionsFollow, Codes!StepsOf, Codes!IInv, Codes!Held
<1> QED BY <1>1, <1>2, <1>3, <1>4, <1>5, <1>6, CodesMoveOn DEF Codes!Exists, CodeOuts

\* A code is sent in place of the one before.
LEMMA CodesSend ==
    ASSUME Codes!CodeAssumption, Codes!IInv, NEW c \in CodeCalls, Codes!Send(c)
    PROVE  Codes!IInv'
<1>1. CodeKind[c] \in {"start", "resend"} /\ call[c].out = "none"
  BY CodesParts DEF Codes!Send, Codes!StepsOf, Codes!CodeAssumption
<1>2. CodesMoved(c, call[c].token, call[c].code, "issue", "none")
  BY <1>1, CodesGoto DEF Codes!Send
<1>3. CodesTables'
  BY CodesParts DEF Codes!Send, CodesTables
<1>4. Codes!Counted'
  BY <1>2, <1>3, CodesCountKept DEF Codes!Send
<1>5. CodesRowsFollow(call[c].token, "none") /\ CodesMarksFollow("none")
  BY CodesParts DEF Codes!Send, CodesRowsFollow, CodesMarksFollow, CodesTables
<1>6. CodesSessionsFollow(c, "issue", "none") /\ "issue" \in Codes!StepsOf[CodeKind[c]]
  BY <1>1 DEF Codes!Send, CodesSessionsFollow, Codes!StepsOf, Codes!IInv, Codes!Held
<1> QED BY <1>1, <1>2, <1>3, <1>4, <1>5, <1>6, CodesMoveOn DEF Codes!Send, CodeOuts

\* A token is issued for the one that was asked to be replaced.
LEMMA CodesIssue ==
    ASSUME Codes!CodeAssumption, Codes!IInv, NEW c \in CodeCalls, NEW saved \in BOOLEAN,
           Codes!Issue(c, saved)
    PROVE  Codes!IInv'
<1>1. CodeKind[c] \in {"start", "resend"} /\ call[c].out = "none"
  BY CodesParts DEF Codes!Issue, Codes!StepsOf, Codes!CodeAssumption
<1> DEFINE pc == IF CodeKind[c] = "resend" THEN "replace" ELSE "revoke"
<1>2. CodesMoved(c, call[c].token, call[c].code, pc, "none")
  BY <1>1, CodesGoto DEF Codes!Issue
<1>3. /\ issued \in 0..CodeTokens /\ issued < CodeTokens /\ issued' = issued + 1
      /\ rows' \subseteq rows \union {issued'} /\ rows \subseteq 1..issued
      /\ replaced \subseteq 1..issued /\ codeFaults' \in 0..MaxCodeFaults
      /\ parent' = [parent EXCEPT ![issued'] = call[c].token]
      /\ call[c].token \in 0..issued /\ CodeTokens \in Nat
      /\ UNCHANGED <<replaced, code, sent, tried, guessed, open>>
  BY CodesParts, CodesFault DEF Codes!Issue, CodesTables, Codes!CodeAssumption
<1>4. CodesTables'
  <2>0. /\ issued \in Nat /\ issued' = issued + 1 /\ issued' \in 1..CodeTokens
        /\ 1..issued \subseteq 1..issued' /\ issued' \in 1..issued'
    BY <1>3
  <2>1. issued' \in Codes!Tokens /\ rows' \subseteq 1..issued' /\ replaced' \subseteq 1..issued'
    <3>1. rows' \subseteq 1..issued' /\ replaced' \subseteq 1..issued'
      BY <1>3, <2>0 DEF CodesTables
    <3> QED BY <2>0, <3>1 DEF Codes!Tokens
  <2>2. parent' \in [Codes!Tokens -> 0..CodeTokens] /\ \A t \in Codes!Tokens : parent'[t] < t
    <3>1. /\ call[c].token \in 0..CodeTokens /\ call[c].token < issued'
          /\ \A t \in Codes!Tokens : t \in Nat
      BY <1>3, <2>0 DEF Codes!Tokens
    <3>2. parent \in [Codes!Tokens -> 0..CodeTokens] /\ \A t \in Codes!Tokens : parent[t] < t
      BY CodesParts DEF CodesTables
    <3>3. parent' = [parent EXCEPT ![issued'] = call[c].token]
      BY <1>3
    <3> HIDE DEF pc
    <3> QED BY <3>1, <3>2, <3>3, <2>1
  <2> QED BY <1>3, <2>1, <2>2, CodesParts DEF CodesTables
<1>5. Codes!Counted'
  BY <1>2, <1>3, <1>4, CodesCountKept DEF Codes!Issue
<1>6. CodesRowsFollow(call[c].token, "none")
  <2>1. issued <= issued' /\ issued' > issued /\ sent' = sent /\ sent \in Nat
    BY <1>3, CodesParts DEF CodesTables
  <2> QED BY <1>3, <2>1 DEF CodesRowsFollow
<1>7. CodesMarksFollow("none")
  BY <1>3, CodesParts DEF CodesMarksFollow, CodesTables
<1>8. CodesSessionsFollow(c, pc, "none") /\ pc \in Codes!StepsOf[CodeKind[c]]
  BY <1>1, <1>3 DEF CodesSessionsFollow, Codes!StepsOf, Codes!IInv, Codes!Held
<1> QED BY <1>1, <1>2, <1>4, <1>5, <1>6, <1>7, <1>8, CodesMoveOn DEF Codes!Issue, CodeOuts

\* The send or the insert fails: a door revokes the session it opened.
LEMMA CodesNotSent ==
    ASSUME Codes!CodeAssumption, Codes!IInv, NEW c \in CodeCalls, Codes!NotSent(c)
    PROVE  Codes!IInv'
<1>1. CodeKind[c] \in {"start", "resend"} /\ call[c].out = "none"
  BY CodesParts DEF Codes!NotSent, Codes!StepsOf, Codes!CodeAssumption
<1> DEFINE pc == IF CodeKind[c] = "resend" THEN "done" ELSE "revoke"
<1>2. CodesMoved(c, call[c].token, call[c].code, pc, "none")
  BY <1>1, CodesGoto, CodesEnd DEF Codes!NotSent, CodeOuts
<1>3. CodesTables'
  <2>1. codeFaults' \in 0..MaxCodeFaults
    BY CodesParts, CodesFault DEF Codes!NotSent
  <2>2. sent' \in Nat /\ code' \in 0..sent' /\ sent <= sent'
    BY CodesParts DEF Codes!NotSent, CodesTables
  <2> QED BY <2>1, <2>2, CodesParts DEF Codes!NotSent, CodesTables
<1>4. Codes!Counted'
  BY <1>2, <1>3, CodesCountKept DEF Codes!NotSent
<1>5. CodesRowsFollow(call[c].token, "none") /\ CodesMarksFollow("none")
  BY CodesParts DEF Codes!NotSent, CodesRowsFollow, CodesMarksFollow, CodesTables
<1>6. CodesSessionsFollow(c, pc, "none") /\ pc \in Codes!StepsOf[CodeKind[c]]
  BY <1>1 DEF Codes!NotSent, CodesSessionsFollow, Codes!StepsOf, Codes!IInv, Codes!Held
<1> QED BY <1>1, <1>2, <1>3, <1>4, <1>5, <1>6, CodesMoveOn DEF Codes!NotSent, CodeOuts

\* A resend deletes the row it replaces, and marks what it deleted it for.
LEMMA CodesReplace ==
    ASSUME Codes!CodeAssumption, Codes!IInv, NEW c \in CodeCalls, NEW ok \in BOOLEAN,
           Codes!Replace(c, ok)
    PROVE  Codes!IInv'
<1>1. CodeKind[c] = "resend" /\ call[c].out = "none"
  BY CodesParts DEF Codes!Replace, Codes!StepsOf, Codes!CodeAssumption
<1>2. CodesMoved(c, call[c].token, call[c].code, "done", "none")
  BY CodesEnd DEF Codes!Replace, CodeOuts
<1>3. CodesTables'
  <2>1. codeFaults' \in 0..MaxCodeFaults
    BY CodesParts, CodesFault DEF Codes!Replace
  <2>2. rows' \subseteq rows /\ replaced' \subseteq 1..issued
    BY CodesParts DEF Codes!Replace, CodesTables
  <2> QED BY <2>1, <2>2, CodesParts DEF Codes!Replace, CodesTables
<1>4. Codes!Counted'
  BY <1>2, <1>3, CodesCountKept DEF Codes!Replace
<1>5. CodesRowsFollow(call[c].token, "none") 
  BY CodesParts DEF Codes!Replace, CodesRowsFollow, CodesTables
<1>6. CodesMarksFollow("none")
  BY CodesParts DEF Codes!Replace, CodesMarksFollow, CodesTables
<1>7. CodesSessionsFollow(c, "done", "none") /\ "done" \in Codes!StepsOf[CodeKind[c]]
  BY <1>1 DEF Codes!Replace, CodesSessionsFollow, Codes!StepsOf, Codes!IInv, Codes!Held
<1> QED BY <1>1, <1>2, <1>3, <1>4, <1>5, <1>6, <1>7, CodesMoveOn DEF Codes!Replace, CodeOuts

\* GoTrue judges a code: the guess is counted, the right one opens a session, of which the
\* call may not be told.
LEMMA CodesVerify ==
    ASSUME Codes!CodeAssumption, Codes!IInv, NEW c \in CodeCalls, Codes!Verify(c)
    PROVE  Codes!IInv'
<1> DEFINE t == call[c].token
<1>1. CodeKind[c] = "verify" /\ call[c].out = "none" /\ t \in Codes!Tokens
  BY CodesParts DEF Codes!Verify, Codes!StepsOf, Codes!CodeAssumption
<1>2. PICK pc \in {"consume", "revoke", "done"}, out \in {"none", "unheard"} :
         /\ CodesMoved(c, call[c].token, call[c].code, pc, out)
         /\ out = "unheard" => pc = "done"
         /\ open' = IF pc = "done" /\ out = "none" THEN open ELSE open \union {c}
  BY <1>1, CodesGoto, CodesEnd DEF Codes!Verify, CodeOuts
<1>3. guessed' = [guessed EXCEPT ![t] = @ + 1]
         /\ UNCHANGED <<rows, issued, parent, replaced, sent, tried>>
         /\ codeFaults' \in 0..MaxCodeFaults
  BY CodesParts, CodesFault DEF Codes!Verify
<1>4. CodesTables'
  <2>1. code' \in 0..sent' /\ open' \subseteq CodeCalls
    BY CodesParts DEF Codes!Verify, CodesTables
  <2>2. guessed' \in [Codes!Tokens -> Nat]
    BY <1>1, <1>3, CodesParts DEF CodesTables
  <2> QED BY <1>3, <2>1, <2>2, CodesParts DEF CodesTables
<1>5. Codes!Counted'
  <2> SUFFICES ASSUME NEW u \in Codes!Tokens
               PROVE  /\ Codes!IsFiniteSet(Codes!Allowed(u)')
                      /\ guessed'[u] + Codes!Cardinality(Codes!Allowed(u)') <= tried["verify"][u]
                      /\ guessed'[u] + Codes!Cardinality(Codes!Allowed(u)') <= Attempts
    BY <1>3 DEF Codes!Counted, Codes!Tokens
  <2>1. /\ IsFiniteSet(Codes!Allowed(u))
        /\ guessed[u] + Cardinality(Codes!Allowed(u)) <= tried["verify"][u]
        /\ guessed[u] + Cardinality(Codes!Allowed(u)) <= Attempts
    BY CodesSets DEF Codes!IInv, Codes!Counted
  <2>2. /\ guessed[u] \in Nat /\ tried["verify"][u] \in Nat /\ Attempts \in Nat
        /\ guessed'[u] = guessed[u] + (IF u = t THEN 1 ELSE 0)
    BY <1>1, <1>3, CodesParts DEF CodesTables, Codes!CodeAssumption
  <2>3. Cardinality(Codes!Allowed(u)) \in Nat
    BY <2>1, FS_CardinalityType
  <2>4. CASE u = t
    <3>1. Codes!Allowed(u)' = Codes!Allowed(u) \ {c} /\ c \in Codes!Allowed(u)
      BY <1>1, <1>2, <2>4, CodesParts DEF Codes!Allowed, CodesMoved, Codes!Verify
    <3>2. /\ IsFiniteSet(Codes!Allowed(u)')
          /\ Cardinality(Codes!Allowed(u)') = Cardinality(Codes!Allowed(u)) - 1
      BY <2>1, <3>1, FS_RemoveElement
    <3> HIDE DEF guessed, tried, t
    <3> QED BY <2>1, <2>2, <2>3, <2>4, <3>2, CodesSets
  <2>5. CASE u # t
    <3>1. Codes!Allowed(u)' = Codes!Allowed(u)
      BY <1>1, <1>2, <2>5, CodesParts DEF Codes!Allowed, CodesMoved, Codes!Verify
    <3> HIDE DEF guessed, tried, t
    <3> QED BY <2>1, <2>2, <2>3, <2>5, <3>1, CodesSets
  <2> QED BY <2>4, <2>5
<1>6. CodesRowsFollow(call[c].token, out) /\ CodesMarksFollow(out)
  BY <1>2, <1>3, CodesParts DEF CodesRowsFollow, CodesMarksFollow, CodesTables
<1>7. CodesSessionsFollow(c, pc, out) /\ pc \in Codes!StepsOf[CodeKind[c]]
  BY <1>1, <1>2 DEF Codes!Verify, CodesSessionsFollow, Codes!StepsOf, Codes!IInv, Codes!Held
<1> QED BY <1>1, <1>2, <1>4, <1>5, <1>6, <1>7, CodesMoveOn DEF Codes!Verify, CodeOuts

\* A row is taken once: whoever finds it gone gives its session back.
LEMMA CodesConsume ==
    ASSUME Codes!CodeAssumption, Codes!IInv, NEW c \in CodeCalls, NEW deleted \in BOOLEAN,
           NEW heard \in BOOLEAN, NEW device \in {"registered", "none", "raised"},
           Codes!Consume(c, deleted, heard, device)
    PROVE  Codes!IInv'
<1>1. CodeKind[c] = "verify" /\ call[c].out = "none"
  BY CodesParts DEF Codes!Consume, Codes!StepsOf, Codes!CodeAssumption
<1> DEFINE kept == call[c].token \in rows /\ deleted /\ heard /\ device = "registered"
           pc == IF kept \/ device = "raised" THEN "done" ELSE "revoke"
           out == IF kept THEN "session" ELSE IF device = "raised" THEN "raised" ELSE "none"
<1>2. CodesMoved(c, call[c].token, call[c].code, pc, out)
  BY <1>1, CodesGoto, CodesEnd DEF Codes!Consume, CodeOuts
<1>3. CodesTables'
  <2>1. codeFaults' \in 0..MaxCodeFaults
    BY CodesParts, CodesFault DEF Codes!Consume
  <2> QED BY <2>1, CodesParts DEF Codes!Consume, CodesTables
<1>4. Codes!Counted'
  BY <1>2, <1>3, CodesCountKept DEF Codes!Consume
<1>5. CodesRowsFollow(call[c].token, out) /\ CodesMarksFollow(out)
  BY CodesParts DEF Codes!Consume, CodesRowsFollow, CodesMarksFollow, CodesTables
<1>6. CodesSessionsFollow(c, pc, out) /\ pc \in Codes!StepsOf[CodeKind[c]]
  BY <1>1 DEF Codes!Consume, CodesSessionsFollow, Codes!StepsOf, Codes!IInv, Codes!Held
<1>7. out \in CodeOuts /\ (out # "none" => pc = "done")
  BY DEF CodeOuts
<1> HIDE DEF pc, out
<1> QED BY <1>1, <1>2, <1>3, <1>4, <1>5, <1>6, <1>7, CodesMoveOn DEF Codes!Consume

\* A session nobody was given is closed, or the call knows of no more.
LEMMA CodesRevoke ==
    ASSUME Codes!CodeAssumption, Codes!IInv, NEW c \in CodeCalls, NEW ok \in BOOLEAN,
           Codes!Revoke(c, ok)
    PROVE  Codes!IInv'
<1>1. CodeKind[c] \in {"start", "verify"} /\ call[c].out = "none"
  BY CodesParts DEF Codes!Revoke, Codes!StepsOf, Codes!CodeAssumption
<1> DEFINE out == IF ok THEN "none" ELSE "lost"
<1>2. CodesMoved(c, call[c].token, call[c].code, "done", out)
  BY <1>1, CodesEnd DEF Codes!Revoke, CodeOuts
<1>3. CodesTables'
  <2>1. codeFaults' \in 0..MaxCodeFaults
    BY CodesParts, CodesFault DEF Codes!Revoke
  <2> QED BY <2>1, CodesParts DEF Codes!Revoke, CodesTables
<1>4. Codes!Counted'
  BY <1>2, <1>3, CodesCountKept DEF Codes!Revoke
<1>5. CodesRowsFollow(call[c].token, out) /\ CodesMarksFollow(out)
  BY CodesParts DEF Codes!Revoke, CodesRowsFollow, CodesMarksFollow, CodesTables
<1>6. CodesSessionsFollow(c, "done", out) /\ "done" \in Codes!StepsOf[CodeKind[c]]
  BY <1>1 DEF Codes!Revoke, CodesSessionsFollow, Codes!StepsOf, Codes!IInv, Codes!Held
<1>7. out \in {"none", "lost"} /\ out \in CodeOuts
  BY DEF CodeOuts
<1> HIDE DEF out
<1> QED BY <1>1, <1>2, <1>3, <1>4, <1>5, <1>6, <1>7, CodesMoveOn DEF Codes!Revoke

\* A process dies where its call was.
LEMMA CodesDie ==
    ASSUME Codes!CodeAssumption, Codes!IInv, NEW c \in CodeCalls, Codes!Die(c)
    PROVE  Codes!IInv'
<1>1. call[c].pc \notin {"done", "dead", "idle"} /\ call[c].out = "none"
  BY CodesParts DEF Codes!Die, Codes!Ended
<1>2. CodesMoved(c, call[c].token, call[c].code, "dead", "none")
  BY <1>1, CodesGoto DEF Codes!Die
<1>3. CodesTables'
  BY CodesParts, CodesFault DEF Codes!Die, CodesTables
<1>4. Codes!Counted'
  BY <1>2, <1>3, CodesCountKept DEF Codes!Die
<1>5. CodesRowsFollow(call[c].token, "none") /\ CodesMarksFollow("none")
  BY CodesParts DEF Codes!Die, CodesRowsFollow, CodesMarksFollow, CodesTables
<1>6. CodesSessionsFollow(c, "dead", "none") /\ "dead" \in Codes!StepsOf[CodeKind[c]]
  BY <1>1 DEF Codes!Die, CodesSessionsFollow, Codes!StepsOf, Codes!IInv, Codes!Held, Codes!CodeAssumption
<1> QED BY <1>1, <1>2, <1>3, <1>4, <1>5, <1>6, CodesMoveOn DEF CodeOuts

\* A row expires, and no call moves.
LEMMA CodesExpire ==
    ASSUME Codes!CodeAssumption, Codes!IInv, NEW t \in Codes!Tokens, Codes!Expire(t)
    PROVE  Codes!IInv'
<1>1. rows' \subseteq rows
         /\ UNCHANGED <<issued, parent, replaced, code, sent, tried, guessed, call, open, codeFaults>>
  BY DEF Codes!Expire
<1>2. Codes!TypeOK'
  BY <1>1 DEF Codes!IInv, Codes!TypeOK
<1>3. Codes!Placed' /\ Codes!Held' /\ Codes!Counted' /\ Codes!NoSessionLeftOpen'
  BY <1>1 DEF Codes!IInv, Codes!Placed, Codes!Held, Codes!Counted, Codes!Allowed,
     Codes!NoSessionLeftOpen, Codes!Ended, Codes!Signed
<1>4. Codes!TokenSpentOnce' /\ Codes!ReplacedUnspent'
  BY <1>1 DEF Codes!IInv, Codes!TokenSpentOnce, Codes!ReplacedUnspent, Codes!Signed
<1> QED BY <1>2, <1>3, <1>4 DEF Codes!IInv

\* Each step of otp.ts keeps the invariant.
LEMMA CodesSteps ==
    ASSUME Codes!CodeAssumption, Codes!IInv, [Codes!Next]_(Codes!otpVars)
    PROVE  Codes!IInv'
<1>1. CASE UNCHANGED Codes!otpVars
  BY <1>1 DEF Codes!otpVars, Codes!IInv, Codes!TypeOK, Codes!Placed, Codes!Held, Codes!Counted,
     Codes!Allowed, Codes!TokenSpentOnce, Codes!ReplacedUnspent, Codes!NoSessionLeftOpen,
     Codes!Ended, Codes!Signed
<1>2. ASSUME NEW c \in CodeCalls,
             \/ Codes!SignIn(c) \/ Codes!Budget(c) \/ Codes!Uncounted(c) \/ Codes!Exists(c)
             \/ Codes!Send(c) \/ Codes!NotSent(c) \/ Codes!Verify(c) \/ Codes!Die(c)
             \/ \E ok \in BOOLEAN :
                   Codes!Issue(c, ok) \/ Codes!Replace(c, ok) \/ Codes!Revoke(c, ok)
             \/ \E deleted, heard \in BOOLEAN, device \in {"registered", "none", "raised"} :
                   Codes!Consume(c, deleted, heard, device)
             \/ \E t \in Codes!Tokens, k \in {0, sent} : Codes!Ask(c, t, k)
      PROVE  Codes!IInv'
  BY <1>2, CodesSignIn, CodesBudget, CodesUncounted, CodesExists, CodesSend, CodesIssue,
     CodesNotSent, CodesVerify, CodesDie, CodesReplace, CodesConsume, CodesRevoke, CodesAsk
<1> QED BY <1>1, <1>2, CodesExpire DEF Codes!Next

\* The tokens of a line of resends are those of the token replaced, and the new one.
LEMMA CodesLineage ==
    ASSUME Codes!CodeAssumption, Codes!IInv
    PROVE  Codes!Lineage = [t \in 0..CodeTokens |->
              IF t = 0 THEN {} ELSE {t} \union Codes!Lineage[parent[t]]]
<1> DEFINE LineOf(f, n) == f = [t \in 0..n |-> IF t = 0 THEN {} ELSE {t} \union f[parent[t]]]
           Missing == {n \in 0..CodeTokens : ~ \E f : LineOf(f, n)}
<1>1. CodeTokens \in Nat /\ \A t \in 1..CodeTokens : parent[t] \in 0..CodeTokens /\ parent[t] < t
  BY CodesParts DEF Codes!CodeAssumption, CodesTables, Codes!Tokens
<1>2. Missing = {}
  <2> SUFFICES ASSUME Missing # {} PROVE FALSE
    OBVIOUS
  <2>1. PICK n \in Missing : \A m \in Missing : n <= m
    <3>1. Missing \subseteq Nat
      BY <1>1
    <3> HIDE DEF Missing
    <3> QED BY <3>1, LeastNumber
  <2>2. CASE n = 0
    <3>1. LineOf([t \in 0..0 |-> {}], 0)
      BY <1>1
    <3> QED BY <2>1, <2>2, <3>1
  <2>3. CASE n # 0
    <3>1. n \in 1..CodeTokens /\ n - 1 \in 0..CodeTokens /\ n - 1 < n
      BY <1>1, <2>1, <2>3
    <3>2. n - 1 \notin Missing
      <4>1. n \in Nat /\ n - 1 \in Nat /\ ~(n <= n - 1)
        BY <1>1, <3>1
      <4> HIDE DEF Missing
      <4> QED BY <2>1, <4>1
    <3>3. PICK f : LineOf(f, n - 1)
      BY <3>1, <3>2
    <3> DEFINE g == [t \in 0..n |-> IF t = n THEN {n} \union f[parent[n]] ELSE f[t]]
    <3>4. \A t \in 0..n : t # n => t \in 0..(n - 1)
      BY <3>1
    <3>5. ASSUME NEW t \in 0..n
          PROVE  g[t] = IF t = 0 THEN {} ELSE {t} \union g[parent[t]]
      <4>1. t # 0 => parent[t] \in 0..(n - 1) /\ parent[t] # n /\ parent[t] \in 0..n
        BY <1>1, <3>1
      <4>2. CASE t = n
        BY <3>1, <4>1, <4>2
      <4>3. CASE t # n
        <5>1. t \in 0..(n - 1)
          BY <3>4, <4>3
        <5> QED BY <3>3, <4>1, <4>3, <5>1
      <4> QED BY <4>2, <4>3
    <3>6. LineOf(g, n)
      BY <3>5
    <3> QED BY <2>1, <3>6
  <2> QED BY <2>2, <2>3
<1>3. PICK f : LineOf(f, CodeTokens)
  <2>1. CodeTokens \in 0..CodeTokens
    BY <1>1
  <2> HIDE DEF LineOf
  <2> QED BY <1>2, <2>1
<1>4. \E h : h = [t \in 0..CodeTokens |-> IF t = 0 THEN {} ELSE {t} \union h[parent[t]]]
  BY <1>3
<1> QED BY <1>4, Zenon DEF Codes!Lineage

\* Every token of a line was issued before, and each but the last was replaced by one of it.
LEMMA CodesReplacedInLine ==
    ASSUME Codes!CodeAssumption, Codes!IInv, NEW y \in 0..CodeTokens, NEW x \in Codes!Lineage[y]
    PROVE  /\ x \in 1..y
           /\ x # y => \E u \in Codes!Lineage[y] : u \notin Codes!Lineage[x] /\ parent[u] = x
<1>1. CodeTokens \in Nat /\ \A t \in 1..CodeTokens : parent[t] \in 0..CodeTokens /\ parent[t] < t
  BY CodesParts DEF Codes!CodeAssumption, CodesTables, Codes!Tokens
<1>2. \A t \in 0..CodeTokens :
        Codes!Lineage[t] = IF t = 0 THEN {} ELSE {t} \union Codes!Lineage[parent[t]]
  BY CodesLineage, Zenon
<1> DEFINE Above == {t \in 0..CodeTokens : ~(Codes!Lineage[t] \subseteq 1..t)}
           Cut(z, t) == \E u \in Codes!Lineage[t] : u \notin Codes!Lineage[z] /\ parent[u] = z
           Uncut == {t \in 0..CodeTokens : \E z \in Codes!Lineage[t] : z # t /\ ~Cut(z, t)}
<1>3. Above = {}
  <2> SUFFICES ASSUME Above # {} PROVE FALSE
    OBVIOUS
  <2>1. PICK n \in Above : \A m \in Above : n <= m
    <3>1. Above \subseteq Nat
      BY <1>1
    <3> HIDE DEF Above
    <3> QED BY <3>1, LeastNumber
  <2>2. n # 0
    BY <1>2, <2>1
  <2>3. parent[n] \in 0..CodeTokens /\ parent[n] < n /\ n \in 1..CodeTokens
    BY <1>1, <2>1, <2>2
  <2>4. Codes!Lineage[parent[n]] \subseteq 1..parent[n]
    BY <1>1, <2>1, <2>3
  <2>5. Codes!Lineage[n] = {n} \union Codes!Lineage[parent[n]]
    BY <1>2, <2>2, <2>3
  <2>6. 1..parent[n] \subseteq 1..n /\ n \in 1..n
    BY <1>1, <2>3
  <2>7. Codes!Lineage[n] \subseteq 1..n
    BY <2>4, <2>5, <2>6
  <2> QED BY <2>1, <2>7
<1>4. \A t \in 0..CodeTokens : \A z \in Codes!Lineage[t] : z \in 1..t
  BY <1>3
<1>5. Uncut = {}
  <2> SUFFICES ASSUME Uncut # {} PROVE FALSE
    OBVIOUS
  <2>1. PICK n \in Uncut : \A m \in Uncut : n <= m
    <3>1. Uncut \subseteq Nat
      BY <1>1
    <3> HIDE DEF Uncut
    <3> QED BY <3>1, LeastNumber
  <2>2. PICK z \in Codes!Lineage[n] : z # n /\ ~Cut(z, n)
    BY <2>1
  <2>3. n # 0
    BY <1>2, <2>1, <2>2
  <2>4. parent[n] \in 0..CodeTokens /\ parent[n] < n /\ n \in 1..CodeTokens
    BY <1>1, <2>1, <2>3
  <2>5. Codes!Lineage[n] = {n} \union Codes!Lineage[parent[n]]
    BY <1>2, <2>3, <2>4
  <2>6. z \in Codes!Lineage[parent[n]]
    BY <2>2, <2>5
  <2>7. CASE parent[n] = z
    <3>1. n \notin Codes!Lineage[z]
      BY <1>1, <1>4, <2>4, <2>7
    <3> QED BY <2>2, <2>5, <2>7, <3>1
  <2>8. CASE parent[n] # z
    <3>1. parent[n] \notin Uncut
      BY <1>1, <2>1, <2>4
    <3>2. Cut(z, parent[n])
      BY <2>4, <2>6, <2>8, <3>1
    <3> QED BY <2>2, <2>5, <3>2
  <2> QED BY <2>7, <2>8
<1>6. x # y => Cut(x, y)
  BY <1>5
<1> QED BY <1>4, <1>6

\* The invariant of a challenge gives what is said of its sessions.
LEMMA CodesAnswered ==
    ASSUME Codes!CodeAssumption, Codes!IInv
    PROVE  Codes!TokenSpentOnce /\ Codes!SecondSessionOnlyPastALostReplace
           /\ Codes!NoSessionLeftOpen /\ Codes!TypeOK
<1>1. ASSUME NEW c \in CodeCalls, NEW d \in CodeCalls, Codes!Signed(c), Codes!Signed(d), c # d,
             call[c].token \in Codes!Lineage[call[d].token],
             Codes!Lineage[call[d].token] \ Codes!Lineage[call[c].token] \subseteq replaced
      PROVE  FALSE
  <2>1. call[d].token \in 0..CodeTokens
    <3>1. call[d].token \in 0..issued /\ issued \in 0..CodeTokens /\ CodeTokens \in Nat
      BY CodesParts DEF CodesTables, Codes!CodeAssumption
    <3> QED BY <3>1
  <2>2. call[c].token # call[d].token
    BY <1>1 DEF Codes!IInv, Codes!TokenSpentOnce
  <2>3. PICK u \in Codes!Lineage[call[d].token] :
           u \notin Codes!Lineage[call[c].token] /\ parent[u] = call[c].token
    BY <1>1, <2>1, <2>2, CodesReplacedInLine
  <2>4. u \in replaced
    BY <1>1, <2>3
  <2> QED BY <1>1, <2>3, <2>4 DEF Codes!IInv, Codes!ReplacedUnspent
<1> QED BY <1>1 DEF Codes!IInv, Codes!SecondSessionOnlyPastALostReplace

\* The variables of RateLimiter.
now == v1
arrival == v2
blocked == v3
strikes == v4
outcome == v5
hits == v6
blocks == v7
USE DEF now, arrival, blocked, strikes, outcome, hits, blocks

-----------------------------------------------------------------------------
(* A rate limit (foundation: src/rate_limit/redis_rate_limiter.ts).           *)

\* The powers of two are what they are said to be: they are built up to each number, and
\* no two ways of building them differ.
LEMMA Doubling ==
    /\ Rate!Power[0] = 1
    /\ \A n \in Nat : Rate!Power[n] \in Nat /\ Rate!Power[n] > 0 /\ Rate!Power[n + 1] = 2 * Rate!Power[n]
<1> DEFINE Upto(m, g) == /\ g \in [0..m -> Nat] /\ g[0] = 1
                         /\ \A i \in 1..m : g[i] = 2 * g[i - 1]
<1>1. \A m \in Nat : \E g : Upto(m, g)
  <2> DEFINE Bad == {m \in Nat : ~\E g : Upto(m, g)}
  <2> SUFFICES ASSUME Bad # {} PROVE FALSE
    OBVIOUS
  <2>1. PICK m \in Bad : \A k \in Bad : m <= k
    <3>1. Bad \subseteq Nat
      OBVIOUS
    <3> HIDE DEF Bad
    <3> QED BY <3>1, LeastNumber
  <2>2. m # 0
    <3>1. Upto(0, [i \in 0..0 |-> 1])
      OBVIOUS
    <3> QED BY <3>1
  <2>3. m - 1 \in Nat /\ m \in Nat /\ ~(m <= m - 1)
    BY <2>2
  <2>4. m - 1 \notin Bad
    <3> HIDE DEF Bad
    <3> QED BY <2>1, <2>3
  <2>5. PICK g : Upto(m - 1, g)
    BY <2>3, <2>4
  <2> DEFINE h == [i \in 0..m |-> IF i = m THEN 2 * g[m - 1] ELSE g[i]]
  <2>6. \A i \in 0..m : i # m => i \in 0..(m - 1)
    BY <2>3
  <2>7. h \in [0..m -> Nat]
    BY <2>3, <2>5, <2>6
  <2>8. h[0] = 1
    BY <2>2, <2>3, <2>5
  <2>9. ASSUME NEW i \in 1..m PROVE h[i] = 2 * h[i - 1]
    <3>1. i \in 0..m /\ i - 1 \in 0..m /\ i - 1 # m
      BY <2>3
    <3>2. CASE i = m
      BY <2>3, <3>1, <3>2
    <3>3. CASE i # m
      <4>1. i \in 1..(m - 1)
        BY <2>3, <3>3
      <4> QED BY <2>5, <3>1, <3>3, <4>1
    <3> QED BY <3>2, <3>3
  <2>10. Upto(m, h)
    BY <2>7, <2>8, <2>9
  <2> QED BY <2>1, <2>10
<1>2. ASSUME NEW m \in Nat, NEW g, Upto(m, g), NEW k \in Nat, NEW h, Upto(k, h), NEW j \in Nat, j <= m, j <= k
      PROVE  g[j] = h[j]
  <2> DEFINE Bad == {i \in 0..j : g[i] # h[i]}
  <2> SUFFICES ASSUME Bad # {} PROVE FALSE
    OBVIOUS
  <2>1. PICK i \in Bad : \A l \in Bad : i <= l
    <3>1. Bad \subseteq Nat
      OBVIOUS
    <3> HIDE DEF Bad
    <3> QED BY <3>1, LeastNumber
  <2>2. i # 0
    BY <1>2
  <2>3. i - 1 \in 0..j /\ ~(i <= i - 1) /\ i \in 1..m /\ i \in 1..k
    BY <1>2, <2>2
  <2>4. g[i - 1] = h[i - 1]
    BY <2>1, <2>3
  <2>5. g[i] = 2 * g[i - 1] /\ h[i] = 2 * h[i - 1]
    BY <1>2, <2>3
  <2> QED BY <2>4, <2>5
<1> DEFINE G(m) == CHOOSE g : Upto(m, g)
           F == [n \in Nat |-> G(n)[n]]
<1>3. \A m \in Nat : Upto(m, G(m))
  <2> HIDE DEF Upto
  <2> QED BY <1>1
<1>4. \A n \in Nat : F[n] = G(n)[n] /\ F[n] \in Nat
  BY <1>3
<1>5. F[0] = 1
  BY <1>3
<1>6. ASSUME NEW n \in Nat PROVE F[n + 1] = 2 * F[n]
  <2>1. n + 1 \in Nat /\ n + 1 \in 1..(n + 1) /\ n <= n + 1 /\ n <= n /\ (n + 1) - 1 = n
    OBVIOUS
  <2>2. Upto(n + 1, G(n + 1)) /\ Upto(n, G(n))
    BY <1>3, <2>1
  <2>3. G(n + 1)[n] = G(n)[n]
    <3> HIDE DEF Upto, G
    <3> QED BY <1>2, <2>1, <2>2
  <2>4. G(n + 1)[n + 1] = 2 * G(n + 1)[n]
    <3> HIDE DEF G
    <3> QED BY <2>1, <2>2
  <2> QED BY <1>4, <2>1, <2>3, <2>4
<1>7. F = [n \in Nat |-> F[n]]
  <2> HIDE DEF G
  <2> QED OBVIOUS
<1> HIDE DEF F
<1>8. \A n \in Nat : F[n] = IF n = 0 THEN 1 ELSE 2 * F[n - 1]
  <2> SUFFICES ASSUME NEW n \in Nat PROVE F[n] = IF n = 0 THEN 1 ELSE 2 * F[n - 1]
    OBVIOUS
  <2>1. CASE n = 0
    BY <1>5, <2>1
  <2>2. CASE n # 0
    <3>1. n - 1 \in Nat /\ (n - 1) + 1 = n
      BY <2>2
    <3> QED BY <1>6, <2>2, <3>1
  <2> QED BY <2>1, <2>2
<1>9. F = [n \in Nat |-> IF n = 0 THEN 1 ELSE 2 * F[n - 1]]
  BY <1>7, <1>8
<1>10. Rate!Power = [n \in Nat |-> IF n = 0 THEN 1 ELSE 2 * Rate!Power[n - 1]]
  BY <1>9 DEF Rate!Power
<1>11. Rate!Power[0] = 1 /\ \A n \in Nat : Rate!Power[n + 1] = 2 * Rate!Power[n]
  BY <1>10
<1>12. \A n \in Nat : Rate!Power[n] \in Nat /\ Rate!Power[n] > 0
  <2> DEFINE Bad == {n \in Nat : ~(Rate!Power[n] \in Nat /\ Rate!Power[n] > 0)}
  <2> SUFFICES ASSUME Bad # {} PROVE FALSE
    OBVIOUS
  <2>1. PICK i \in Bad : \A l \in Bad : i <= l
    <3>1. Bad \subseteq Nat
      OBVIOUS
    <3> HIDE DEF Bad
    <3> QED BY <3>1, LeastNumber
  <2>2. i # 0 /\ i \in Nat
    BY <1>11
  <2>3. i - 1 \in Nat /\ ~(i <= i - 1) /\ (i - 1) + 1 = i
    BY <2>2
  <2>4. Rate!Power[i - 1] \in Nat /\ Rate!Power[i - 1] > 0
    BY <2>1, <2>3
  <2>5. Rate!Power[i] = 2 * Rate!Power[i - 1]
    BY <1>11, <2>3
  <2> QED BY <2>1, <2>4, <2>5
<1> QED BY <1>11, <1>12

\* The end of a sequence.
LEMMA RateLast ==
    ASSUME NEW S, NEW s \in Seq(S), NEW n \in Nat \ {0}
    PROVE  /\ Rate!Last(n, s) \in Seq(S) /\ Len(Rate!Last(n, s)) = Rate!Least(n, Len(s))
           /\ \A i \in 1..Len(Rate!Last(n, s)) :
                /\ Rate!Last(n, s)[i] = s[i + Len(s) - Len(Rate!Last(n, s))]
                /\ i + Len(s) - Len(Rate!Last(n, s)) \in 1..Len(s)
<1> DEFINE m == IF 1 >= Len(s) - n + 1 THEN 1 ELSE Len(s) - n + 1
<1>1. Rate!Last(n, s) = SubSeq(s, m, Len(s))
  BY DEF Rate!Last, Rate!Most
<1>2. Len(s) \in Nat /\ m \in 1..(Len(s) + 1) /\ Len(s) - m + 1 = Rate!Least(n, Len(s))
  <2> DEFINE q == Len(s)
  <2>1. q \in Nat
    OBVIOUS
  <2>2. n \in Nat /\ n > 0
    OBVIOUS
  <2> HIDE DEF q
  <2>3. CASE 1 >= q - n + 1
    <3>1. (IF 1 >= q - n + 1 THEN 1 ELSE q - n + 1) = 1 /\ q <= n
      BY <2>1, <2>2, <2>3
    <3>2. (IF n <= q THEN n ELSE q) = q
      BY <2>1, <2>2, <3>1
    <3> QED BY <2>1, <3>1, <3>2 DEF q, Rate!Least
  <2>4. CASE ~(1 >= q - n + 1)
    <3>1. (IF 1 >= q - n + 1 THEN 1 ELSE q - n + 1) = q - n + 1 /\ n <= q
      BY <2>1, <2>2, <2>4
    <3>2. (IF n <= q THEN n ELSE q) = n /\ q - n + 1 \in 1..(q + 1) /\ q - (q - n + 1) + 1 = n
      BY <2>1, <2>2, <3>1
    <3> QED BY <2>1, <3>1, <3>2 DEF q, Rate!Least
  <2> QED BY <2>3, <2>4
<1>3. /\ SubSeq(s, m, Len(s)) \in Seq(S)
      /\ Len(SubSeq(s, m, Len(s))) = Len(s) - m + 1
      /\ \A i \in 1..(Len(s) - m + 1) : SubSeq(s, m, Len(s))[i] = s[m + i - 1]
  <2> HIDE DEF m
  <2>1. \A i \in m..Len(s) : i \in 1..Len(s) /\ s[i] \in S
    BY <1>2
  <2> QED BY <1>2, <2>1, SubSeqProperties
<1> HIDE DEF m
<1> QED BY <1>1, <1>2, <1>3

\* A sequence with one more behind it.
LEMMA RateAppended ==
    ASSUME NEW S, NEW s \in Seq(S), NEW e \in S
    PROVE  /\ Append(s, e) \in Seq(S) /\ Len(Append(s, e)) = Len(s) + 1 /\ Len(s) \in Nat
           /\ \A i \in 1..Len(s) : Append(s, e)[i] = s[i]
           /\ Append(s, e)[Len(s) + 1] = e
OBVIOUS

\* A hit that is let through pays an emission interval, and leaves what it says.
LEMMA RateAllow ==
    ASSUME Rate!RateAssumption, Rate!IInv, Rate!Allow
    PROVE  Rate!IInv'
<1> DEFINE a == arrival
           n == now
           a1 == arrival'
           top == Rate!Most(arrival, now)
<1>1. /\ blocked <= n /\ n >= a1 - Rate!Window /\ a1 = top + 2
      /\ outcome' = [ok |-> TRUE, retry |-> 0, left |-> (2 * (n - (a1 - Rate!Window)) + 2) \div 4]
      /\ hits' = Rate!Last(HitLimit + 2, Append(hits, n))
      /\ now' = now /\ blocked' = blocked /\ strikes' = strikes /\ blocks' = blocks
  BY DEF Rate!Allow, Rate!NextArrival, Rate!AllowAt, Rate!Emission
<1>2. /\ HitLimit \in Nat /\ HitLimit > 0 /\ Rate!Window = HitLimit * 2 /\ n \in Nat /\ a \in Nat
      /\ n \in 1..RateHorizon
  BY DEF Rate!RateAssumption, Rate!IInv, Rate!TypeOK, Rate!Window, Rate!Emission
<1>3. top \in Nat /\ top >= n /\ top >= a /\ (top = a \/ top = n)
  BY <1>2 DEF Rate!Most
<1>4. Rate!Most(arrival', now') = a1
  BY <1>1, <1>2, <1>3 DEF Rate!Most
<1> HIDE DEF top, a1, n
<1>5. a1 \in 0..n + Rate!Window /\ a1 \in Nat
  BY <1>1, <1>2, <1>3
<1>6. (2 * (n - (a1 - Rate!Window)) + 2) \div 4 \in 0..HitLimit
  BY <1>1, <1>2, <1>3
<1>7. hits \in Seq(Nat) /\ \A i \in 1..Len(hits) : hits[i] \in Nat /\ hits[i] <= n
  BY DEF Rate!IInv, Rate!TypeOK, n
<1> DEFINE l == Append(hits, n)
           m == Len(hits)
           k == Len(hits')
           d == m + 1 - k
<1>8. l \in Seq(Nat) /\ Len(l) = m + 1 /\ m \in Nat /\ l[m + 1] = n /\ \A i \in 1..m : l[i] = hits[i]
  BY <1>2, <1>7, RateAppended
<1>9. /\ hits' \in Seq(Nat) /\ k = Rate!Least(HitLimit + 2, m + 1)
      /\ \A i \in 1..k : hits'[i] = l[i + d] /\ i + d \in 1..(m + 1)
  <2>1. HitLimit + 2 \in Nat \ {0}
    BY <1>2
  <2>2. LET t == Rate!Last(HitLimit + 2, l) IN
        /\ t \in Seq(Nat) /\ Len(t) = Rate!Least(HitLimit + 2, Len(l))
        /\ \A i \in 1..Len(t) : t[i] = l[i + Len(l) - Len(t)] /\ i + Len(l) - Len(t) \in 1..Len(l)
    <3> HIDE DEF l
    <3> QED BY <1>8, <2>1, RateLast
  <2>3. hits' = Rate!Last(HitLimit + 2, l)
    BY <1>1
  <2> HIDE DEF l
  <2>4. k \in Nat
    BY <2>2, <2>3
  <2>5. \A i \in 1..k : i + Len(l) - k = i + d
    BY <1>8, <2>4
  <2>6. /\ hits' \in Seq(Nat) /\ k = Rate!Least(HitLimit + 2, Len(l))
        /\ \A i \in 1..k : hits'[i] = l[i + Len(l) - k] /\ i + Len(l) - k \in 1..Len(l)
    <3> HIDE DEF l, m, d
    <3> QED BY <2>2, <2>3
  <2> HIDE DEF l, m, d, k
  <2> QED BY <1>8, <2>5, <2>6
<1>10. k \in Nat /\ d \in Nat /\ k <= m + 1 /\ m \in Nat /\ d = m + 1 - k
  BY <1>2, <1>8, <1>9 DEF Rate!Least
<1> HIDE DEF l, m, k, d
<1>11. ASSUME NEW i \in 1..k
       PROVE  \/ i = k /\ hits'[i] = n
              \/ i < k /\ i + d \in 1..m /\ hits'[i] = hits[i + d] /\ hits'[i] <= n /\ hits'[i] \in Nat
                 /\ top >= hits'[i] + (k - i) * 2
  <2>1. hits'[i] = l[i + d] /\ i + d \in 1..(m + 1) /\ i \in Nat
    BY <1>9
  <2>2. CASE i = k
    BY <1>8, <1>10, <2>1, <2>2
  <2>3. CASE i # k
    <3>1. i < k /\ i + d \in 1..m
      <4>1. i \in Nat /\ i <= k /\ i + d >= 1
        BY <1>10, <2>1
      <4>2. i < k
        BY <1>10, <2>3, <4>1
      <4>3. i + d < k + d /\ k + d = m + 1
        BY <1>10, <4>1, <4>2
      <4> QED BY <1>10, <4>1, <4>2, <4>3
    <3>2. hits'[i] = hits[i + d] /\ hits[i + d] \in Nat /\ hits[i + d] <= n
      BY <1>7, <1>8, <2>1, <3>1 DEF m
    <3>3. top >= hits[i + d] + (m - (i + d) + 1) * 2
      BY <3>1 DEF Rate!IInv, Rate!Paced, Rate!Emission, top, m
    <3>4. m - (i + d) + 1 = k - i
      BY <1>8, <1>10, <2>1
    <3> QED BY <3>1, <3>2, <3>3, <3>4
  <2> QED BY <2>2, <2>3
<1>12. Rate!TypeOK'
  <2>1. outcome' \in [ok : BOOLEAN, left : 0..HitLimit, retry : Nat]
    BY <1>1, <1>6
  <2>2. \A i \in 1..k : hits'[i] <= n
    BY <1>2, <1>11
  <2>3. arrival' \in 0..now' + Rate!Window
    BY <1>1, <1>5 DEF a1, n
  <2>4. \A i \in 1..Len(hits') : hits'[i] <= now'
    BY <1>1, <2>2 DEF k, n
  <2> QED BY <1>1, <1>9, <2>1, <2>3, <2>4 DEF Rate!IInv, Rate!TypeOK
<1>13. Rate!Paced'
  <2>1. ASSUME NEW i \in 1..k PROVE a1 >= hits'[i] + (k - i + 1) * 2
    <3>1. i \in Nat
      OBVIOUS
    <3> QED BY <1>1, <1>2, <1>3, <1>10, <1>11, <3>1
  <2> QED BY <1>4, <2>1 DEF Rate!Paced, Rate!Emission, k
<1>14. Rate!AllowanceKept'
  <2>1. ASSUME NEW i \in 1..k, NEW j \in 1..k, i <= j
        PROVE  j - i + 1 <= HitLimit + (hits'[j] - hits'[i]) \div 2
    <3>1. i \in Nat /\ j \in Nat
      OBVIOUS
    <3>2. CASE j < k
      <4>1. i + d \in 1..m /\ j + d \in 1..m /\ hits'[i] = hits[i + d] /\ hits'[j] = hits[j + d]
        BY <1>10, <1>11, <2>1, <3>1, <3>2
      <4>2. i + d <= j + d
        BY <1>10, <2>1, <3>1
      <4>3. (j + d) - (i + d) + 1 <= HitLimit + (hits[j + d] - hits[i + d]) \div 2
        BY <4>1, <4>2 DEF Rate!IInv, Rate!AllowanceKept, Rate!Emission, m
      <4>4. (j + d) - (i + d) + 1 = j - i + 1
        BY <1>10, <3>1
      <4> HIDE DEF d
      <4> QED BY <4>1, <4>3, <4>4
    <3>3. CASE j = k /\ i = k
      <4>1. (hits'[j] - hits'[i]) \div 2 = 0
        BY <1>2, <1>11, <3>3
      <4> QED BY <1>2, <3>1, <3>3, <4>1
    <3>4. CASE j = k /\ i < k
      <4> DEFINE x == hits'[i]
      <4>1. hits'[j] = n /\ x \in Nat /\ x <= n /\ top >= x + (k - i) * 2
        BY <1>11, <3>1, <3>4
      <4> HIDE DEF x
      <4>2. n - x >= (k - i + 1) * 2 - HitLimit * 2
        BY <1>1, <1>2, <1>3, <1>10, <3>1, <4>1
      <4>3. (n - x) \div 2 >= k - i + 1 - HitLimit
        BY <1>2, <1>10, <3>1, <4>1, <4>2
      <4>4. (n - x) \div 2 \in Int
        BY <1>2, <4>1
      <4>5. j - i + 1 <= HitLimit + (n - x) \div 2
        BY <1>2, <1>10, <3>1, <3>4, <4>3, <4>4
      <4> QED BY <4>1, <4>5 DEF x
    <3> QED BY <1>10, <2>1, <3>1, <3>2, <3>3, <3>4
  <2> QED BY <2>1 DEF Rate!AllowanceKept, Rate!Emission, k
<1>15. Rate!RemainingIsHonest'
  <2> DEFINE x == n - (a1 - Rate!Window)
  <2>1. x \in Nat
    BY <1>1, <1>2, <1>5
  <2>2. outcome'.left = (2 * x + 2) \div 4
    BY <1>1
  <2> HIDE DEF x
  <2>3. (2 * x + 2) \div 4 - x \div 2 \in {0, 1}
    BY <2>1
  <2>4. (2 * x + 2) \div 4 # x \div 2 => 2 * (x % 2) >= 2
    BY <2>1
  <2>5. now' - (arrival' - Rate!Window) = x
    BY <1>1 DEF x, n, a1
  <2> QED BY <2>2, <2>3, <2>4, <2>5 DEF Rate!RemainingIsHonest, Rate!Emission
<1>16. Rate!BlocksEscalate' /\ Rate!Remembered'
  BY <1>1 DEF Rate!IInv, Rate!BlocksEscalate, Rate!Remembered
<1> QED BY <1>12, <1>13, <1>14, <1>15, <1>16 DEF Rate!IInv

\* A hit past the limit blocks for twice as long as the strike it remembers.
LEMMA RateStrike ==
    ASSUME Rate!RateAssumption, Rate!IInv, Rate!Strike
    PROVE  Rate!IInv'
<1> DEFINE n == now
           held == Rate!Held
           length == Rate!Least(Rate!FirstPenalty * Rate!Power[held], LongestBlock)
           block == [from |-> n, length |-> length, held |-> held]
<1>1. /\ now \in 1..RateHorizon /\ n \in Nat /\ strikes \in [count : Nat, until : Nat]
      /\ blocks \in Seq([from : Nat, length : Nat, held : Nat])
  BY DEF Rate!IInv, Rate!TypeOK
<1>2. held \in Nat
  BY <1>1 DEF Rate!Held
<1>3. (held + 1) - 1 = held
  BY <1>2
<1>4. /\ strikes' = [count |-> held + 1, until |-> n + Rate!StrikeMemory]
      /\ blocked' = n + length
      /\ outcome' = [ok |-> FALSE, left |-> 0, retry |-> length]
      /\ blocks' = Rate!Last(2, Append(blocks, block))
      /\ arrival' = 0 /\ hits' = <<>> /\ now' = now
  BY <1>3 DEF Rate!Strike
<1>5. /\ LongestBlock \in Nat /\ HitLimit \in Nat
      /\ Rate!Window \in Nat /\ Rate!FirstPenalty \in Nat /\ Rate!StrikeMemory \in Nat
      /\ Rate!StrikeMemory > Rate!FirstPenalty
  BY DEF Rate!RateAssumption, Rate!Window, Rate!Emission, Rate!FirstPenalty, Rate!StrikeMemory, Rate!Least
<1> DEFINE z == Rate!FirstPenalty * Rate!Power[held]
<1>6. z \in Nat
  BY <1>2, <1>5, Doubling
<1>7. length \in Nat /\ length <= LongestBlock
  <2> HIDE DEF z
  <2>1. Rate!Least(z, LongestBlock) \in Nat /\ Rate!Least(z, LongestBlock) <= LongestBlock
    BY <1>5, <1>6 DEF Rate!Least
  <2> QED BY <2>1 DEF z
<1> HIDE DEF held, length
<1> DEFINE l == Append(blocks, block)
           m == Len(blocks)
           k == Len(blocks')
<1>8. block \in [from : Nat, length : Nat, held : Nat]
  BY <1>1, <1>2, <1>7
<1> HIDE DEF block
<1>9. /\ l \in Seq([from : Nat, length : Nat, held : Nat]) /\ Len(l) = m + 1 /\ m \in Nat
      /\ l[m + 1] = block /\ \A i \in 1..m : l[i] = blocks[i]
  BY <1>1, <1>8, RateAppended
<1>10. /\ blocks' \in Seq([from : Nat, length : Nat, held : Nat]) /\ k = Rate!Least(2, m + 1)
       /\ \A i \in 1..k : blocks'[i] = l[i + (m + 1) - k]
  <2>1. 2 \in Nat \ {0}
    OBVIOUS
  <2>2. LET t == Rate!Last(2, l) IN
        /\ t \in Seq([from : Nat, length : Nat, held : Nat]) /\ Len(t) = Rate!Least(2, Len(l))
        /\ \A i \in 1..Len(t) : t[i] = l[i + Len(l) - Len(t)]
    <3> HIDE DEF l
    <3> QED BY <1>9, <2>1, RateLast
  <2>3. blocks' = Rate!Last(2, l)
    BY <1>4
  <2> HIDE DEF l
  <2> QED BY <1>9, <2>2, <2>3
<1> HIDE DEF l
<1>11. k = IF m = 0 THEN 1 ELSE 2
  BY <1>9, <1>10 DEF Rate!Least
<1>12. blocks'[k] = block /\ (k = 2 => blocks'[1] = blocks[m])
  <2>1. CASE m = 0
    <3>1. k = 1 /\ 1 + (m + 1) - k = m + 1 /\ 1 \in 1..k
      BY <1>11, <2>1
    <3>2. blocks'[1] = l[1 + (m + 1) - k]
      BY <1>10, <3>1
    <3>3. blocks'[k] = block
      BY <1>9, <3>1, <3>2
    <3> QED BY <3>1, <3>3
  <2>2. CASE m # 0
    <3>1. k = 2 /\ 2 + (m + 1) - k = m + 1 /\ 1 + (m + 1) - k = m /\ m \in 1..m /\ 1 \in 1..k /\ 2 \in 1..k
      BY <1>9, <1>11, <2>2
    <3> QED BY <1>9, <1>10, <3>1
  <2> QED BY <2>1, <2>2
<1> HIDE DEF k, m
<1>13. Rate!TypeOK'
  <2>1. blocked' \in 0..now' + LongestBlock
    BY <1>1, <1>4, <1>5, <1>7
  <2>2. strikes' \in [count : Nat, until : Nat]
    BY <1>1, <1>2, <1>4, <1>5
  <2>3. outcome' \in [ok : BOOLEAN, left : 0..HitLimit, retry : Nat]
    <3>1. 0 \in 0..HitLimit
      BY <1>5
    <3> QED BY <1>4, <1>7, <3>1
  <2>4. arrival' \in 0..now' + Rate!Window
    BY <1>1, <1>4, <1>5
  <2>5. hits' \in Seq(Nat) /\ Len(hits') = 0
    BY <1>4
  <2> QED BY <1>1, <1>4, <1>10, <2>1, <2>2, <2>3, <2>4, <2>5 DEF Rate!TypeOK
<1>14. Rate!Paced' /\ Rate!AllowanceKept'
  <2>1. Len(hits') = 0
    BY <1>4
  <2> QED BY <2>1 DEF Rate!Paced, Rate!AllowanceKept
<1>15. Rate!RemainingIsHonest'
  BY <1>4 DEF Rate!RemainingIsHonest
<1>16. Rate!Remembered'
  <2>1. blocks' # <<>> /\ blocks'[Len(blocks')] = block
    <3>1. Len(blocks') # 0
      BY <1>11 DEF k
    <3> QED BY <1>12, <3>1 DEF k
  <2>2. block.held = held /\ block.from = n /\ block.length = length
    BY DEF block
  <2> QED BY <1>4, <2>1, <2>2 DEF Rate!Remembered, length
<1>17. Rate!BlocksEscalate'
  <2> SUFFICES ASSUME m # 0
      PROVE LET old == blocks[m] IN
        \/ length = Rate!Least(2 * old.length, LongestBlock)
        \/ /\ held = 0 /\ n >= old.from + Rate!StrikeMemory
           /\ \/ old.from + Rate!StrikeMemory > old.from + old.length
              \/ old.length > Rate!FirstPenalty
    <3>1. CASE m = 0
      <4>1. Len(blocks') = 1
        BY <1>11, <3>1 DEF k
      <4> QED BY <4>1 DEF Rate!BlocksEscalate
    <3>2. CASE m # 0
      <4>1. Len(blocks') = 2
        BY <1>11, <3>2 DEF k
      <4>2. blocks'[1] = blocks[m] /\ blocks'[2] = block
        BY <1>12, <4>1 DEF k
      <4>3. block.held = held /\ block.from = n /\ block.length = length
        BY DEF block
      <4>4. \A i \in 1..(Len(blocks') - 1) : i = 1 /\ i + 1 = 2
        BY <4>1
      <4> QED BY <3>2, <4>2, <4>3, <4>4 DEF Rate!BlocksEscalate
    <3> QED BY <3>1, <3>2
  <2>1. m \in 1..m /\ m = Len(blocks)
    BY <1>9 DEF m
  <2> DEFINE old == blocks[m]
  <2>2. old \in [from : Nat, length : Nat, held : Nat] /\ blocks # <<>>
    <3>1. \A i \in 1..Len(blocks) : blocks[i] \in [from : Nat, length : Nat, held : Nat]
      BY <1>1, ElementOfSeq
    <3>2. Len(<<>>) = 0
      OBVIOUS
    <3> QED BY <2>1, <3>1, <3>2
  <2>3. /\ strikes = [count |-> old.held + 1, until |-> old.from + Rate!StrikeMemory]
        /\ old.length = Rate!Least(Rate!FirstPenalty * Rate!Power[old.held], LongestBlock)
    BY <2>1, <2>2 DEF Rate!IInv, Rate!Remembered, m
  <2> HIDE DEF old
  <2>4. strikes.count = old.held + 1 /\ strikes.until = old.from + Rate!StrikeMemory
    BY <2>3
  <2> DEFINE f == old.from
             o == old.length
             h == old.held
  <2>5. f \in Nat /\ o \in Nat /\ h \in Nat
    BY <2>2
  <2>6. CASE strikes.until > now
    <3>1. held = h + 1
      BY <2>4, <2>6 DEF held, Rate!Held
    <3> DEFINE x == Rate!FirstPenalty * Rate!Power[h]
               y == Rate!FirstPenalty * Rate!Power[h + 1]
    <3>2. Rate!Power[h] \in Nat /\ Rate!Power[h + 1] = 2 * Rate!Power[h]
      BY <2>5, Doubling
    <3> HIDE DEF h
    <3>3. y = 2 * x /\ x \in Nat
      BY <1>5, <3>2
    <3>4. length = Rate!Least(y, LongestBlock) /\ o = Rate!Least(x, LongestBlock)
      BY <2>3, <3>1 DEF length, h
    <3> HIDE DEF x, y, o
    <3>5. length = Rate!Least(2 * o, LongestBlock)
      BY <1>5, <3>3, <3>4 DEF Rate!Least
    <3> QED BY <3>5 DEF o, old
  <2>7. CASE ~(strikes.until > now)
    <3>1. held = 0
      BY <2>7 DEF held, Rate!Held
    <3> DEFINE s == Rate!StrikeMemory
               p == Rate!FirstPenalty
    <3> HIDE DEF f, o, s, p
    <3>2. ~(f + s > n)
      BY <2>4, <2>7 DEF f, s
    <3>3. s \in Nat /\ p \in Nat /\ s > p
      BY <1>5 DEF s, p
    <3>4. n >= f + s /\ (f + s > f + o \/ o > p)
      <4> HIDE DEF n
      <4> QED BY <1>1, <2>5, <3>2, <3>3
    <3> QED BY <3>1, <3>4 DEF f, o, s, p, old
  <2> QED BY <2>6, <2>7
<1> QED BY <1>13, <1>14, <1>15, <1>16, <1>17 DEF Rate!IInv

\* Time takes a block away, and a memory.
LEMMA RateTick ==
    ASSUME Rate!RateAssumption, Rate!IInv, Rate!Tick
    PROVE  Rate!IInv'
<1> DEFINE n == now
           a == arrival
           a1 == arrival'
           n1 == now'
<1>1. /\ now < RateHorizon /\ n1 = n + 1
      /\ a1 = (IF a <= n1 THEN 0 ELSE a)
      /\ outcome' = [ok |-> FALSE, left |-> 0, retry |-> 0]
      /\ blocked' = blocked /\ strikes' = strikes /\ hits' = hits /\ blocks' = blocks
  BY DEF Rate!Tick, Rate!Silent
<1>2. /\ HitLimit \in Nat /\ HitLimit > 0 /\ Rate!Window = HitLimit * 2 /\ now \in 1..RateHorizon
      /\ n \in Nat /\ a \in 0..n + Rate!Window /\ a \in Nat /\ RateHorizon \in Nat
      /\ blocked \in 0..now + LongestBlock /\ LongestBlock \in Nat
      /\ hits \in Seq(Nat) /\ \A i \in 1..Len(hits) : hits[i] \in Nat /\ hits[i] <= n
  BY DEF Rate!RateAssumption, Rate!IInv, Rate!TypeOK, Rate!Window, Rate!Emission
<1> HIDE DEF n, a, a1, n1
<1>3. a1 \in 0..n1 + Rate!Window /\ n1 \in Nat /\ n1 >= n
  BY <1>1, <1>2
<1>4. Rate!Most(a1, n1) \in Nat /\ Rate!Most(a, n) \in Nat /\ Rate!Most(a1, n1) >= Rate!Most(a, n)
  BY <1>1, <1>2 DEF Rate!Most
<1>5. Rate!TypeOK'
  <2>1. outcome' \in [ok : BOOLEAN, left : 0..HitLimit, retry : Nat]
    <3>1. 0 \in 0..HitLimit
      BY <1>2
    <3> QED BY <1>1, <3>1
  <2>2. now' \in 1..RateHorizon
    BY <1>1, <1>2 DEF n, n1
  <2>3. arrival' \in 0..now' + Rate!Window
    BY <1>3 DEF n1, a1
  <2>4. blocked' \in 0..now' + LongestBlock
    BY <1>1, <1>2 DEF n, n1
  <2>5. \A i \in 1..Len(hits') : hits'[i] <= now'
    <3>1. \A i \in 1..Len(hits) : hits[i] <= n1
      BY <1>2, <1>3
    <3> QED BY <1>1, <3>1 DEF n1
  <2> QED BY <1>1, <2>1, <2>2, <2>3, <2>4, <2>5 DEF Rate!IInv, Rate!TypeOK
<1>6. Rate!Paced'
  <2>1. ASSUME NEW i \in 1..Len(hits) PROVE Rate!Most(a1, n1) >= hits[i] + (Len(hits) - i + 1) * 2
    <3>1. Rate!Most(a, n) >= hits[i] + (Len(hits) - i + 1) * 2
      BY DEF Rate!IInv, Rate!Paced, Rate!Emission, a, n
    <3>2. hits[i] + (Len(hits) - i + 1) * 2 \in Int
      BY <1>2
    <3> QED BY <1>4, <3>1, <3>2
  <2> QED BY <1>1, <2>1 DEF Rate!Paced, Rate!Emission, a1, n1
<1>7. Rate!AllowanceKept' /\ Rate!BlocksEscalate' /\ Rate!Remembered' /\ Rate!RemainingIsHonest'
  BY <1>1 DEF Rate!IInv, Rate!AllowanceKept, Rate!BlocksEscalate, Rate!Remembered, Rate!RemainingIsHonest
<1> QED BY <1>5, <1>6, <1>7 DEF Rate!IInv

\* A hit that is refused by a block, or was not measured, changes no bucket.
LEMMA RateRefused ==
    ASSUME Rate!RateAssumption, Rate!IInv, Rate!Refused \/ Rate!Unmeasured
    PROVE  Rate!IInv'
<1>1. /\ now' = now /\ arrival' = arrival /\ blocked' = blocked /\ strikes' = strikes
      /\ hits' = hits /\ blocks' = blocks
  BY DEF Rate!Refused, Rate!Unmeasured
<1>2. HitLimit \in Nat /\ Rate!Window \in Nat /\ 0 \in 0..HitLimit /\ HitLimit \in 0..HitLimit
  BY DEF Rate!RateAssumption, Rate!Window, Rate!Emission
<1>3. outcome' \in [ok : BOOLEAN, left : 0..HitLimit, retry : Nat]
  <2>1. CASE Rate!Refused
    <3>1. blocked - now \in Nat
      BY <2>1 DEF Rate!Refused, Rate!IInv, Rate!TypeOK
    <3> QED BY <1>2, <2>1, <3>1 DEF Rate!Refused
  <2>2. CASE Rate!Unmeasured
    <3>1. OpenOnOutage \in BOOLEAN
      BY DEF Rate!RateAssumption
    <3> QED BY <1>2, <2>2, <3>1 DEF Rate!Unmeasured
  <2> QED BY <2>1, <2>2
<1>4. Rate!RemainingIsHonest'
  <2>1. CASE Rate!Refused
    BY <2>1 DEF Rate!Refused, Rate!RemainingIsHonest
  <2>2. CASE Rate!Unmeasured
    <3>1. outcome'.ok = OpenOnOutage /\ outcome'.left = IF OpenOnOutage THEN HitLimit ELSE 0
      BY <2>2 DEF Rate!Unmeasured
    <3>2. outcome'.ok => outcome'.left = HitLimit
      BY <3>1, Zenon
    <3> QED BY <3>2 DEF Rate!RemainingIsHonest
  <2> QED BY <2>1, <2>2
<1>5. Rate!TypeOK'
  BY <1>1, <1>3 DEF Rate!IInv, Rate!TypeOK
<1>6. Rate!AllowanceKept' /\ Rate!BlocksEscalate' /\ Rate!Remembered' /\ Rate!Paced'
  BY <1>1 DEF Rate!IInv, Rate!AllowanceKept, Rate!BlocksEscalate, Rate!Remembered, Rate!Paced
<1> QED BY <1>4, <1>5, <1>6 DEF Rate!IInv

\* A bucket is full at first.
LEMMA RateStarts ==
    ASSUME Rate!RateAssumption, Rate!Init
    PROVE  Rate!IInv
<1>1. /\ now = 1 /\ arrival = 0 /\ blocked = 0 /\ strikes = [count |-> 0, until |-> 0]
      /\ outcome = [ok |-> FALSE, left |-> 0, retry |-> 0] /\ hits = <<>> /\ blocks = <<>>
      /\ Len(hits) = 0 /\ Len(blocks) = 0
  BY DEF Rate!Init, Rate!Silent
<1>2. HitLimit \in Nat /\ Rate!Window \in Nat /\ 0 \in 0..HitLimit /\ LongestBlock \in Nat
      /\ RateHorizon \in Nat /\ RateHorizon > 0
  BY DEF Rate!RateAssumption, Rate!Window, Rate!Emission
<1>3. Rate!TypeOK
  <2>1. outcome \in [ok : BOOLEAN, left : 0..HitLimit, retry : Nat]
    BY <1>1, <1>2
  <2>2. now \in 1..RateHorizon /\ arrival \in 0..now + Rate!Window /\ blocked \in 0..now + LongestBlock
    BY <1>1, <1>2
  <2>3. hits \in Seq(Nat) /\ blocks \in Seq([from : Nat, length : Nat, held : Nat])
    BY <1>1
  <2>4. strikes \in [count : Nat, until : Nat] /\ \A i \in 1..Len(hits) : hits[i] <= now
    BY <1>1
  <2> QED BY <2>1, <2>2, <2>3, <2>4 DEF Rate!TypeOK
<1>4. Rate!AllowanceKept /\ Rate!Paced /\ Rate!BlocksEscalate
  BY <1>1 DEF Rate!AllowanceKept, Rate!Paced, Rate!BlocksEscalate
<1>5. Rate!Remembered /\ Rate!RemainingIsHonest
  BY <1>1 DEF Rate!Remembered, Rate!RemainingIsHonest
<1> QED BY <1>3, <1>4, <1>5 DEF Rate!IInv

\* Each branch of the script keeps the invariant.
LEMMA RateSteps ==
    ASSUME Rate!RateAssumption, Rate!IInv, [Rate!Next]_(Rate!rateVars)
    PROVE  Rate!IInv'
<1>1. CASE UNCHANGED Rate!rateVars
  BY <1>1 DEF Rate!rateVars, Rate!IInv, Rate!TypeOK, Rate!AllowanceKept, Rate!RemainingIsHonest,
     Rate!BlocksEscalate, Rate!Paced, Rate!Remembered
<1>2. CASE Rate!Next
  BY <1>2, RateRefused, RateStrike, RateAllow, RateTick DEF Rate!Next
<1> QED BY <1>1, <1>2

\* What the invariant says of who is let through.
LEMMA RateKept ==
    ASSUME Rate!IInv
    PROVE  Rate!TypeOK /\ Rate!AllowanceKept /\ Rate!RemainingIsHonest /\ Rate!BlocksEscalate
BY DEF Rate!IInv

\* The variables of CronSlots.
next == v3
token == v5
runs == v4
markers == v6
claims == v7
missed == v8
spoiled == v2
faults == v9
USE DEF next, token, runs, markers, claims, missed, spoiled, faults

-----------------------------------------------------------------------------
(* The occurrences of scheduled jobs (foundation: cron).                      *)

\* The numbers of a fleet of schedulers.
LEMMA CronBounds ==
    ASSUME Cron!CronAssumption, Cron!TypeOK
    PROVE  /\ CronHorizon \in Nat /\ MaxCronFaults \in Nat /\ now \in Nat /\ now <= CronHorizon
           /\ \A r \in CronReplicas : CronAhead[r] \in Nat /\ Cron!Clock(r) = now + CronAhead[r]
           /\ \A j \in CronJobs : Strikes[j] \subseteq Cron!Instants /\ TimeLimit[j] \in Nat \ {0}
           /\ \A j \in CronJobs : \A s \in Strikes[j] : s \in Nat
           /\ \A s \in Cron!Instants : s \in Nat
           /\ Cron!None = -1
<1>1. \A j \in CronJobs : Strikes[j] \subseteq Cron!Instants
  BY DEF Cron!Instants
<1>2. \A s \in Cron!Instants : s \in Nat
  BY DEF Cron!Instants, Cron!CronAssumption
<1> QED BY <1>1, <1>2 DEF Cron!CronAssumption, Cron!TypeOK, Cron!Clock, Cron!None

\* After any instant a clock shows, a job strikes again: first at its next run.
LEMMA CronNext ==
    ASSUME Cron!CronAssumption, Cron!TypeOK, NEW j \in CronJobs, NEW r \in CronReplicas,
           NEW a \in Nat, a <= CronHorizon + CronAhead[r]
    PROVE  /\ Cron!NextRun(j, a) \in Strikes[j] /\ Cron!NextRun(j, a) \in Nat /\ Cron!NextRun(j, a) > a
           /\ \A s \in Strikes[j] : s > a => Cron!NextRun(j, a) <= s
<1> DEFINE S == {s \in Strikes[j] : s > a}
<1>1. S \subseteq Nat /\ CronAhead[r] \in Nat
  BY CronBounds
<1>2. PICK s \in Strikes[j] : s > CronHorizon + CronAhead[r]
  BY DEF Cron!CronAssumption
<1>3. s \in Nat /\ CronHorizon \in Nat
  BY CronBounds
<1>4. s > a
  BY <1>1, <1>2, <1>3
<1>5. PICK m \in S : \A n \in S : m <= n
  BY <1>1, <1>4, LeastNumber
<1>6. Cron!Min(S) \in S /\ \A n \in S : Cron!Min(S) <= n
  BY <1>5 DEF Cron!Min
<1> QED BY <1>1, <1>6 DEF Cron!NextRun

\* No clock is further ahead than the one that is furthest.
LEMMA CronLead ==
    ASSUME Cron!CronAssumption, Cron!TypeOK, NEW j \in CronJobs, NEW r \in CronReplicas
    PROVE  LET lead == Cron!Max({CronAhead[q] : q \in CronReplicas}) IN
           lead \in Nat /\ CronAhead[r] <= lead
<1> DEFINE S == {CronAhead[q] : q \in CronReplicas}
<1>1. S \subseteq Nat /\ CronAhead[r] \in S
  BY CronBounds
<1>2. PICK s \in Strikes[j] : \A q \in CronReplicas : s > CronHorizon + CronAhead[q]
  BY DEF Cron!CronAssumption
<1>3. s \in Nat /\ CronHorizon \in Nat
  BY CronBounds
<1>4. S \subseteq 0..s
  BY <1>1, <1>2, <1>3, CronBounds
<1>5. IsFiniteSet(S)
  <2>1. 0 \in Int /\ s \in Int
    BY <1>3
  <2>2. IsFiniteSet(0..s)
    BY <2>1, FS_Interval
  <2> QED BY <1>4, <2>2, FS_Subset
<1>6. PICK m \in S : \A n \in S : n <= m
  BY <1>1, <1>5, GreatestNumber
<1>7. Cron!Max(S) \in S /\ \A n \in S : Cron!Max(S) >= n
  <2>1. \A n \in S : m >= n
    BY <1>1, <1>6
  <2> QED BY <2>1 DEF Cron!Max
<1> QED BY <1>1, <1>7

\* A replica has one run of an occurrence, and no more than one of a job that was not let go.
LEMMA CronAlone ==
    ASSUME Cron!TypeOK, Cron!Started, NEW x \in runs, NEW y \in runs, x.job = y.job, x.by = y.by,
           x.slot = y.slot \/ (x.phase # "letgo" /\ y.phase # "letgo")
    PROVE  x = y
BY DEF Cron!TypeOK, Cron!Started

\* What is known of one run.
LEMMA CronRun ==
    ASSUME Cron!TypeOK, Cron!Started, NEW x \in runs
    PROVE  /\ x.job \in CronJobs /\ x.by \in CronReplicas /\ x.slot \in Strikes[x.job]
           /\ x.slot \in Cron!Instants /\ x.phase \in Cron!Phases /\ x.until \in Nat
           /\ x.slot < next[x.by][x.job] /\ x.slot <= Cron!Clock(x.by)
           /\ x.phase # "letgo" <=> token[x.by][x.job] = x.slot
           /\ x \in Cron!Runs
BY DEF Cron!TypeOK, Cron!Started, Cron!Runs

\* A run that goes on as another of the same occurrence; let go, it frees the job.
LEMMA CronGoesOn ==
    ASSUME Cron!CronAssumption, Cron!TypeOK, Cron!Started, NEW x \in runs, NEW y \in Cron!Runs,
           y.job = x.job, y.slot = x.slot, y.by = x.by, x.phase # "letgo",
           runs' = (runs \ {x}) \cup {y}, next' = next, now' = now,
           IF y.phase = "letgo" THEN Cron!EndRun(x) ELSE token' = token
    PROVE  /\ Cron!Started'
           /\ token' \in [CronReplicas -> [CronJobs -> Cron!Instants \cup {Cron!None}]]
           /\ \A r \in CronReplicas, j \in CronJobs :
                token'[r][j] = Cron!None \/ \E z \in runs' : z.by = r /\ z.job = j /\ z.slot = token'[r][j]
           /\ runs' \subseteq Cron!Runs
           /\ \A z \in runs' : z.phase # "letgo" <=> token'[z.by][z.job] = z.slot
<1>1. /\ token \in [CronReplicas -> [CronJobs -> Cron!Instants \cup {Cron!None}]]
      /\ runs \subseteq Cron!Runs
      /\ \A r \in CronReplicas, j \in CronJobs :
           token[r][j] = Cron!None \/ \E z \in runs : z.by = r /\ z.job = j /\ z.slot = token[r][j]
  BY DEF Cron!TypeOK
<1>2. Cron!Started'
  BY CronRun, CronAlone DEF Cron!Started, Cron!Clock
<1>3. x.by \in CronReplicas /\ x.job \in CronJobs /\ token[x.by][x.job] = x.slot
  BY CronRun
<1>4. CASE y.phase # "letgo"
  <2>1. token' = token
    BY <1>4
  <2>2. \A z \in runs' : z.phase # "letgo" <=> token[z.by][z.job] = z.slot
    BY <1>3, <1>4, CronRun
  <2>3. \A z \in runs : \E w \in runs' : w.by = z.by /\ w.job = z.job /\ w.slot = z.slot
    OBVIOUS
  <2> QED BY <1>1, <1>2, <2>1, <2>2, <2>3
<1>5. CASE y.phase = "letgo"
  <2>1. token' = [token EXCEPT ![x.by][x.job] = Cron!None]
    BY <1>3, <1>5 DEF Cron!EndRun
  <2>2. token' \in [CronReplicas -> [CronJobs -> Cron!Instants \cup {Cron!None}]]
    BY <1>1, <1>3, <2>1
  <2>3. /\ token'[x.by][x.job] = Cron!None
        /\ \A r \in CronReplicas, j \in CronJobs : r # x.by \/ j # x.job => token'[r][j] = token[r][j]
    BY <1>1, <1>3, <2>1
  <2>4. ASSUME NEW z \in runs' PROVE z.phase # "letgo" <=> token'[z.by][z.job] = z.slot
    <3>1. z.by \in CronReplicas /\ z.job \in CronJobs /\ z.slot # Cron!None
      BY CronRun, CronBounds
    <3>2. CASE z.by = x.by /\ z.job = x.job
      <4>1. token'[z.by][z.job] = Cron!None
        BY <2>3, <3>2
      <4>2. z.phase = "letgo"
        BY <1>5, <3>2, CronAlone
      <4> QED BY <3>1, <4>1, <4>2
    <3>3. CASE ~(z.by = x.by /\ z.job = x.job)
      <4>1. z \in runs /\ token'[z.by][z.job] = token[z.by][z.job]
        BY <2>3, <3>1, <3>3
      <4> QED BY <4>1, CronRun
    <3> QED BY <3>2, <3>3
  <2>5. ASSUME NEW r \in CronReplicas, NEW j \in CronJobs, token'[r][j] # Cron!None
        PROVE  \E z \in runs' : z.by = r /\ z.job = j /\ z.slot = token'[r][j]
    <3>1. r # x.by \/ j # x.job
      BY <2>3, <2>5
    <3>2. token'[r][j] = token[r][j]
      BY <2>3, <3>1
    <3>3. PICK z \in runs : z.by = r /\ z.job = j /\ z.slot = token[r][j]
      BY <1>1, <2>5, <3>2
    <3> QED BY <3>1, <3>2, <3>3
  <2> QED BY <1>1, <1>2, <2>2, <2>4, <2>5
<1> QED BY <1>4, <1>5

\* A run that is over, and frees the job unless it was let go.
LEMMA CronGone ==
    ASSUME Cron!CronAssumption, Cron!TypeOK, Cron!Started, NEW x \in runs,
           runs' = runs \ {x}, next' = next, now' = now,
           IF x.phase = "letgo" THEN token' = token ELSE Cron!EndRun(x)
    PROVE  /\ Cron!Started'
           /\ token' \in [CronReplicas -> [CronJobs -> Cron!Instants \cup {Cron!None}]]
           /\ \A r \in CronReplicas, j \in CronJobs :
                token'[r][j] = Cron!None \/ \E z \in runs' : z.by = r /\ z.job = j /\ z.slot = token'[r][j]
           /\ runs' \subseteq Cron!Runs
           /\ \A z \in runs' : z.phase # "letgo" <=> token'[z.by][z.job] = z.slot
<1>1. /\ token \in [CronReplicas -> [CronJobs -> Cron!Instants \cup {Cron!None}]]
      /\ runs \subseteq Cron!Runs
      /\ \A r \in CronReplicas, j \in CronJobs :
           token[r][j] = Cron!None \/ \E z \in runs : z.by = r /\ z.job = j /\ z.slot = token[r][j]
  BY DEF Cron!TypeOK
<1>2. Cron!Started'
  BY CronRun, CronAlone DEF Cron!Started, Cron!Clock
<1>3. /\ x.by \in CronReplicas /\ x.job \in CronJobs
      /\ x.phase # "letgo" <=> token[x.by][x.job] = x.slot
  BY CronRun
<1>4. CASE x.phase = "letgo"
  <2>1. \A r \in CronReplicas, j \in CronJobs :
           token[r][j] = Cron!None \/ \E z \in runs' : z.by = r /\ z.job = j /\ z.slot = token[r][j]
    BY <1>1, <1>3, <1>4
  <2> QED BY <1>1, <1>2, <1>4, <2>1, CronRun
<1>5. CASE x.phase # "letgo"
  <2>1. token' = [token EXCEPT ![x.by][x.job] = Cron!None]
    BY <1>3, <1>5 DEF Cron!EndRun
  <2>2. token' \in [CronReplicas -> [CronJobs -> Cron!Instants \cup {Cron!None}]]
    BY <1>1, <1>3, <2>1
  <2>3. /\ token'[x.by][x.job] = Cron!None
        /\ \A r \in CronReplicas, j \in CronJobs : r # x.by \/ j # x.job => token'[r][j] = token[r][j]
    BY <1>1, <1>3, <2>1
  <2>4. ASSUME NEW z \in runs' PROVE z.phase # "letgo" <=> token'[z.by][z.job] = z.slot
    <3>1. z \in runs /\ z # x /\ z.by \in CronReplicas /\ z.job \in CronJobs /\ z.slot # Cron!None
      BY CronRun, CronBounds
    <3>2. CASE z.by = x.by /\ z.job = x.job
      <4>1. token'[z.by][z.job] = Cron!None
        BY <2>3, <3>2
      <4>2. z.phase = "letgo"
        BY <1>5, <3>1, <3>2, CronAlone
      <4> QED BY <3>1, <4>1, <4>2
    <3>3. CASE ~(z.by = x.by /\ z.job = x.job)
      <4>1. token'[z.by][z.job] = token[z.by][z.job]
        BY <2>3, <3>1, <3>3
      <4> QED BY <3>1, <4>1, CronRun
    <3> QED BY <3>2, <3>3
  <2>5. ASSUME NEW r \in CronReplicas, NEW j \in CronJobs, token'[r][j] # Cron!None
        PROVE  \E z \in runs' : z.by = r /\ z.job = j /\ z.slot = token'[r][j]
    <3>1. r # x.by \/ j # x.job
      BY <2>3, <2>5
    <3>2. token'[r][j] = token[r][j]
      BY <2>3, <3>1
    <3>3. PICK z \in runs : z.by = r /\ z.job = j /\ z.slot = token[r][j]
      BY <1>1, <2>5, <3>2
    <3> QED BY <3>1, <3>2, <3>3
  <2> QED BY <1>1, <1>2, <2>2, <2>4, <2>5
<1> QED BY <1>4, <1>5

\* The types that are left to show, of a step that moves or ends a run.
LEMMA CronTyped ==
    ASSUME Cron!CronAssumption, Cron!TypeOK, next' = next, now' = now,
           token' \in [CronReplicas -> [CronJobs -> Cron!Instants \cup {Cron!None}]],
           \A r \in CronReplicas, j \in CronJobs :
              token'[r][j] = Cron!None \/ \E z \in runs' : z.by = r /\ z.job = j /\ z.slot = token'[r][j],
           runs' \subseteq Cron!Runs,
           \A z \in runs' : z.phase # "letgo" <=> token'[z.by][z.job] = z.slot,
           DOMAIN markers' = CronJobs, DOMAIN claims' = CronJobs, missed' = missed,
           \A j \in CronJobs :
              /\ markers'[j] \in [Strikes[j] -> Nat]
              /\ claims'[j] \in [Strikes[j] -> SUBSET (CronReplicas \X (0..CronHorizon))],
           spoiled' \subseteq CronJobs \X Cron!Instants, faults' \in 0..MaxCronFaults
    PROVE  Cron!TypeOK'
BY DEF Cron!TypeOK

\* The tables of occurrences are in their types.
LEMMA CronTables ==
    ASSUME Cron!TypeOK
    PROVE  /\ DOMAIN markers = CronJobs /\ DOMAIN claims = CronJobs /\ DOMAIN missed = CronJobs
           /\ \A j \in CronJobs :
                /\ markers[j] \in [Strikes[j] -> Nat]
                /\ claims[j] \in [Strikes[j] -> SUBSET (CronReplicas \X (0..CronHorizon))]
                /\ missed[j] \in [Strikes[j] -> SUBSET CronReplicas]
           /\ spoiled \subseteq CronJobs \X Cron!Instants /\ faults \in 0..MaxCronFaults
           /\ now \in 0..CronHorizon
           /\ next \in [CronReplicas -> [CronJobs -> Cron!Instants]]
           /\ token \in [CronReplicas -> [CronJobs -> Cron!Instants \cup {Cron!None}]]
           /\ \A r \in CronReplicas, j \in CronJobs : next[r][j] \in Strikes[j]
           /\ runs \subseteq Cron!Runs
BY DEF Cron!TypeOK

\* A run at the gate goes on to its claim.
LEMMA CronEnter ==
    ASSUME Cron!CronAssumption, Cron!IInv, NEW x \in runs, Cron!Enter(x)
    PROVE  Cron!IInv'
<1> DEFINE y == [x EXCEPT !.phase = "claim"]
<1>0. Cron!TypeOK /\ Cron!Started /\ Cron!Marking /\ Cron!Walked
  BY DEF Cron!IInv
<1>1. /\ y \in Cron!Runs /\ y.job = x.job /\ y.slot = x.slot /\ y.by = x.by /\ x.phase = "gate"
      /\ y.phase = "claim" /\ runs' = (runs \ {x}) \cup {y}
  BY <1>0, CronRun DEF Cron!Enter, Cron!Goes, Cron!Runs, Cron!Phases
<1>2. UNCHANGED <<now, next, token, markers, claims, missed, spoiled, faults>>
  BY DEF Cron!Enter
<1> HIDE DEF y
<1>3. Cron!TypeOK' /\ Cron!Started'
  BY <1>0, <1>1, <1>2, CronGoesOn, CronTyped, CronTables
<1>4. Cron!Marking'
  BY <1>0, <1>2 DEF Cron!Marking, Cron!Over, Cron!NextRun
<1>5. ASSUME NEW j, NEW s, Cron!Asked(j, s) PROVE Cron!Asked(j, s)'
  BY <1>1, <1>5 DEF Cron!Asked
<1>6. Cron!Walked'
  BY <1>0, <1>2, <1>5 DEF Cron!Walked
<1> QED BY <1>3, <1>4, <1>6 DEF Cron!IInv

\* Time passes.
LEMMA CronTick ==
    ASSUME Cron!CronAssumption, Cron!IInv, Cron!Tick
    PROVE  Cron!IInv'
<1>0. Cron!TypeOK /\ Cron!Started /\ Cron!Marking /\ Cron!Walked
  BY DEF Cron!IInv
<1>1. now' = now + 1 /\ now \in Nat /\ now' \in 0..CronHorizon /\ CronHorizon \in Nat
  BY <1>0, CronBounds DEF Cron!Tick
<1>2. UNCHANGED <<next, token, runs, markers, claims, missed, spoiled, faults>>
  BY DEF Cron!Tick
<1>3. Cron!TypeOK'
  BY <1>0, <1>1, <1>2 DEF Cron!TypeOK
<1>4. Cron!Started'
  <2>1. ASSUME NEW x \in runs PROVE x.slot <= Cron!Clock(x.by)'
    <3>1. x.by \in CronReplicas /\ x.slot \in Nat /\ x.slot <= Cron!Clock(x.by)
      BY <1>0, CronRun, CronBounds
    <3>2. CronAhead[x.by] \in Nat
      BY <1>0, <3>1, CronBounds
    <3> QED BY <1>1, <3>1, <3>2 DEF Cron!Clock
  <2> QED BY <1>0, <1>2, <2>1 DEF Cron!Started
<1>5. Cron!Marking'
  BY <1>0, <1>2 DEF Cron!Marking, Cron!Over, Cron!NextRun
<1>6. Cron!Walked'
  BY <1>0, <1>2 DEF Cron!Walked, Cron!Asked
<1> QED BY <1>3, <1>4, <1>5, <1>6 DEF Cron!IInv

\* The faults of a fleet stay within their bound.
LEMMA CronFaults ==
    ASSUME Cron!CronAssumption, Cron!TypeOK, Cron!Fault
    PROVE  faults' \in 0..MaxCronFaults
BY DEF Cron!CronAssumption, Cron!TypeOK, Cron!Fault

\* A step that ends a run and leaves the tables as they are, with the occurrence claimed, touched
\* by a fault, or past what counts as asked.
LEMMA CronEnds ==
    ASSUME Cron!CronAssumption, Cron!IInv, NEW x \in runs, Cron!TypeOK', Cron!Started', Cron!Marking',
           runs' = runs \ {x}, next' = next, missed' = missed, claims' = claims, spoiled \subseteq spoiled',
           x.phase \in {"gate", "claim"} => claims[x.job][x.slot] # {} \/ <<x.job, x.slot>> \in spoiled'
    PROVE  Cron!IInv'
<1>1. ASSUME NEW j, NEW s, Cron!Asked(j, s), ~Cron!Asked(j, s)'
      PROVE  claims[j][s] # {} \/ <<j, s>> \in spoiled'
  BY <1>1 DEF Cron!Asked
<1>2. Cron!Walked'
  BY <1>1 DEF Cron!Walked, Cron!IInv
<1> QED BY <1>2 DEF Cron!IInv

\* A run whose body ended, in time or after it was let go.
LEMMA CronFinish ==
    ASSUME Cron!CronAssumption, Cron!IInv, NEW x \in runs, Cron!Finish(x) \/ Cron!LateFinish(x)
    PROVE  Cron!IInv'
<1>0. Cron!TypeOK /\ Cron!Started /\ Cron!Marking /\ Cron!Walked
  BY DEF Cron!IInv
<1>1. /\ runs' = runs \ {x} /\ x.phase \in {"run", "letgo"}
      /\ IF x.phase = "letgo" THEN token' = token ELSE Cron!EndRun(x)
      /\ UNCHANGED <<now, next, markers, claims, missed, spoiled, faults>>
  BY DEF Cron!Finish, Cron!LateFinish
<1>2. Cron!TypeOK' /\ Cron!Started'
  BY <1>0, <1>1, CronGone, CronTyped, CronTables
<1>3. Cron!Marking'
  BY <1>0, <1>1 DEF Cron!Marking, Cron!Over, Cron!NextRun
<1> QED BY <1>1, <1>2, <1>3, CronEnds

\* A run whose time is over is let go of.
LEMMA CronDeadline ==
    ASSUME Cron!CronAssumption, Cron!IInv, NEW x \in runs, Cron!Deadline(x)
    PROVE  Cron!IInv'
<1> DEFINE y == [x EXCEPT !.phase = "letgo"]
<1>0. Cron!TypeOK /\ Cron!Started /\ Cron!Marking /\ Cron!Walked
  BY DEF Cron!IInv
<1>1. /\ y \in Cron!Runs /\ y.job = x.job /\ y.slot = x.slot /\ y.by = x.by /\ x.phase = "run"
      /\ y.phase = "letgo" /\ runs' = (runs \ {x}) \cup {y} /\ Cron!EndRun(x)
  BY <1>0, CronRun DEF Cron!Deadline, Cron!Goes, Cron!Runs, Cron!Phases
<1>2. UNCHANGED <<now, next, markers, claims, missed, spoiled, faults>>
  BY DEF Cron!Deadline
<1> HIDE DEF y
<1>3. Cron!TypeOK' /\ Cron!Started'
  BY <1>0, <1>1, <1>2, CronGoesOn, CronTyped, CronTables
<1>4. Cron!Marking'
  BY <1>0, <1>2 DEF Cron!Marking, Cron!Over, Cron!NextRun
<1>5. ASSUME NEW j, NEW s, Cron!Asked(j, s) PROVE Cron!Asked(j, s)'
  BY <1>1, <1>5 DEF Cron!Asked
<1>6. Cron!Walked'
  BY <1>0, <1>2, <1>5 DEF Cron!Walked
<1> QED BY <1>3, <1>4, <1>6 DEF Cron!IInv

\* A marker is set for as long as its occurrence is current.
LEMMA CronLease ==
    ASSUME Cron!CronAssumption, Cron!TypeOK, Cron!Started, NEW x \in runs
    PROVE  /\ Cron!Lease(x.job, x.slot) \in Nat /\ Cron!Lease(x.job, x.slot) > 0
           /\ Cron!Over(x.job, x.slot) \in Int
           /\ now + Cron!Lease(x.job, x.slot) >= Cron!Over(x.job, x.slot)
<1> DEFINE j == x.job
           s == x.slot
           n == Cron!NextRun(j, s)
           lead == Cron!Max({CronAhead[q] : q \in CronReplicas})
           t == TimeLimit[j]
           a == CronAhead[x.by]
<1>1. /\ j \in CronJobs /\ x.by \in CronReplicas /\ s \in Nat /\ s <= now + a /\ a \in Nat
      /\ now \in Nat /\ now <= CronHorizon /\ CronHorizon \in Nat /\ t \in Nat /\ t > 0
  BY CronRun, CronBounds
<1>2. n \in Nat /\ n > s
  <2>1. s <= CronHorizon + a
    BY <1>1
  <2> QED BY <1>1, <2>1, CronNext
<1>3. lead \in Nat /\ a <= lead
  BY <1>1, CronLead
<1>4. Cron!Over(j, s) = n - lead
  BY DEF Cron!Over
<1>5. Cron!Lease(j, s) \in {n - s, t} /\ Cron!Lease(j, s) >= n - s /\ Cron!Lease(j, s) >= t
  <2>1. Cron!Lease(j, s) = Cron!Max({n - s, t})
    BY DEF Cron!Lease
  <2>2. \E m \in {n - s, t} : \A k \in {n - s, t} : m >= k
    BY <1>1, <1>2
  <2>3. Cron!Max({n - s, t}) \in {n - s, t} /\ \A k \in {n - s, t} : Cron!Max({n - s, t}) >= k
    BY <2>2 DEF Cron!Max
  <2> QED BY <2>1, <2>3
<1> HIDE DEF j, s, n, lead, t, a
<1>6. Cron!Lease(j, s) \in Nat /\ Cron!Lease(j, s) > 0 /\ Cron!Over(j, s) \in Int
      /\ now + Cron!Lease(j, s) >= Cron!Over(j, s)
  BY <1>1, <1>2, <1>3, <1>4, <1>5
<1> QED BY <1>6 DEF j, s

\* A marker that is set, and a claim that is made with it or lost, where there was none.
LEMMA CronMarks ==
    ASSUME Cron!CronAssumption, Cron!IInv, NEW x \in runs, ~Cron!Marked(x), Cron!Mark(x),
           spoiled \subseteq spoiled',
           \/ claims' = [claims EXCEPT ![x.job][x.slot] = @ \cup {<<x.by, now>>}]
           \/ claims' = claims /\ <<x.job, x.slot>> \in spoiled'
    PROVE  /\ Cron!Marking'
           /\ DOMAIN markers' = CronJobs /\ DOMAIN claims' = CronJobs
           /\ \A j \in CronJobs :
                /\ markers'[j] \in [Strikes[j] -> Nat]
                /\ claims'[j] \in [Strikes[j] -> SUBSET (CronReplicas \X (0..CronHorizon))]
           /\ \A j \in CronJobs : \A s \in Strikes[j] : claims[j][s] \subseteq claims'[j][s]
           /\ claims'[x.job][x.slot] # {} \/ <<x.job, x.slot>> \in spoiled'
<1> DEFINE j == x.job
           s == x.slot
           until == now + Cron!Lease(x.job, x.slot)
           e == <<x.by, now>>
<1>0. Cron!TypeOK /\ Cron!Started /\ Cron!Marking
  BY DEF Cron!IInv
<1>1. /\ j \in CronJobs /\ s \in Strikes[j] /\ x.by \in CronReplicas /\ now \in 0..CronHorizon
      /\ now \in Nat /\ e \in CronReplicas \X (0..CronHorizon)
  BY <1>0, CronRun, CronBounds, CronTables
<1>2. until \in Nat /\ until > 0 /\ until >= Cron!Over(j, s) /\ Cron!Over(j, s) \in Int
  BY <1>0, <1>1, CronLease
<1>3. markers[j][s] \in Nat /\ markers[j][s] <= now
  BY <1>0, <1>1, CronTables DEF Cron!Marked, Cron!Key
<1>4. markers' = [markers EXCEPT ![j][s] = until]
  BY DEF Cron!Mark, Cron!Key
<1> HIDE DEF j, s, until, e
<1>5. /\ DOMAIN markers' = CronJobs /\ \A k \in CronJobs : markers'[k] \in [Strikes[k] -> Nat]
      /\ markers'[j][s] = until
      /\ \A k \in CronJobs : \A i \in Strikes[k] : k # j \/ i # s => markers'[k][i] = markers[k][i]
  BY <1>0, <1>1, <1>2, <1>4, CronTables
<1>6. claims[j][s] # {} => ~(now < Cron!Over(j, s))
  <2>1. claims[j][s] # {} => markers[j][s] >= Cron!Over(j, s)
    BY <1>0, <1>1 DEF Cron!Marking
  <2> QED BY <1>1, <1>2, <1>3, <2>1
<1>7. CASE claims' = [claims EXCEPT ![j][s] = @ \cup {e}]
  <2>1. /\ DOMAIN claims' = CronJobs
        /\ \A k \in CronJobs : claims'[k] \in [Strikes[k] -> SUBSET (CronReplicas \X (0..CronHorizon))]
        /\ claims'[j][s] = claims[j][s] \cup {e}
        /\ \A k \in CronJobs : \A i \in Strikes[k] : k # j \/ i # s => claims'[k][i] = claims[k][i]
    BY <1>0, <1>1, <1>7, CronTables
  <2>2. ASSUME NEW c \in claims'[j][s], NEW d \in claims'[j][s], c[2] < Cron!Over(j, s), d[2] < Cron!Over(j, s)
        PROVE  c = d
    <3>1. CASE claims[j][s] = {}
      BY <2>1, <3>1
    <3>2. CASE claims[j][s] # {}
      <4>1. e[2] = now
        BY DEF e
      <4>2. c \in claims[j][s] /\ d \in claims[j][s]
        BY <1>6, <2>1, <2>2, <3>2, <4>1
      <4> QED BY <1>0, <1>1, <2>2, <4>2 DEF Cron!Marking
    <3> QED BY <3>1, <3>2
  <2>3. ASSUME NEW k \in CronJobs, NEW i \in Strikes[k]
        PROVE  /\ claims'[k][i] # {} => markers'[k][i] >= Cron!Over(k, i)
               /\ markers'[k][i] > 0 => claims'[k][i] # {} \/ <<k, i>> \in spoiled'
               /\ \A c, d \in claims'[k][i] :
                     c[2] < Cron!Over(k, i) /\ d[2] < Cron!Over(k, i) => c = d
    <3>1. CASE k = j /\ i = s
      BY <1>2, <1>5, <2>1, <2>2, <3>1
    <3>2. CASE k # j \/ i # s
      <4>1. claims'[k][i] = claims[k][i] /\ markers'[k][i] = markers[k][i]
        BY <1>5, <2>1, <3>2
      <4> QED BY <1>0, <4>1 DEF Cron!Marking
    <3> QED BY <3>1, <3>2
  <2>4. Cron!Marking'
    BY <2>3 DEF Cron!Marking, Cron!Over, Cron!NextRun
  <2> QED BY <1>5, <2>1, <2>4 DEF j, s
<1>8. CASE claims' = claims /\ <<j, s>> \in spoiled'
  <2>1. ASSUME NEW k \in CronJobs, NEW i \in Strikes[k]
        PROVE  /\ claims'[k][i] # {} => markers'[k][i] >= Cron!Over(k, i)
               /\ markers'[k][i] > 0 => claims'[k][i] # {} \/ <<k, i>> \in spoiled'
               /\ \A c, d \in claims'[k][i] :
                     c[2] < Cron!Over(k, i) /\ d[2] < Cron!Over(k, i) => c = d
    <3>1. CASE k = j /\ i = s
      BY <1>0, <1>2, <1>5, <1>8, <3>1 DEF Cron!Marking
    <3>2. CASE k # j \/ i # s
      <4>1. markers'[k][i] = markers[k][i]
        BY <1>5, <3>2
      <4> QED BY <1>0, <1>8, <4>1 DEF Cron!Marking
    <3> QED BY <3>1, <3>2
  <2>2. Cron!Marking'
    BY <2>1 DEF Cron!Marking, Cron!Over, Cron!NextRun
  <2> QED BY <1>0, <1>5, <1>8, <2>2, CronTables DEF j, s
<1> QED BY <1>7, <1>8 DEF j, s, e

\* The marker was not there: the occurrence is claimed.
LEMMA CronClaim ==
    ASSUME Cron!CronAssumption, Cron!IInv, NEW x \in runs, Cron!Claim(x)
    PROVE  Cron!IInv'
<1> DEFINE y == [x EXCEPT !.phase = "run", !.until = now + TimeLimit[x.job]]
<1>0. Cron!TypeOK /\ Cron!Started /\ Cron!Marking /\ Cron!Walked
  BY DEF Cron!IInv
<1>1. /\ y \in Cron!Runs /\ y.job = x.job /\ y.slot = x.slot /\ y.by = x.by /\ x.phase = "claim"
      /\ y.phase = "run" /\ runs' = (runs \ {x}) \cup {y}
  <2>1. now + TimeLimit[x.job] \in Nat
    BY <1>0, CronRun, CronBounds
  <2> QED BY <1>0, <2>1, CronRun DEF Cron!Claim, Cron!Runs, Cron!Phases
<1>2. UNCHANGED <<now, next, token, missed, spoiled, faults>>
  BY DEF Cron!Claim
<1> HIDE DEF y
<1>3. /\ Cron!Marking'
      /\ DOMAIN markers' = CronJobs /\ DOMAIN claims' = CronJobs
      /\ \A j \in CronJobs :
           /\ markers'[j] \in [Strikes[j] -> Nat]
           /\ claims'[j] \in [Strikes[j] -> SUBSET (CronReplicas \X (0..CronHorizon))]
      /\ \A j \in CronJobs : \A s \in Strikes[j] : claims[j][s] \subseteq claims'[j][s]
      /\ claims'[x.job][x.slot] # {} \/ <<x.job, x.slot>> \in spoiled'
  BY <1>2, CronMarks DEF Cron!Claim
<1>4. Cron!TypeOK' /\ Cron!Started'
  BY <1>0, <1>1, <1>2, <1>3, CronGoesOn, CronTyped, CronTables
<1>5. ASSUME NEW j, NEW s, Cron!Asked(j, s), ~Cron!Asked(j, s)' PROVE j = x.job /\ s = x.slot
  BY <1>1, <1>5 DEF Cron!Asked
<1>6. Cron!Walked'
  BY <1>0, <1>2, <1>3, <1>5 DEF Cron!Walked
<1> QED BY <1>3, <1>4, <1>6 DEF Cron!IInv

\* The marker was there: the occurrence is another's.
LEMMA CronTaken ==
    ASSUME Cron!CronAssumption, Cron!IInv, NEW x \in runs, Cron!Taken(x)
    PROVE  Cron!IInv'
<1>0. Cron!TypeOK /\ Cron!Started /\ Cron!Marking /\ Cron!Walked
  BY DEF Cron!IInv
<1>1. /\ runs' = runs \ {x} /\ x.phase = "claim" /\ Cron!EndRun(x)
      /\ UNCHANGED <<now, next, markers, claims, missed, spoiled, faults>>
  BY DEF Cron!Taken
<1>2. Cron!TypeOK' /\ Cron!Started'
  BY <1>0, <1>1, CronGone, CronTyped, CronTables
<1>3. Cron!Marking'
  BY <1>0, <1>1 DEF Cron!Marking, Cron!Over, Cron!NextRun
<1>4. claims[x.job][x.slot] # {} \/ <<x.job, x.slot>> \in spoiled
  <2>1. x.job \in CronJobs /\ x.slot \in Strikes[x.job] /\ now \in Nat
    BY <1>0, CronRun, CronBounds
  <2>2. markers[x.job][x.slot] \in Nat /\ markers[x.job][x.slot] > now
    BY <1>0, <2>1, CronTables DEF Cron!Taken, Cron!Marked, Cron!Key
  <2>3. markers[x.job][x.slot] > 0
    BY <2>1, <2>2
  <2> QED BY <1>0, <2>1, <2>3 DEF Cron!Marking
<1> QED BY <1>1, <1>2, <1>3, <1>4, CronEnds

\* Redis does not answer: the occurrence is skipped, whatever became of the marker.
LEMMA CronClaimFails ==
    ASSUME Cron!CronAssumption, Cron!IInv, NEW x \in runs, Cron!ClaimFails(x)
    PROVE  Cron!IInv'
<1>0. Cron!TypeOK /\ Cron!Started /\ Cron!Marking /\ Cron!Walked
  BY DEF Cron!IInv
<1>1. /\ runs' = runs \ {x} /\ x.phase = "claim" /\ Cron!EndRun(x) /\ Cron!Fault
      /\ spoiled' = spoiled \cup {<<x.job, x.slot>>}
      /\ UNCHANGED <<now, next, claims, missed>>
      /\ (~Cron!Marked(x) /\ Cron!Mark(x)) \/ markers' = markers
  BY DEF Cron!ClaimFails
<1>2. /\ Cron!Marking'
      /\ DOMAIN markers' = CronJobs /\ \A j \in CronJobs : markers'[j] \in [Strikes[j] -> Nat]
  <2>1. CASE ~Cron!Marked(x) /\ Cron!Mark(x)
    BY <1>1, <2>1, CronMarks
  <2>2. CASE markers' = markers
    BY <1>0, <1>1, <2>2, CronTables DEF Cron!Marking, Cron!Over, Cron!NextRun
  <2> QED BY <1>1, <2>1, <2>2
<1>3. spoiled' \subseteq CronJobs \X Cron!Instants /\ faults' \in 0..MaxCronFaults
  BY <1>0, <1>1, CronRun, CronTables, CronFaults
<1>4. Cron!TypeOK' /\ Cron!Started'
  BY <1>0, <1>1, <1>2, <1>3, CronGone, CronTyped, CronTables
<1> QED BY <1>1, <1>2, <1>4, CronEnds

\* The next run a clock names is after what it shows.
LEMMA CronClock ==
    ASSUME Cron!CronAssumption, Cron!TypeOK, NEW r \in CronReplicas, NEW j \in CronJobs
    PROVE  /\ Cron!NextRun(j, Cron!Clock(r)) \in Strikes[j]
           /\ Cron!NextRun(j, Cron!Clock(r)) > Cron!Clock(r) /\ Cron!Clock(r) \in Nat
           /\ \A s \in Strikes[j] : s > Cron!Clock(r) => Cron!NextRun(j, Cron!Clock(r)) <= s
<1>1. Cron!Clock(r) \in Nat /\ Cron!Clock(r) <= CronHorizon + CronAhead[r]
  BY CronBounds
<1> QED BY <1>1, CronNext

\* A turn: what is due is taken, and fired where the job is free.
LEMMA CronTurn ==
    ASSUME Cron!CronAssumption, Cron!IInv, NEW r \in CronReplicas, Cron!Turn(r)
    PROVE  Cron!IInv'
<1> DEFINE due == Cron!Due(r)
           fired == {j \in due : Cron!Free(r, j)}
           Run(j) == [job |-> j, slot |-> next[r][j], by |-> r, phase |-> "gate", until |-> 0]
<1>0. Cron!TypeOK /\ Cron!Started /\ Cron!Marking /\ Cron!Walked
  BY DEF Cron!IInv
<1>1. /\ next' = [next EXCEPT ![r] = [j \in CronJobs |->
                        IF j \in due THEN Cron!NextRun(j, Cron!Clock(r)) ELSE next[r][j]]]
      /\ token' = [token EXCEPT ![r] = [j \in CronJobs |->
                        IF j \in fired THEN next[r][j] ELSE token[r][j]]]
      /\ runs' = runs \cup {Run(j) : j \in fired}
      /\ missed' = [j \in CronJobs |-> [s \in Strikes[j] |->
                        IF j \in due /\ s \in Cron!Passed(r, j) /\ (j \in fired => s # next[r][j])
                          THEN missed[j][s] \cup {r} ELSE missed[j][s]]]
      /\ UNCHANGED <<now, markers, claims, spoiled, faults>>
  BY <1>0, CronTables DEF Cron!Turn
<1>2. /\ due \subseteq CronJobs /\ fired \subseteq due
      /\ \A j \in due : next[r][j] <= Cron!Clock(r)
      /\ \A j \in fired : token[r][j] = Cron!None
  <2>1. \A j \in CronJobs : next[r][j] \in Nat
    BY <1>0, CronTables, CronBounds
  <2> QED BY <1>0, <2>1, CronClock DEF Cron!Due, Cron!Free
<1> HIDE DEF due, fired
<1>3. \A j \in CronJobs : next[r][j] \in Strikes[j] /\ next[r][j] \in Nat
  BY <1>0, CronTables, CronBounds
<1>4. /\ next' \in [CronReplicas -> [CronJobs -> Cron!Instants]]
      /\ \A q \in CronReplicas, j \in CronJobs : next'[q][j] \in Strikes[j]
      /\ \A q \in CronReplicas, j \in CronJobs :
            next'[q][j] = IF q = r /\ j \in due THEN Cron!NextRun(j, Cron!Clock(r)) ELSE next[q][j]
  <2>1. \A j \in CronJobs : Cron!NextRun(j, Cron!Clock(r)) \in Strikes[j] \cap Cron!Instants
    BY <1>0, CronClock, CronBounds
  <2>2. \A q \in CronReplicas, j \in CronJobs :
            next'[q][j] = IF q = r /\ j \in due THEN Cron!NextRun(j, Cron!Clock(r)) ELSE next[q][j]
    BY <1>0, <1>1, CronTables
  <2>3. next' \in [CronReplicas -> [CronJobs -> Cron!Instants]]
    BY <1>0, <1>1, <2>1, CronTables
  <2> QED BY <1>0, <2>1, <2>2, <2>3, CronTables
<1>5. /\ token' \in [CronReplicas -> [CronJobs -> Cron!Instants \cup {Cron!None}]]
      /\ \A q \in CronReplicas, j \in CronJobs :
            token'[q][j] = IF q = r /\ j \in fired THEN next[r][j] ELSE token[q][j]
  <2>1. \A j \in CronJobs : next[r][j] \in Cron!Instants
    BY <1>0, CronTables
  <2> QED BY <1>0, <1>1, <2>1, CronTables
<1>6. \A j \in fired : Run(j) \in Cron!Runs /\ Run(j) \in runs'
  BY <1>0, <1>1, <1>2, CronTables DEF Cron!Runs, Cron!Phases
<1>7. \A j \in fired : /\ Run(j).job = j /\ Run(j).by = r /\ Run(j).slot = next[r][j]
                       /\ Run(j).phase = "gate"
  OBVIOUS
<1> HIDE DEF Run
<1>8. \A x \in runs' : x \in runs \/ \E j \in fired : x = Run(j)
  BY <1>1
<1>9. \A j \in CronJobs : next[r][j] \in Nat /\ next'[r][j] >= next[r][j]
                          /\ (j \in due => next'[r][j] > next[r][j])
  BY <1>0, <1>2, <1>3, <1>4, CronClock, CronBounds
<1>10. \A x \in runs : x.job \in fired /\ x.by = r => x.phase = "letgo" /\ x.slot < next[r][x.job]
  <2>1. ASSUME NEW x \in runs, x.job \in fired, x.by = r PROVE x.phase = "letgo"
    <3>1. token[x.by][x.job] = Cron!None /\ x.slot # Cron!None
      BY <1>0, <1>2, <2>1, CronRun, CronBounds
    <3> QED BY <1>0, <3>1, CronRun
  <2> QED BY <1>0, <2>1, CronRun
<1>11. Cron!Started'
  <2>1. ASSUME NEW x \in runs'
        PROVE  /\ x.slot \in Strikes[x.job] /\ x.slot < next'[x.by][x.job] /\ x.slot <= Cron!Clock(x.by)'
    <3>1. CASE x \in runs
      <4>1. /\ x.by \in CronReplicas /\ x.job \in CronJobs /\ x.slot \in Strikes[x.job]
            /\ x.slot < next[x.by][x.job] /\ x.slot <= Cron!Clock(x.by) /\ x.slot \in Nat
        BY <1>0, <3>1, CronRun, CronBounds
      <4>2. next'[x.by][x.job] \in Nat /\ next[x.by][x.job] \in Nat /\ next'[x.by][x.job] >= next[x.by][x.job]
        <5>1. CASE x.by = r
        <6>1. /\ next[r][x.job] \in Nat /\ next'[r][x.job] >= next[r][x.job]
              /\ next'[r][x.job] \in Cron!Instants
          BY <1>4, <1>9, <4>1
        <6>2. next'[r][x.job] \in Nat
          BY <1>0, <6>1, CronBounds
        <6> QED BY <5>1, <6>1, <6>2
      <5>2. CASE x.by # r
        <6>1. next'[x.by][x.job] = next[x.by][x.job]
          BY <1>4, <4>1, <5>2
        <6>2. next[x.by][x.job] \in Nat
          BY <1>0, <4>1, CronTables, CronBounds
        <6> QED BY <6>1, <6>2
      <5> QED BY <5>1, <5>2
      <4>3. Cron!Clock(x.by)' = Cron!Clock(x.by)
        BY <1>1 DEF Cron!Clock
      <4> QED BY <4>1, <4>2, <4>3
    <3>2. ASSUME NEW j \in fired, x = Run(j) PROVE x.slot \in Strikes[x.job] /\ x.slot < next'[x.by][x.job]
                                                   /\ x.slot <= Cron!Clock(x.by)'
      <4>1. Cron!Clock(x.by)' = Cron!Clock(r)
        BY <1>1, <1>7, <3>2 DEF Cron!Clock
      <4> QED BY <1>2, <1>3, <1>7, <1>9, <3>2, <4>1
    <3> QED BY <1>8, <3>1, <3>2
  <2>2. ASSUME NEW x \in runs', NEW y \in runs', y.job = x.job, y.by = x.by, y.slot = x.slot
        PROVE  y = x
    <3>1. CASE x \in runs /\ y \in runs
      BY <1>0, <2>2, <3>1, CronAlone
    <3>2. ASSUME NEW u \in runs, NEW j \in fired, u.job = Run(j).job, u.by = Run(j).by,
                 u.slot = Run(j).slot
          PROVE  FALSE
      <4>1. u.job = j /\ u.by = r /\ u.slot = next[r][j] /\ u.slot < next[r][j] /\ next[r][j] \in Nat
        BY <1>2, <1>3, <1>7, <1>10, <3>2
      <4> QED BY <4>1
    <3>3. ASSUME NEW i \in fired, NEW j \in fired, Run(i).job = Run(j).job PROVE Run(i) = Run(j)
      BY <1>7, <3>3
    <3> QED BY <1>8, <2>2, <3>1, <3>2, <3>3
  <2> QED BY <2>1, <2>2 DEF Cron!Started
<1>12. \A x \in runs' : x.phase # "letgo" <=> token'[x.by][x.job] = x.slot
  <2>1. ASSUME NEW x \in runs PROVE x.phase # "letgo" <=> token'[x.by][x.job] = x.slot
    <3>1. /\ x.by \in CronReplicas /\ x.job \in CronJobs /\ x.slot \in Nat
          /\ x.phase # "letgo" <=> token[x.by][x.job] = x.slot
      BY <1>0, CronRun, CronBounds
    <3>2. CASE x.by = r /\ x.job \in fired
      <4>1. /\ x.phase = "letgo" /\ x.slot < next[r][x.job] /\ token'[x.by][x.job] = next[r][x.job]
            /\ next[r][x.job] \in Nat
        BY <1>3, <1>5, <1>10, <3>1, <3>2
      <4> QED BY <3>1, <4>1
    <3>3. CASE ~(x.by = r /\ x.job \in fired)
      BY <1>5, <3>1, <3>3
    <3> QED BY <3>2, <3>3
  <2>2. ASSUME NEW j \in fired
        PROVE  Run(j).phase # "letgo" <=> token'[Run(j).by][Run(j).job] = Run(j).slot
    BY <1>2, <1>5, <1>7
  <2> QED BY <1>8, <2>1, <2>2
<1>13. ASSUME NEW q \in CronReplicas, NEW j \in CronJobs, token'[q][j] # Cron!None
       PROVE  \E z \in runs' : z.by = q /\ z.job = j /\ z.slot = token'[q][j]
  <2>1. CASE q = r /\ j \in fired
    BY <1>5, <1>6, <1>7, <2>1
  <2>2. CASE ~(q = r /\ j \in fired)
    <3>1. token'[q][j] = token[q][j]
      BY <1>5, <2>2
    <3>2. PICK z \in runs : z.by = q /\ z.job = j /\ z.slot = token[q][j]
      BY <1>0, <1>13, <3>1 DEF Cron!TypeOK
    <3> QED BY <1>1, <3>1, <3>2
  <2> QED BY <2>1, <2>2
<1>14. /\ DOMAIN missed' = CronJobs
       /\ \A j \in CronJobs : missed'[j] \in [Strikes[j] -> SUBSET CronReplicas]
       /\ \A j \in CronJobs : \A s \in Strikes[j] :
            /\ missed[j][s] \subseteq missed'[j][s]
            /\ j \in due /\ s \in Cron!Passed(r, j) /\ (j \in fired => s # next[r][j]) => r \in missed'[j][s]
  <2>1. ASSUME NEW j \in CronJobs
        PROVE  missed'[j] = [s \in Strikes[j] |->
                        IF j \in due /\ s \in Cron!Passed(r, j) /\ (j \in fired => s # next[r][j])
                          THEN missed[j][s] \cup {r} ELSE missed[j][s]]
    BY <1>1
  <2>2. ASSUME NEW j \in CronJobs PROVE missed'[j] \in [Strikes[j] -> SUBSET CronReplicas]
    <3>1. missed[j] \in [Strikes[j] -> SUBSET CronReplicas]
      BY <1>0, CronTables
    <3>2. ASSUME NEW s \in Strikes[j] PROVE missed'[j][s] \in SUBSET CronReplicas
      <4>1. missed'[j][s] = missed[j][s] \cup {r} \/ missed'[j][s] = missed[j][s]
        BY <2>1
      <4>2. missed[j][s] \in SUBSET CronReplicas
        BY <3>1
      <4> QED BY <4>1, <4>2
    <3>3. DOMAIN missed'[j] = Strikes[j]
      BY <2>1
    <3>4. missed'[j] = [s \in Strikes[j] |-> missed'[j][s]]
      BY <2>1, <3>3
    <3> QED BY <3>2, <3>4
  <2> QED BY <1>1, <2>1, <2>2
<1>15. Cron!TypeOK'
  <2>1. now' \in 0..CronHorizon /\ runs' \subseteq Cron!Runs
    BY <1>0, <1>1, <1>6, <1>8, CronTables
  <2>2. /\ DOMAIN markers' = CronJobs /\ DOMAIN claims' = CronJobs
        /\ \A j \in CronJobs :
             /\ markers'[j] \in [Strikes[j] -> Nat]
             /\ claims'[j] \in [Strikes[j] -> SUBSET (CronReplicas \X (0..CronHorizon))]
        /\ spoiled' \subseteq CronJobs \X Cron!Instants /\ faults' \in 0..MaxCronFaults
    BY <1>0, <1>1, CronTables
  <2> QED BY <1>4, <1>5, <1>12, <1>13, <1>14, <2>1, <2>2 DEF Cron!TypeOK
<1>16. Cron!Marking'
  BY <1>0, <1>1 DEF Cron!Marking, Cron!Over, Cron!NextRun
<1>17. ASSUME NEW j, NEW s, Cron!Asked(j, s) PROVE Cron!Asked(j, s)'
  BY <1>1, <1>17 DEF Cron!Asked
<1>18. ASSUME NEW q \in CronReplicas, NEW j \in CronJobs, NEW s \in Strikes[j],
              CronAhead[q] < s, s < next'[q][j]
       PROVE  \/ claims'[j][s] # {} \/ <<j, s>> \in spoiled' \/ q \in missed'[j][s]
              \/ Cron!Asked(j, s)'
  <2>1. CASE s < next[q][j]
    <3>1. \/ claims[j][s] # {} \/ <<j, s>> \in spoiled \/ q \in missed[j][s] \/ Cron!Asked(j, s)
      BY <1>0, <1>18, <2>1 DEF Cron!Walked
    <3> QED BY <1>1, <1>14, <1>17, <3>1
  <2>2. CASE ~(s < next[q][j])
    <3>1. s \in Nat /\ next[q][j] \in Nat /\ q = r /\ j \in due /\ s < Cron!NextRun(j, Cron!Clock(r))
      BY <1>0, <1>4, <1>18, <2>2, CronTables, CronBounds
    <3>2. ~(s > Cron!Clock(r)) /\ Cron!Clock(r) \in Nat /\ Cron!NextRun(j, Cron!Clock(r)) \in Nat
      BY <1>0, <3>1, CronClock, CronBounds
    <3>3. s \in Cron!Passed(r, j)
      BY <2>2, <3>1, <3>2 DEF Cron!Passed
    <3>4. CASE j \in fired /\ s = next[r][j]
      BY <1>6, <1>7, <3>4 DEF Cron!Asked
    <3> QED BY <1>14, <3>1, <3>3, <3>4
  <2> QED BY <2>1, <2>2
<1> QED BY <1>11, <1>15, <1>16, <1>18 DEF Cron!Walked, Cron!IInv

\* A replica that dies with its runs, and comes back.
LEMMA CronRestart ==
    ASSUME Cron!CronAssumption, Cron!IInv, NEW r \in CronReplicas, Cron!Restart(r)
    PROVE  Cron!IInv'
<1> DEFINE mine == {x \in runs : x.by = r}
<1>0. Cron!TypeOK /\ Cron!Started /\ Cron!Marking /\ Cron!Walked
  BY DEF Cron!IInv
<1>1. /\ next' = [next EXCEPT ![r] = [j \in CronJobs |-> Cron!NextRun(j, Cron!Clock(r))]]
      /\ token' = [token EXCEPT ![r] = [j \in CronJobs |-> Cron!None]]
      /\ runs' = runs \ mine /\ spoiled' = spoiled \cup {<<x.job, x.slot>> : x \in mine}
      /\ missed' = [j \in CronJobs |-> [s \in Strikes[j] |->
                    IF s \in Cron!Passed(r, j) THEN missed[j][s] \cup {r} ELSE missed[j][s]]]
      /\ Cron!Fault /\ UNCHANGED <<now, markers, claims>>
  BY DEF Cron!Restart
<1>2. /\ next' \in [CronReplicas -> [CronJobs -> Cron!Instants]]
      /\ \A q \in CronReplicas, j \in CronJobs : next'[q][j] \in Strikes[j]
      /\ \A q \in CronReplicas, j \in CronJobs :
            next'[q][j] = IF q = r THEN Cron!NextRun(j, Cron!Clock(r)) ELSE next[q][j]
  <2>1. \A j \in CronJobs : Cron!NextRun(j, Cron!Clock(r)) \in Strikes[j] \cap Cron!Instants
    BY <1>0, CronClock, CronBounds
  <2>2. \A q \in CronReplicas, j \in CronJobs :
            next'[q][j] = IF q = r THEN Cron!NextRun(j, Cron!Clock(r)) ELSE next[q][j]
    BY <1>0, <1>1, CronTables
  <2>3. next' \in [CronReplicas -> [CronJobs -> Cron!Instants]]
    BY <1>0, <1>1, <2>1, CronTables
  <2> QED BY <1>0, <2>1, <2>2, <2>3, CronTables
<1>3. /\ token' \in [CronReplicas -> [CronJobs -> Cron!Instants \cup {Cron!None}]]
      /\ \A q \in CronReplicas, j \in CronJobs :
            token'[q][j] = IF q = r THEN Cron!None ELSE token[q][j]
  BY <1>0, <1>1, CronTables
<1>4. \A x \in runs' : x \in runs /\ x.by # r
  BY <1>1
<1>5. Cron!Started'
  <2>1. ASSUME NEW x \in runs'
        PROVE  /\ x.slot \in Strikes[x.job] /\ x.slot < next'[x.by][x.job] /\ x.slot <= Cron!Clock(x.by)'
    <3>1. /\ x.by \in CronReplicas /\ x.job \in CronJobs /\ x.slot \in Strikes[x.job]
          /\ x.slot < next[x.by][x.job] /\ x.slot <= Cron!Clock(x.by)
      BY <1>0, <1>4, CronRun
    <3> QED BY <1>1, <1>2, <1>4, <3>1 DEF Cron!Clock
  <2> QED BY <1>0, <1>4, <2>1, CronAlone DEF Cron!Started
<1>6. \A x \in runs' : x.phase # "letgo" <=> token'[x.by][x.job] = x.slot
  BY <1>0, <1>3, <1>4, CronRun
<1>7. ASSUME NEW q \in CronReplicas, NEW j \in CronJobs, token'[q][j] # Cron!None
      PROVE  \E z \in runs' : z.by = q /\ z.job = j /\ z.slot = token'[q][j]
  <2>1. q # r /\ token'[q][j] = token[q][j]
    BY <1>3, <1>7
  <2>2. PICK z \in runs : z.by = q /\ z.job = j /\ z.slot = token[q][j]
    BY <1>0, <1>7, <2>1 DEF Cron!TypeOK
  <2> QED BY <1>1, <2>1, <2>2
<1>8. /\ DOMAIN missed' = CronJobs
      /\ \A j \in CronJobs : missed'[j] \in [Strikes[j] -> SUBSET CronReplicas]
      /\ \A j \in CronJobs : \A s \in Strikes[j] :
            missed[j][s] \subseteq missed'[j][s] /\ (s \in Cron!Passed(r, j) => r \in missed'[j][s])
  <2>1. ASSUME NEW j \in CronJobs
        PROVE  missed'[j] = [s \in Strikes[j] |->
                        IF s \in Cron!Passed(r, j) THEN missed[j][s] \cup {r} ELSE missed[j][s]]
    BY <1>1
  <2>2. ASSUME NEW j \in CronJobs PROVE missed'[j] \in [Strikes[j] -> SUBSET CronReplicas]
    <3>1. missed[j] \in [Strikes[j] -> SUBSET CronReplicas]
      BY <1>0, CronTables
    <3>2. ASSUME NEW s \in Strikes[j] PROVE missed'[j][s] \in SUBSET CronReplicas
      <4>1. missed'[j][s] = missed[j][s] \cup {r} \/ missed'[j][s] = missed[j][s]
        BY <2>1
      <4>2. missed[j][s] \in SUBSET CronReplicas
        BY <3>1
      <4> QED BY <4>1, <4>2
    <3>3. DOMAIN missed'[j] = Strikes[j]
      BY <2>1
    <3>4. missed'[j] = [s \in Strikes[j] |-> missed'[j][s]]
      BY <2>1, <3>3
    <3> QED BY <3>2, <3>4
  <2> QED BY <1>1, <2>1, <2>2
<1>9. Cron!TypeOK'
  <2>1. now' \in 0..CronHorizon /\ runs' \subseteq Cron!Runs
    BY <1>0, <1>1, <1>4, CronTables
  <2>2. /\ DOMAIN markers' = CronJobs /\ DOMAIN claims' = CronJobs
        /\ \A j \in CronJobs :
             /\ markers'[j] \in [Strikes[j] -> Nat]
             /\ claims'[j] \in [Strikes[j] -> SUBSET (CronReplicas \X (0..CronHorizon))]
    BY <1>0, <1>1, CronTables
  <2>3. spoiled' \subseteq CronJobs \X Cron!Instants /\ faults' \in 0..MaxCronFaults
    <3>1. \A x \in mine : <<x.job, x.slot>> \in CronJobs \X Cron!Instants
      BY <1>0, CronRun
    <3> HIDE DEF mine
    <3> QED BY <1>0, <1>1, <3>1, CronTables, CronFaults
  <2> QED BY <1>2, <1>3, <1>6, <1>7, <1>8, <2>1, <2>2, <2>3 DEF Cron!TypeOK
<1>10. Cron!Marking'
  BY <1>0, <1>1 DEF Cron!Marking, Cron!Over, Cron!NextRun
<1>11. ASSUME NEW j, NEW s, Cron!Asked(j, s), <<j, s>> \notin spoiled' PROVE Cron!Asked(j, s)'
  BY <1>1, <1>11 DEF Cron!Asked
<1>12. ASSUME NEW q \in CronReplicas, NEW j \in CronJobs, NEW s \in Strikes[j],
              CronAhead[q] < s, s < next'[q][j]
       PROVE  \/ claims'[j][s] # {} \/ <<j, s>> \in spoiled' \/ q \in missed'[j][s]
              \/ Cron!Asked(j, s)'
  <2>1. CASE s < next[q][j]
    <3>1. \/ claims[j][s] # {} \/ <<j, s>> \in spoiled \/ q \in missed[j][s] \/ Cron!Asked(j, s)
      BY <1>0, <1>12, <2>1 DEF Cron!Walked
    <3> QED BY <1>1, <1>8, <1>11, <3>1
  <2>2. CASE ~(s < next[q][j])
    <3>1. s \in Nat /\ next[q][j] \in Nat /\ q = r /\ s < Cron!NextRun(j, Cron!Clock(r))
      BY <1>0, <1>2, <1>12, <2>2, CronTables, CronBounds
    <3>2. ~(s > Cron!Clock(r)) /\ Cron!Clock(r) \in Nat /\ Cron!NextRun(j, Cron!Clock(r)) \in Nat
      BY <1>0, <3>1, CronClock, CronBounds
    <3>3. s \in Cron!Passed(r, j)
      BY <2>2, <3>1, <3>2 DEF Cron!Passed
    <3> QED BY <1>8, <3>1, <3>3
  <2> QED BY <2>1, <2>2
<1> QED BY <1>5, <1>9, <1>10, <1>12 DEF Cron!Walked, Cron!IInv

\* At first each replica waits for what comes after its clock.
LEMMA CronStarts ==
    ASSUME Cron!CronAssumption, Cron!Init
    PROVE  Cron!IInv
<1>1. /\ now = 0 /\ runs = {} /\ spoiled = {} /\ faults = 0
      /\ next = [r \in CronReplicas |-> [j \in CronJobs |-> Cron!NextRun(j, CronAhead[r])]]
      /\ token = [r \in CronReplicas |-> [j \in CronJobs |-> Cron!None]]
      /\ markers = [j \in CronJobs |-> [s \in Strikes[j] |-> 0]]
      /\ claims = [j \in CronJobs |-> [s \in Strikes[j] |-> {}]]
      /\ missed = [j \in CronJobs |-> [s \in Strikes[j] |-> {}]]
  BY DEF Cron!Init
<1>2. ASSUME NEW j \in CronJobs, NEW r \in CronReplicas
      PROVE  /\ Cron!NextRun(j, CronAhead[r]) \in Strikes[j]
             /\ Cron!NextRun(j, CronAhead[r]) \in Cron!Instants
             /\ \A s \in Strikes[j] : s > CronAhead[r] => ~(s < Cron!NextRun(j, CronAhead[r]))
  <2> DEFINE S == {s \in Strikes[j] : s > CronAhead[r]}
  <2>1. Strikes[j] \subseteq Nat /\ CronAhead[r] \in Nat /\ CronHorizon \in Nat
    BY DEF Cron!CronAssumption
  <2>2. PICK s \in Strikes[j] : s > CronHorizon + CronAhead[r]
    BY DEF Cron!CronAssumption
  <2>3. s \in S
    BY <2>1, <2>2
  <2>4. PICK m \in S : \A n \in S : m <= n
    BY <2>1, <2>3, LeastNumber
  <2>5. Cron!Min(S) \in S /\ \A n \in S : Cron!Min(S) <= n
    BY <2>4 DEF Cron!Min
  <2>6. Cron!NextRun(j, CronAhead[r]) = Cron!Min(S)
    BY DEF Cron!NextRun
  <2>7. Cron!Min(S) \in Strikes[j] /\ Cron!Min(S) \in Nat
    BY <2>1, <2>5
  <2>8. \A n \in Strikes[j] : n > CronAhead[r] => ~(n < Cron!Min(S))
    BY <2>1, <2>5, <2>7
  <2> QED BY <2>6, <2>7, <2>8 DEF Cron!Instants
<1>3. Cron!TypeOK
  <2>1. now \in 0..CronHorizon /\ faults \in 0..MaxCronFaults
    BY <1>1 DEF Cron!CronAssumption
  <2>2. /\ next \in [CronReplicas -> [CronJobs -> Cron!Instants]]
        /\ token \in [CronReplicas -> [CronJobs -> Cron!Instants \cup {Cron!None}]]
        /\ \A r \in CronReplicas, j \in CronJobs : next[r][j] \in Strikes[j] /\ token[r][j] = Cron!None
    BY <1>1, <1>2
  <2>3. \A j \in CronJobs :
         /\ markers[j] \in [Strikes[j] -> Nat]
         /\ claims[j] \in [Strikes[j] -> SUBSET (CronReplicas \X (0..CronHorizon))]
         /\ missed[j] \in [Strikes[j] -> SUBSET CronReplicas]
    BY <1>1
  <2> QED BY <1>1, <2>1, <2>2, <2>3 DEF Cron!TypeOK
<1>4. Cron!Started
  BY <1>1 DEF Cron!Started
<1>5. Cron!Marking
  BY <1>1 DEF Cron!Marking
<1>6. Cron!Walked
  <2> SUFFICES ASSUME NEW r \in CronReplicas, NEW j \in CronJobs, NEW s \in Strikes[j],
                      CronAhead[r] < s, s < next[r][j]
               PROVE  FALSE
    BY DEF Cron!Walked
  <2>1. s \in Nat /\ CronAhead[r] \in Nat
    BY DEF Cron!CronAssumption
  <2> QED BY <1>1, <1>2, <2>1
<1> QED BY <1>3, <1>4, <1>5, <1>6 DEF Cron!IInv

\* Each step of the fleet keeps the invariant.
LEMMA CronSteps ==
    ASSUME Cron!CronAssumption, Cron!IInv, [Cron!Next]_(Cron!cronVars)
    PROVE  Cron!IInv'
<1>1. CASE UNCHANGED Cron!cronVars
  <2>1. /\ now' = now /\ next' = next /\ token' = token /\ runs' = runs /\ markers' = markers
        /\ claims' = claims /\ missed' = missed /\ spoiled' = spoiled /\ faults' = faults
    BY <1>1 DEF Cron!cronVars
  <2>2. Cron!TypeOK'
    BY <2>1 DEF Cron!IInv, Cron!TypeOK
  <2>3. Cron!Started'
    BY <2>1 DEF Cron!IInv, Cron!Started, Cron!Clock
  <2>4. Cron!Marking'
    BY <2>1 DEF Cron!IInv, Cron!Marking
  <2>5. Cron!Walked'
    BY <2>1 DEF Cron!IInv, Cron!Walked, Cron!Asked
  <2> QED BY <2>2, <2>3, <2>4, <2>5 DEF Cron!IInv
<1>2. CASE Cron!Next
  BY <1>2, CronTick, CronTurn, CronRestart, CronEnter, CronClaim, CronTaken, CronClaimFails, CronFinish,
     CronDeadline DEF Cron!Next, Cron!Step
<1> QED BY <1>1, <1>2

\* From the invariant: one claim while an occurrence is current, overlaps behind a run that was
\* let go, and no occurrence that nobody ran without a reason.
LEMMA CronKept ==
    ASSUME Cron!CronAssumption, Cron!IInv
    PROVE  /\ Cron!TypeOK /\ Cron!OneExecutionWhileCurrent /\ Cron!OverlapOnlyPastTheTimeout
           /\ Cron!RunsUnlessAllMissedIt
<1>0. Cron!TypeOK /\ Cron!Started /\ Cron!Marking /\ Cron!Walked
  BY DEF Cron!IInv
<1>1. ASSUME NEW j \in CronJobs, NEW s \in Strikes[j]
      PROVE  Cron!Cardinality({c \in claims[j][s] : c[2] < Cron!Over(j, s)}) <= 1
  <2> DEFINE C == {c \in claims[j][s] : c[2] < Cron!Over(j, s)}
  <2>1. \A c, d \in C : c = d
    BY <1>0 DEF Cron!Marking
  <2>2. C = {} \/ \E c : C = {c}
    <3>1. CASE C # {}
      <4>1. PICK c : c \in C
        BY <3>1
      <4>2. C = {c}
        BY <2>1, <4>1
      <4> QED BY <4>2
    <3> QED BY <3>1
  <2> HIDE DEF C
  <2>3. Cardinality(C) \in {0, 1}
    BY <2>2, FS_EmptySet, FS_Singleton
  <2>4. Cron!Cardinality(C) = Cardinality(C)
    BY Zenon DEF Cron!Cardinality, Cardinality
  <2>5. Cron!Cardinality(C) <= 1
    BY <2>3, <2>4
  <2> QED BY <2>5 DEF C
<1>2. Cron!OneExecutionWhileCurrent
  BY <1>1 DEF Cron!OneExecutionWhileCurrent
<1>3. Cron!OverlapOnlyPastTheTimeout
  BY <1>0, CronAlone DEF Cron!OverlapOnlyPastTheTimeout
<1>4. Cron!RunsUnlessAllMissedIt
  <2> SUFFICES ASSUME NEW j \in CronJobs, NEW s \in Strikes[j],
                      \A r \in CronReplicas : next[r][j] > s,
                      \A x \in runs : x.job = j /\ x.slot = s => x.phase \notin {"gate", "claim"},
                      claims[j][s] = {}, <<j, s>> \notin spoiled, NEW r \in CronReplicas
               PROVE  r \in missed[j][s] \/ s <= CronAhead[r]
    BY DEF Cron!RunsUnlessAllMissedIt
  <2>1. s \in Nat /\ CronAhead[r] \in Nat /\ next[r][j] \in Nat
    BY <1>0, CronBounds, CronTables
  <2>2. ~Cron!Asked(j, s)
    BY DEF Cron!Asked
  <2> QED BY <1>0, <2>1, <2>2 DEF Cron!Walked
<1> QED BY <1>0, <1>2, <1>3, <1>4

\* The variables of CronSchedules.
clocked == v3
armed == v4
taken == v2
USE DEF clocked, armed, taken

-----------------------------------------------------------------------------
(* The instants a schedule names (foundation: cron/interval_schedule.ts,       *)
(* daily_schedule.ts, cron_expression.ts, next_run.ts).                       *)

\* A set of numbers that has a member has a least one.
LEMMA SchedulesLeast ==
    ASSUME NEW S, S \subseteq Nat, S # {}
    PROVE  Schedules!Min(S) \in S /\ \A n \in S : Schedules!Min(S) <= n
<1>1. PICK m \in S : \A n \in S : m <= n
  BY LeastNumber
<1> QED BY <1>1 DEF Schedules!Min

\* The grid of an interval: the multiple after an instant is the first one.
LEMMA SchedulesGrid ==
    ASSUME NEW e \in Nat \ {0}, NEW a \in Nat
    PROVE  /\ Schedules!NextOnTheGrid(a, e) \in Nat /\ Schedules!NextOnTheGrid(a, e) > a
           /\ Schedules!NextOnTheGrid(a, e) % e = 0
           /\ \A i \in Nat : i % e = 0 /\ i > a => Schedules!NextOnTheGrid(a, e) <= i
<1> DEFINE k == a \div e + 1
<1>1. k \in Nat /\ Schedules!NextOnTheGrid(a, e) = k * e /\ k * e > a
  BY DEF Schedules!NextOnTheGrid
<1>2. a \div e = k - 1 /\ e * (a \div e) <= a
  OBVIOUS
<1> HIDE DEF k
<1>3. (k * e) % e = 0 /\ k * e \in Nat
  BY <1>1
<1>4. ASSUME NEW i \in Nat, i % e = 0, i > a PROVE k * e <= i
  <2>1. i = e * (i \div e) /\ i \div e \in Nat
    BY <1>4
  <2>2. e * (k - 1) < e * (i \div e)
    BY <1>1, <1>2, <1>4, <2>1
  <2>3. k - 1 < i \div e
    BY <1>1, <2>1, <2>2
  <2>4. k * e <= (i \div e) * e
    BY <1>1, <2>1, <2>3
  <2> QED BY <2>1, <2>4
<1> QED BY <1>1, <1>3, <1>4

\* The run after one that is due: the first multiple after now.
LEMMA SchedulesGridAfter ==
    ASSUME NEW e \in Nat \ {0}, NEW s \in Nat, s % e = 0, NEW c \in Nat, s <= c
    PROVE  LET n == s + e * Schedules!Max({1, ((c - s) \div e) + 1})
           IN  /\ n \in Nat /\ n > c /\ n % e = 0
               /\ \A i \in Nat : i % e = 0 /\ i > c => n <= i
<1> DEFINE k == ((c - s) \div e) + 1
           S == {1, k}
           n == s + e * k
           q == s \div e
<1>1. c - s \in Nat /\ k \in Nat /\ k >= 1
  OBVIOUS
<1>2. Schedules!Max(S) = k
  <2>1. \E x \in S : \A y \in S : x >= y
    BY <1>1
  <2>2. Schedules!Max(S) \in S /\ \A y \in S : Schedules!Max(S) >= y
    BY <2>1 DEF Schedules!Max
  <2> QED BY <1>1, <2>2
<1>3. q \in Nat /\ s = e * q
  OBVIOUS
<1>4. n = (q + k) * e /\ q + k \in Nat
  BY <1>1, <1>3
<1>5. e * (k - 1) <= c - s /\ c - s < e * k
  BY <1>1
<1> HIDE DEF k, q, n
<1>6. ((q + k) * e) % e = 0 /\ (q + k) * e \in Nat
  <2>1. \A z \in Nat : (z * e) % e = 0 /\ z * e \in Nat
    OBVIOUS
  <2> QED BY <1>4, <2>1
<1>7. n > c /\ n - e <= c
  BY <1>1, <1>3, <1>5 DEF n
<1>8. ASSUME NEW i \in Nat, i % e = 0, i > c PROVE n <= i
  <2>1. i = e * (i \div e) /\ i \div e \in Nat
    BY <1>8
  <2>2. e * (q + k - 1) < e * (i \div e)
    BY <1>1, <1>3, <1>4, <1>7, <1>8, <2>1
  <2>3. q + k - 1 < i \div e
    BY <1>1, <1>3, <2>1, <2>2
  <2>4. (q + k) * e <= (i \div e) * e
    BY <1>1, <1>3, <2>1, <2>3
  <2> QED BY <1>4, <2>1, <2>4
<1> QED BY <1>2, <1>4, <1>6, <1>7, <1>8 DEF k, n

\* The numbers of a calendar.
LEMMA SchedulesBounds ==
    ASSUME Schedules!ScheduleAssumption, NEW r \in ClockHosts, now \in 0..ScheduleHorizon
    PROVE  /\ UnitsOfMinute \in Nat \ {0} /\ MinutesOfDay \in Nat \ {0} /\ ScheduleHorizon \in Nat
           /\ now \in Nat /\ HostAhead[r] \in Nat /\ Schedules!Clock(r) = now + HostAhead[r]
           /\ Schedules!Clock(r) \in Nat /\ Schedules!Clock(r) < (2 * MinutesOfDay - 1) * UnitsOfMinute
           /\ Schedules!Never = -1 /\ Schedules!Instants \subseteq Nat
<1>1. HostAhead[r] \in Nat /\ ScheduleHorizon \in Nat /\ now \in Nat /\ now <= ScheduleHorizon
  BY DEF Schedules!ScheduleAssumption
<1>2. ScheduleHorizon + HostAhead[r] < (2 * MinutesOfDay - 1) * UnitsOfMinute
  BY DEF Schedules!ScheduleAssumption
<1>3. UnitsOfMinute \in Nat \ {0} /\ MinutesOfDay \in Nat \ {0}
  BY DEF Schedules!ScheduleAssumption
<1>4. Schedules!Instants \subseteq Nat
  BY <1>3 DEF Schedules!Instants
<1>5. (2 * MinutesOfDay - 1) * UnitsOfMinute \in Int
  BY <1>3
<1>6. Schedules!Clock(r) = now + HostAhead[r] /\ Schedules!Clock(r) \in Nat
  BY <1>1 DEF Schedules!Clock
<1>7. Schedules!Clock(r) < (2 * MinutesOfDay - 1) * UnitsOfMinute
  <2> DEFINE B == (2 * MinutesOfDay - 1) * UnitsOfMinute
  <2>1. B \in Int /\ ScheduleHorizon + HostAhead[r] < B
    BY <1>2, <1>5
  <2> HIDE DEF B
  <2>2. Schedules!Clock(r) < B
    BY <1>1, <1>6, <2>1
  <2> QED BY <2>2 DEF B
<1> QED BY <1>1, <1>3, <1>4, <1>6, <1>7 DEF Schedules!Never

\* Every time of a day comes, and that of the last day is past every clock.
LEMMA SchedulesOccurrence ==
    ASSUME Schedules!ScheduleAssumption, NEW zone, NEW d \in 0..2, NEW t \in 0..(MinutesOfDay - 1)
    PROVE  /\ Schedules!OccurrenceOf(zone, d, t) \in Schedules!Instants
           /\ Schedules!OccurrenceOf(zone, d, t) \in Nat
           /\ d = 2 => Schedules!OccurrenceOf(zone, d, t) >= (2 * MinutesOfDay - 1) * UnitsOfMinute
<1> DEFINE m == UnitsOfMinute
           D == MinutesOfDay
           S == {i \in Schedules!Instants : Schedules!LocalOf(zone, i) >= d * D + t}
           last == 3 * D * m
<1>1. m \in Nat \ {0} /\ D \in Nat \ {0}
  BY DEF Schedules!ScheduleAssumption
<1>2. last \in Nat /\ last \in Schedules!Instants
  BY <1>1 DEF Schedules!Instants
<1>3. last \div m = 3 * D
  BY <1>1
<1>4. \A i \in Nat : /\ Schedules!LocalOf(zone, i) \in Nat /\ Schedules!LocalOf(zone, i) >= i \div m
                     /\ Schedules!LocalOf(zone, i) <= i \div m + 1
  BY <1>1 DEF Schedules!LocalOf
<1>5. d \in Nat /\ t \in Nat /\ d * D + t <= 3 * D
  BY <1>1
<1>6. last \in S
  <2>1. Schedules!LocalOf(zone, last) >= 3 * D /\ Schedules!LocalOf(zone, last) \in Nat
    BY <1>2, <1>3, <1>4
  <2> QED BY <1>1, <1>2, <1>5, <2>1
<1>7. S \subseteq Nat
  BY <1>1 DEF Schedules!Instants
<1> DEFINE o == Schedules!OccurrenceOf(zone, d, t)
<1>8. o \in S
  <2>1. o = Schedules!Min(S)
    BY DEF Schedules!OccurrenceOf
  <2> HIDE DEF S, o
  <2> QED BY <1>6, <1>7, <2>1, SchedulesLeast
<1>9. d = 2 => o >= (2 * D - 1) * m
  <2> SUFFICES ASSUME d = 2 PROVE o >= (2 * D - 1) * m
    OBVIOUS
  <2>1. o \in Nat /\ Schedules!LocalOf(zone, o) >= 2 * D + t
    BY <1>7, <1>8
  <2>2. o \div m + 1 >= 2 * D /\ o \div m \in Nat
    <3> HIDE DEF o, S
    <3>1. Schedules!LocalOf(zone, o) \in Nat /\ Schedules!LocalOf(zone, o) <= o \div m + 1
      BY <1>4, <2>1
    <3>2. o \div m \in Nat
      BY <1>1, <2>1
    <3> QED BY <1>1, <1>5, <2>1, <3>1, <3>2
  <2>3. o >= m * (o \div m)
    <3> HIDE DEF o, S
    <3> QED BY <1>1, <2>1
  <2>4. m * (o \div m) >= m * (2 * D - 1)
    <3> HIDE DEF o, S
    <3> QED BY <1>1, <2>2
  <2> HIDE DEF o, S
  <2> QED BY <1>1, <2>1, <2>2, <2>3, <2>4
<1> QED BY <1>7, <1>8, <1>9

\* What an accepted declaration is of.
LEMMA SchedulesAccepted ==
    ASSUME Schedules!ScheduleAssumption, NEW s \in Schedules!Accepted
    PROVE  /\ s.kind = "interval" => s.every \in Nat \ {0}
           /\ s.kind # "interval" => /\ s.kind = "daily" \/ s.kind = "cron"
                                     /\ s.times # {} /\ s.times \subseteq 0..(MinutesOfDay - 1)
<1>1. PICK d \in Declarations : ~Schedules!Refused(d) /\ s = d.schedule
  BY DEF Schedules!Accepted
<1>2. /\ s.kind = "interval" => s.every \in Int
      /\ s.kind \in {"interval", "daily", "cron"}
      /\ s.kind = "cron" => s.times \subseteq 0..(MinutesOfDay - 1)
  BY <1>1 DEF Schedules!ScheduleAssumption, Schedules!Kinds
<1>3. s.kind = "interval" => s.every > 0
  BY <1>1 DEF Schedules!Refused, Schedules!WholeMinutes
<1>4. s.kind = "daily" => s.times # {} /\ \A t \in s.times : t \in 0..(MinutesOfDay - 1)
  BY <1>1 DEF Schedules!Refused, Schedules!BadTimes
<1>5. s.kind = "cron" => s.times # {}
  BY <1>1 DEF Schedules!Refused, Schedules!BadExpression
<1> QED BY <1>2, <1>3, <1>4, <1>5

\* A calendar comes again after any instant a clock shows.
LEMMA SchedulesCalendar ==
    ASSUME Schedules!ScheduleAssumption, now \in 0..ScheduleHorizon, NEW r \in ClockHosts, NEW zone,
           NEW T, T # {}, T \subseteq 0..(MinutesOfDay - 1)
    PROVE  LET S == Schedules!After(Schedules!OfTimes(zone, T), Schedules!Clock(r))
           IN  S \subseteq Nat /\ S # {} /\ Schedules!Min(S) \in S /\ \A i \in S : Schedules!Min(S) <= i
<1> DEFINE S == Schedules!After(Schedules!OfTimes(zone, T), Schedules!Clock(r))
<1>1. \A d \in 0..2 : \A t \in T : Schedules!OccurrenceOf(zone, d, t) \in Nat
  BY SchedulesOccurrence
<1>2. S \subseteq Nat
  BY <1>1 DEF Schedules!After, Schedules!OfTimes
<1>3. PICK t \in T : TRUE
  OBVIOUS
<1> DEFINE o == Schedules!OccurrenceOf(zone, 2, t)
           B == (2 * MinutesOfDay - 1) * UnitsOfMinute
<1>4. o \in Nat /\ o >= B /\ B \in Int
  <2>1. 2 \in 0..2 /\ t \in 0..(MinutesOfDay - 1)
    BY <1>3
  <2>2. MinutesOfDay \in Nat /\ UnitsOfMinute \in Nat
    BY DEF Schedules!ScheduleAssumption
  <2>3. o \in Nat /\ o >= B
    BY <2>1, SchedulesOccurrence
  <2>4. B \in Int
    BY <2>2
  <2> QED BY <2>3, <2>4
<1>5. Schedules!Clock(r) \in Nat /\ Schedules!Clock(r) < B
  BY SchedulesBounds
<1>6. o \in Schedules!OfTimes(zone, T)
  BY <1>3 DEF Schedules!OfTimes
<1> HIDE DEF B, o
<1>7. o > Schedules!Clock(r)
  BY <1>4, <1>5
<1>8. o \in S
  BY <1>6, <1>7 DEF Schedules!After
<1> HIDE DEF S
<1>9. Schedules!Min(S) \in S /\ \A i \in S : Schedules!Min(S) <= i
  BY <1>2, <1>8, SchedulesLeast
<1> QED BY <1>2, <1>8, <1>9 DEF S

\* The next run is the first instant the schedule names after now, whatever its kind.
LEMMA SchedulesNextRun ==
    ASSUME Schedules!ScheduleAssumption, now \in 0..ScheduleHorizon, NEW r \in ClockHosts,
           NEW s \in Schedules!Accepted
    PROVE  LET n == Schedules!NextRun(s, Schedules!Clock(r)) IN
           /\ n \in Nat /\ n \in Schedules!Named(s) /\ n > Schedules!Clock(r)
           /\ \A i \in Schedules!Named(s) : i > Schedules!Clock(r) => n <= i
<1> DEFINE c == Schedules!Clock(r)
           n == Schedules!NextRun(s, c)
<1>0. c \in Nat
  BY SchedulesBounds
<1>1. CASE s.kind = "interval"
  <2>1. s.every \in Nat \ {0}
    BY <1>1, SchedulesAccepted
  <2>2. n = Schedules!NextOnTheGrid(c, s.every)
    BY <1>1 DEF Schedules!NextRun
  <2>3. Schedules!Named(s) = {i \in Nat : i % s.every = 0}
    BY <1>1 DEF Schedules!Named
  <2> HIDE DEF c, n
  <2>4. /\ Schedules!NextOnTheGrid(c, s.every) \in Nat /\ Schedules!NextOnTheGrid(c, s.every) > c
        /\ Schedules!NextOnTheGrid(c, s.every) % s.every = 0
        /\ \A i \in Nat : i % s.every = 0 /\ i > c => Schedules!NextOnTheGrid(c, s.every) <= i
    BY <1>0, <2>1, SchedulesGrid
  <2> USE DEF c, n
  <2> QED BY <2>2, <2>3, <2>4
<1>2. CASE s.kind # "interval"
  <2> DEFINE A(T) == Schedules!After(Schedules!OfTimes(s.zone, T), c)
  <2>1. Schedules!Named(s) = Schedules!OfTimes(s.zone, s.times)
    BY <1>2 DEF Schedules!Named
  <2>2. s.times # {} /\ s.times \subseteq 0..(MinutesOfDay - 1)
    BY <1>2, SchedulesAccepted
  <2>3. \A i : i \in A(s.times) <=> i \in Schedules!Named(s) /\ i > c
    BY <2>1 DEF Schedules!After
  <2>4. CASE s.kind = "cron"
    <3>1. n = Schedules!Min(A(s.times))
      BY <2>4 DEF Schedules!NextRun
    <3>2. A(s.times) \subseteq Nat /\ Schedules!Min(A(s.times)) \in A(s.times)
          /\ \A i \in A(s.times) : Schedules!Min(A(s.times)) <= i
      BY <2>2, SchedulesCalendar
    <3> HIDE DEF A, n, c
    <3>3. n \in Nat /\ n \in Schedules!Named(s) /\ n > c /\ \A i \in Schedules!Named(s) : i > c => n <= i
      BY <2>3, <3>1, <3>2
    <3> QED BY <3>3 DEF n, c
  <2>5. CASE s.kind = "daily"
    <3> DEFINE M == {Schedules!Min(A({t})) : t \in s.times}
    <3>1. n = Schedules!Min(M)
      BY <2>5 DEF Schedules!NextRun
    <3>2. ASSUME NEW t \in s.times
          PROVE  /\ Schedules!Min(A({t})) \in A({t}) /\ A({t}) \subseteq Nat
                 /\ \A i \in A({t}) : Schedules!Min(A({t})) <= i
      <4>1. {t} # {} /\ {t} \subseteq 0..(MinutesOfDay - 1)
        BY <2>2, <3>2
      <4> QED BY <4>1, SchedulesCalendar
    <3>3. \A t \in s.times : \A i \in A({t}) : i \in A(s.times)
      BY DEF Schedules!After, Schedules!OfTimes
    <3>4. \A i \in A(s.times) : \E t \in s.times : i \in A({t})
      BY DEF Schedules!After, Schedules!OfTimes
    <3> HIDE DEF A, c
    <3>5. M \subseteq Nat /\ M # {} /\ \A i \in M : i \in A(s.times)
      BY <2>2, <3>2, <3>3
    <3>6. Schedules!Min(M) \in M /\ \A i \in M : Schedules!Min(M) <= i
      <4> HIDE DEF M
      <4> QED BY <3>5, SchedulesLeast
    <3>7. ASSUME NEW i \in A(s.times) PROVE Schedules!Min(M) <= i
      <4>1. PICK t \in s.times : i \in A({t})
        BY <3>4, <3>7
      <4>2. Schedules!Min(A({t})) \in M /\ Schedules!Min(A({t})) <= i /\ i \in Nat
        BY <3>2, <4>1
      <4> HIDE DEF M
      <4>3. \A x, y, z \in Nat : x <= y /\ y <= z => x <= z
        OBVIOUS
      <4>4. Schedules!Min(M) \in Nat /\ Schedules!Min(A({t})) \in Nat
        BY <3>5, <3>6, <4>2
      <4>5. Schedules!Min(M) <= Schedules!Min(A({t}))
        BY <3>6, <4>2
      <4> QED BY <4>2, <4>3, <4>4, <4>5
    <3> HIDE DEF M, n
    <3>8. n \in Nat /\ n \in Schedules!Named(s) /\ n > c /\ \A i \in Schedules!Named(s) : i > c => n <= i
      BY <2>3, <3>1, <3>5, <3>6, <3>7
    <3> QED BY <3>8 DEF n, c
  <2> QED BY <1>2, <2>4, <2>5, SchedulesAccepted
<1> QED BY <1>1, <1>2

\* So is the run after one that is due.
LEMMA SchedulesAfterSlot ==
    ASSUME Schedules!ScheduleAssumption, now \in 0..ScheduleHorizon, NEW r \in ClockHosts,
           NEW s \in Schedules!Accepted, NEW slot \in Schedules!Named(s), slot <= Schedules!Clock(r)
    PROVE  LET n == Schedules!NextAfterSlot(s, slot, Schedules!Clock(r)) IN
           /\ n \in Nat /\ n \in Schedules!Named(s) /\ n > Schedules!Clock(r)
           /\ \A i \in Schedules!Named(s) : i > Schedules!Clock(r) => n <= i
<1>1. CASE s.kind # "interval"
  BY <1>1, SchedulesNextRun DEF Schedules!NextAfterSlot
<1>2. CASE s.kind = "interval"
  <2> DEFINE c == Schedules!Clock(r)
             e == s.every
             n == slot + e * Schedules!Max({1, ((c - slot) \div e) + 1})
  <2>1. e \in Nat \ {0} /\ c \in Nat
    BY <1>2, SchedulesAccepted, SchedulesBounds
  <2>2. Schedules!Named(s) = {i \in Nat : i % e = 0}
    BY <1>2 DEF Schedules!Named
  <2>3. Schedules!NextAfterSlot(s, slot, c) = n
    BY <1>2 DEF Schedules!NextAfterSlot
  <2>4. slot \in Nat /\ slot % e = 0 /\ slot <= c
    BY <2>2
  <2>5. n \in Nat /\ n > c /\ n % e = 0 /\ \A i \in Nat : i % e = 0 /\ i > c => n <= i
    <3> HIDE DEF c, e
    <3> QED BY <2>1, <2>4, SchedulesGridAfter
  <2> HIDE DEF n
  <2> QED BY <2>2, <2>3, <2>5
<1> QED BY <1>1, <1>2

\* A job nothing was done to keeps in step as the time goes by.
LEMMA SchedulesStays ==
    ASSUME NEW r \in ClockHosts, NEW n, Schedules!InStep(r, n), now \in Nat, now' \in Nat, now <= now',
           \A t \in taken : t.at \in Nat, HostAhead[r] \in Nat, armed'[r][n] = armed[r][n],
           \A t : t.by = r /\ t.name = n => (t \in taken' <=> t \in taken)
    PROVE  Schedules!InStep(r, n)'
<1> DEFINE plan == armed[r][n]
<1>1. /\ Schedules!Clock(r) \in Nat /\ Schedules!Clock(r)' \in Nat
      /\ Schedules!Clock(r) <= Schedules!Clock(r)'
  BY DEF Schedules!Clock
<1>2. plan \in [schedule : Schedules!Accepted, next : Nat \cup {Schedules!Never}, from : Nat \cup {Schedules!Never}]
  BY DEF Schedules!InStep
<1>3. CASE /\ plan.next = Schedules!Never /\ plan.from = Schedules!Never
           /\ \A t \in taken : ~(t.by = r /\ t.name = n)
  BY <1>2, <1>3 DEF Schedules!InStep
<1>4. CASE /\ plan.next \in Schedules!Named(plan.schedule) /\ plan.from \in 0..Schedules!Clock(r)
           /\ plan.from < plan.next /\ Schedules!Spent(r, n, plan.next) /\ Schedules!Met(r, n, plan.from, plan.next)
  <2>1. plan.from \in 0..Schedules!Clock(r)'
    BY <1>1, <1>4
  <2>2. ASSUME NEW t \in taken', t.by = r, t.name = n
        PROVE  /\ t.slot \in Schedules!Named(plan.schedule) /\ t.slot <= t.at /\ t.at < plan.next
               /\ t.at <= Schedules!Clock(r)'
               /\ \A u \in taken' : u.by = r /\ u.name = n => t = u \/ t.slot > u.at \/ u.slot > t.at
    <3>1. t \in taken
      BY <2>2
    <3>2. /\ t.slot \in Schedules!Named(plan.schedule) /\ t.slot <= t.at /\ t.at < plan.next
          /\ t.at <= Schedules!Clock(r) /\ t.at \in Int
          /\ \A u \in taken : u.by = r /\ u.name = n => t = u \/ t.slot > u.at \/ u.slot > t.at
      BY <1>4, <2>2, <3>1 DEF Schedules!Spent
    <3> QED BY <1>1, <3>2
  <2>3. (Schedules!Spent(r, n, plan.next))'
    BY <2>2 DEF Schedules!Spent
  <2>4. (Schedules!Met(r, n, plan.from, plan.next))'
    BY <1>4 DEF Schedules!Met
  <2> QED BY <1>2, <1>4, <2>1, <2>3, <2>4 DEF Schedules!InStep
<1> QED BY <1>3, <1>4 DEF Schedules!InStep

\* A replica whose host has a clock knows the next run of a job when it asks for it.
LEMMA SchedulesAnchored ==
    ASSUME Schedules!ScheduleAssumption, Schedules!IInv, NEW r \in ClockHosts, NEW n \in Schedules!Names(r)
    PROVE  LET plan == Schedules!Anchored(r, n) IN
           /\ plan \in [schedule : Schedules!Accepted, next : Nat, from : Nat]
           /\ plan.schedule = armed[r][n].schedule
           /\ plan.next \in Schedules!Named(plan.schedule)
           /\ plan.from \in 0..Schedules!Clock(r) /\ plan.from < plan.next
           /\ Schedules!Spent(r, n, plan.next) /\ Schedules!Met(r, n, plan.from, plan.next)
           /\ plan.next # Schedules!Never /\ plan.from # Schedules!Never
<1> DEFINE plan == armed[r][n]
           c == Schedules!Clock(r)
<1>0. now \in 0..ScheduleHorizon /\ Schedules!InStep(r, n)
  BY DEF Schedules!IInv, Schedules!TypeOK
<1>1. plan \in [schedule : Schedules!Accepted, next : Nat \cup {Schedules!Never}, from : Nat \cup {Schedules!Never}]
  BY <1>0 DEF Schedules!InStep
<1>2. c \in Nat /\ Schedules!Never = -1
  BY <1>0, SchedulesBounds
<1>3. CASE plan.next # Schedules!Never
  <2>1. Schedules!Anchored(r, n) = plan
    BY <1>3 DEF Schedules!Anchored
  <2>2. /\ plan.next \in Schedules!Named(plan.schedule) /\ plan.from \in 0..c /\ plan.from < plan.next
        /\ Schedules!Spent(r, n, plan.next) /\ Schedules!Met(r, n, plan.from, plan.next)
    BY <1>0, <1>3 DEF Schedules!InStep
  <2>3. plan.next \in Nat /\ plan.from \in Nat
    BY <1>1, <1>2, <1>3, <2>2
  <2>4. plan \in [schedule : Schedules!Accepted, next : Nat, from : Nat]
    BY <1>1, <2>3
  <2> QED BY <1>2, <2>1, <2>2, <2>3, <2>4
<1>4. CASE plan.next = Schedules!Never
  <2> DEFINE s == plan.schedule
             x == Schedules!NextRun(s, c)
             y == [schedule |-> s, next |-> x, from |-> c]
  <2>1. Schedules!Anchored(r, n) = y
    BY <1>1, <1>4 DEF Schedules!Anchored
  <2>2. /\ x \in Nat /\ x \in Schedules!Named(s) /\ x > c
        /\ \A i \in Schedules!Named(s) : i > c => x <= i
    BY <1>0, <1>1, SchedulesNextRun
  <2>3. \A t \in taken : ~(t.by = r /\ t.name = n)
    BY <1>0, <1>2, <1>4 DEF Schedules!InStep, Schedules!Named
  <2> HIDE DEF x
  <2>4. Schedules!Spent(r, n, x)
    BY <2>3 DEF Schedules!Spent
  <2>5. Schedules!Met(r, n, c, x)
    <3>1. ASSUME NEW i \in (c + 1)..(x - 1), i \in Schedules!Named(s) PROVE FALSE
      BY <1>2, <2>2, <3>1
    <3> QED BY <3>1 DEF Schedules!Met
  <2>6. y \in [schedule : Schedules!Accepted, next : Nat, from : Nat]
    BY <1>1, <1>2, <2>2
  <2>7. y.schedule = s /\ y.next = x /\ y.from = c
    OBVIOUS
  <2> HIDE DEF y, c
  <2>8. /\ y.schedule = armed[r][n].schedule /\ y.next \in Schedules!Named(y.schedule)
        /\ y.from \in 0..c /\ y.from < y.next
        /\ y.next # Schedules!Never /\ y.from # Schedules!Never
    BY <1>2, <2>2, <2>7
  <2>9. Schedules!Spent(r, n, y.next) /\ Schedules!Met(r, n, y.from, y.next)
    BY <2>4, <2>5, <2>7
  <2> QED BY <2>1, <2>6, <2>8, <2>9 DEF c
<1> QED BY <1>3, <1>4

\* Nothing is declared or taken at first.
LEMMA SchedulesStarts ==
    ASSUME Schedules!ScheduleAssumption, Schedules!Init
    PROVE  Schedules!IInv
<1>1. now = 0 /\ clocked = {} /\ taken = {} /\ armed = [r \in ClockHosts |-> [n \in {} |-> Schedules!Never]]
  BY DEF Schedules!Init
<1>2. \A r \in ClockHosts : Schedules!Names(r) = {}
  BY <1>1 DEF Schedules!Names
<1>3. now \in 0..ScheduleHorizon
  BY <1>1 DEF Schedules!ScheduleAssumption
<1> QED BY <1>1, <1>2, <1>3 DEF Schedules!IInv, Schedules!TypeOK

\* The clock of a host is filled, or goes on.
LEMMA SchedulesTime ==
    ASSUME Schedules!ScheduleAssumption, Schedules!IInv,
           Schedules!Tick \/ (\E r \in ClockHosts : Schedules!FillTheClock(r))
             \/ UNCHANGED Schedules!scheduleVars
    PROVE  Schedules!IInv'
<1>1. /\ armed' = armed /\ taken' = taken /\ clocked \subseteq clocked' /\ clocked' \subseteq ClockHosts
      /\ now' \in 0..ScheduleHorizon /\ now \in 0..ScheduleHorizon /\ now <= now'
  <2>1. now \in 0..ScheduleHorizon /\ clocked \subseteq ClockHosts /\ ScheduleHorizon \in Nat
    BY DEF Schedules!IInv, Schedules!TypeOK, Schedules!ScheduleAssumption
  <2> QED BY <2>1 DEF Schedules!Tick, Schedules!FillTheClock, Schedules!scheduleVars
<1>2. \A r \in ClockHosts : Schedules!Names(r)' = Schedules!Names(r)
  BY <1>1 DEF Schedules!Names
<1>3. ASSUME NEW r \in ClockHosts, NEW n \in Schedules!Names(r)' PROVE Schedules!InStep(r, n)'
  <2>1. n \in Schedules!Names(r) /\ Schedules!InStep(r, n)
    BY <1>2, <1>3 DEF Schedules!IInv
  <2>2. \A t \in taken : t.at \in Nat
    BY DEF Schedules!IInv
  <2>3. HostAhead[r] \in Nat /\ now \in Nat /\ now' \in Nat
    BY <1>1 DEF Schedules!ScheduleAssumption
  <2> QED BY <1>1, <2>1, <2>2, <2>3, SchedulesStays
<1>4. Schedules!TypeOK'
  BY <1>1, <1>2 DEF Schedules!IInv, Schedules!TypeOK
<1>5. \A t \in taken' : t.by \in ClockHosts /\ t.name \in Schedules!Names(t.by)' /\ t.slot \in Nat /\ t.at \in Nat
  BY <1>1, <1>2 DEF Schedules!IInv
<1> QED BY <1>3, <1>4, <1>5 DEF Schedules!IInv

\* A job that is declared is anchored now, or when its host has a clock.
LEMMA SchedulesDeclare ==
    ASSUME Schedules!ScheduleAssumption, Schedules!IInv, NEW r \in ClockHosts, NEW d \in Declarations,
           Schedules!Declare(r, d)
    PROVE  Schedules!IInv'
<1> DEFINE c == Schedules!Clock(r)
           x == IF r \in clocked THEN Schedules!NextRun(d.schedule, c) ELSE Schedules!Never
           y == [schedule |-> d.schedule, next |-> x, from |-> IF x = Schedules!Never THEN Schedules!Never ELSE c]
<1>1. /\ ~Schedules!Refused(d) /\ d.name \notin Schedules!Names(r)
      /\ armed' = [armed EXCEPT ![r] = [n \in Schedules!Names(r) \cup {d.name} |->
                      IF n # d.name THEN armed[r][n] ELSE y]]
      /\ now' = now /\ clocked' = clocked /\ taken' = taken
  BY DEF Schedules!Declare
<1>2. d.schedule \in Schedules!Accepted
  BY <1>1 DEF Schedules!Accepted
<1>3. now \in 0..ScheduleHorizon /\ clocked \subseteq ClockHosts /\ DOMAIN armed = ClockHosts
  BY DEF Schedules!IInv, Schedules!TypeOK
<1>4. c \in Nat /\ Schedules!Never = -1 /\ c' = c /\ now \in Nat
  BY <1>1, <1>3, SchedulesBounds DEF Schedules!Clock
<1>5. x = Schedules!Never \/ /\ x \in Nat /\ x \in Schedules!Named(d.schedule) /\ x > c
                             /\ r \in clocked
                             /\ \A i \in Schedules!Named(d.schedule) : i > c => x <= i
  BY <1>2, <1>3, SchedulesNextRun
<1>6. armed'[r] = [n \in Schedules!Names(r) \cup {d.name} |-> IF n # d.name THEN armed[r][n] ELSE y]
  BY <1>1, <1>3
<1>7. /\ Schedules!Names(r)' = Schedules!Names(r) \cup {d.name}
      /\ \A n \in Schedules!Names(r) : armed'[r][n] = armed[r][n]
      /\ armed'[r][d.name] = y
      /\ \A q \in ClockHosts : q # r => armed'[q] = armed[q] /\ Schedules!Names(q)' = Schedules!Names(q)
      /\ DOMAIN armed' = ClockHosts
  BY <1>1, <1>3, <1>6 DEF Schedules!Names
<1> HIDE DEF x, c
<1>8. y.schedule = d.schedule /\ y.next = x /\ y.from = IF x = Schedules!Never THEN Schedules!Never ELSE c
  OBVIOUS
<1>9. y \in [schedule : Schedules!Accepted, next : Nat \cup {Schedules!Never}, from : Nat \cup {Schedules!Never}]
  BY <1>2, <1>4, <1>5
<1> HIDE DEF y
<1>10. \A t \in taken : ~(t.by = r /\ t.name = d.name)
  BY <1>1 DEF Schedules!IInv
<1>11. Schedules!InStep(r, d.name)'
  <2>1. CASE x = Schedules!Never
    BY <1>1, <1>7, <1>8, <1>9, <1>10, <2>1 DEF Schedules!InStep
  <2>2. CASE x # Schedules!Never
    <3>1. x \in Nat /\ x > c /\ x \in Schedules!Named(d.schedule) /\ y.from = c
          /\ \A i \in Schedules!Named(d.schedule) : i > c => x <= i
      BY <1>5, <1>8, <2>2
    <3>2. (Schedules!Spent(r, d.name, armed[r][d.name].next))'
      BY <1>1, <1>10 DEF Schedules!Spent
    <3>3. (Schedules!Met(r, d.name, armed[r][d.name].from, armed[r][d.name].next))'
      <4>1. ASSUME NEW i \in (c + 1)..(x - 1), i \in Schedules!Named(d.schedule) PROVE FALSE
        BY <1>4, <3>1, <4>1
      <4> QED BY <1>7, <1>8, <3>1, <4>1 DEF Schedules!Met
    <3>4. y.from \in 0..Schedules!Clock(r)'
      BY <1>4, <3>1 DEF c
    <3>5. y.next \in Schedules!Named(y.schedule) /\ y.from < y.next
      BY <1>4, <1>8, <3>1
    <3> QED BY <1>7, <1>9, <3>2, <3>3, <3>4, <3>5 DEF Schedules!InStep
  <2> QED BY <2>1, <2>2
<1>12. ASSUME NEW q \in ClockHosts, NEW n \in Schedules!Names(q)' PROVE Schedules!InStep(q, n)'
  <2>1. CASE q = r /\ n = d.name
    BY <1>11, <2>1
  <2>2. CASE ~(q = r /\ n = d.name)
    <3>1. n \in Schedules!Names(q) /\ armed'[q][n] = armed[q][n]
      BY <1>7, <1>12, <2>2
    <3>2. Schedules!InStep(q, n) /\ HostAhead[q] \in Nat /\ \A t \in taken : t.at \in Nat
      BY <3>1 DEF Schedules!IInv, Schedules!ScheduleAssumption
    <3>3. now \in Nat /\ now' \in Nat /\ now <= now' /\ taken' = taken
      BY <1>1, <1>4
    <3> QED BY <3>1, <3>2, <3>3, SchedulesStays
  <2> QED BY <2>1, <2>2
<1>13. Schedules!TypeOK'
  <2>1. ASSUME NEW q \in ClockHosts, NEW n \in Schedules!Names(q)'
        PROVE  /\ armed'[q][n].next \in Nat \cup {Schedules!Never}
               /\ q \notin clocked => armed'[q][n].next = Schedules!Never
    <3>1. CASE q = r /\ n = d.name
      BY <1>5, <1>7, <1>8, <3>1
    <3>2. CASE ~(q = r /\ n = d.name)
      <4>1. n \in Schedules!Names(q) /\ armed'[q][n] = armed[q][n]
        BY <1>7, <2>1, <3>2
      <4> QED BY <4>1 DEF Schedules!IInv, Schedules!TypeOK
    <3> QED BY <3>1, <3>2
  <2> QED BY <1>1, <1>3, <1>7, <2>1 DEF Schedules!IInv, Schedules!TypeOK
<1>14. \A t \in taken' : t.by \in ClockHosts /\ t.name \in Schedules!Names(t.by)' /\ t.slot \in Nat /\ t.at \in Nat
  <2>1. \A q \in ClockHosts : Schedules!Names(q) \subseteq Schedules!Names(q)'
    BY <1>7
  <2> QED BY <1>1, <2>1 DEF Schedules!IInv
<1> QED BY <1>12, <1>13, <1>14 DEF Schedules!IInv

\* A turn takes what is due and moves past what was slept through.
LEMMA SchedulesTurn ==
    ASSUME Schedules!ScheduleAssumption, Schedules!IInv, NEW r \in ClockHosts, Schedules!Turn(r)
    PROVE  Schedules!IInv'
<1> DEFINE c == Schedules!Clock(r)
           J(n) == Schedules!Anchored(r, n)
           due == {n \in Schedules!Names(r) : c >= J(n).next}
           x(n) == Schedules!NextAfterSlot(J(n).schedule, J(n).next, c)
           T(n) == [by |-> r, name |-> n, slot |-> J(n).next, at |-> c]
<1>1. /\ r \in clocked
      /\ armed' = [armed EXCEPT ![r] = [n \in Schedules!Names(r) |->
                      IF n \in due THEN [J(n) EXCEPT !.next = x(n)] ELSE J(n)]]
      /\ taken' = taken \cup {T(n) : n \in due}
      /\ now' = now /\ clocked' = clocked
  BY DEF Schedules!Turn
<1>2. now \in 0..ScheduleHorizon /\ clocked \subseteq ClockHosts /\ DOMAIN armed = ClockHosts
  BY DEF Schedules!IInv, Schedules!TypeOK
<1>3. c \in Nat /\ Schedules!Never = -1 /\ now \in Nat /\ \A q \in ClockHosts : Schedules!Clock(q)' = Schedules!Clock(q)
  BY <1>1, <1>2, SchedulesBounds DEF Schedules!Clock
<1>4. armed'[r] = [n \in Schedules!Names(r) |-> IF n \in due THEN [J(n) EXCEPT !.next = x(n)] ELSE J(n)]
  BY <1>1, <1>2
<1>5. /\ Schedules!Names(r)' = Schedules!Names(r)
      /\ \A n \in Schedules!Names(r) : armed'[r][n] = IF n \in due THEN [J(n) EXCEPT !.next = x(n)] ELSE J(n)
      /\ \A q \in ClockHosts : q # r => armed'[q] = armed[q] /\ Schedules!Names(q)' = Schedules!Names(q)
      /\ DOMAIN armed' = ClockHosts
  BY <1>1, <1>2, <1>4 DEF Schedules!Names
<1>6. ASSUME NEW n \in Schedules!Names(r)
      PROVE  /\ J(n) \in [schedule : Schedules!Accepted, next : Nat, from : Nat]
             /\ J(n).schedule = armed[r][n].schedule
             /\ J(n).next \in Schedules!Named(J(n).schedule) /\ J(n).from \in 0..c /\ J(n).from < J(n).next
             /\ Schedules!Spent(r, n, J(n).next) /\ Schedules!Met(r, n, J(n).from, J(n).next)
  BY <1>6, SchedulesAnchored
<1>7. ASSUME NEW n \in due
      PROVE  /\ x(n) \in Nat /\ x(n) \in Schedules!Named(J(n).schedule) /\ x(n) > c
             /\ \A i \in Schedules!Named(J(n).schedule) : i > c => x(n) <= i
             /\ J(n).next <= c
  <2>1. /\ J(n).schedule \in Schedules!Accepted /\ J(n).next \in Schedules!Named(J(n).schedule)
        /\ J(n).next <= c /\ J(n).next \in Nat
    BY <1>3, <1>6, <1>7
  <2> HIDE DEF J
  <2> QED BY <1>2, <2>1, SchedulesAfterSlot
<1>8. /\ \A n \in due : T(n).by = r /\ T(n).name = n /\ T(n).slot = J(n).next /\ T(n).at = c /\ T(n) \in taken'
      /\ \A t \in taken' : t \in taken \/ \E n \in due : t = T(n)
      /\ taken \subseteq taken'
  BY <1>1
<1>9. /\ due \subseteq Schedules!Names(r)
      /\ \A n \in due : armed'[r][n] = [J(n) EXCEPT !.next = x(n)]
      /\ \A n \in Schedules!Names(r) : n \notin due => armed'[r][n] = J(n) /\ ~(c >= J(n).next)
  BY <1>5
<1> HIDE DEF c, J, due, x, T
<1>10. ASSUME NEW n \in due
       PROVE  /\ armed'[r][n] \in [schedule : Schedules!Accepted, next : Nat, from : Nat]
              /\ armed'[r][n].schedule = J(n).schedule /\ armed'[r][n].next = x(n) /\ armed'[r][n].from = J(n).from
  <2>1. J(n) \in [schedule : Schedules!Accepted, next : Nat, from : Nat] /\ x(n) \in Nat
    BY <1>6, <1>7, <1>9
  <2> QED BY <1>9, <2>1
<1>11. ASSUME NEW n \in due PROVE Schedules!InStep(r, n)'
  <2> DEFINE s == J(n).schedule
  <2>0. /\ J(n).next \in Nat /\ J(n).from \in Nat /\ J(n).from <= c /\ J(n).next <= c /\ J(n).from < J(n).next
        /\ s = armed[r][n].schedule /\ x(n) \in Nat /\ x(n) > c /\ x(n) \in Schedules!Named(s)
        /\ \A i \in Schedules!Named(s) : i > c => x(n) <= i
        /\ J(n).next \in Schedules!Named(s)
    BY <1>3, <1>6, <1>7, <1>9
  <2>1. ASSUME NEW t \in taken, t.by = r, t.name = n
        PROVE  /\ t.slot \in Schedules!Named(s) /\ t.slot <= t.at /\ t.at <= c /\ t.at < J(n).next /\ t.at \in Nat
               /\ \A u \in taken : u.by = r /\ u.name = n => t = u \/ t.slot > u.at \/ u.slot > t.at
    <3>1. Schedules!Spent(r, n, J(n).next) /\ t.at \in Nat
      BY <1>6, <1>9 DEF Schedules!IInv
    <3> QED BY <2>0, <2>1, <3>1 DEF Schedules!Spent, c
  <2>2. ASSUME NEW t \in taken', t.by = r, t.name = n
        PROVE  t \in taken \/ t = T(n)
    BY <1>8, <2>2
  <2>3. ASSUME NEW t \in taken', t.by = r, t.name = n
        PROVE  /\ t.slot \in Schedules!Named(s) /\ t.slot <= t.at /\ t.at <= c /\ t.at < x(n)
               /\ \A u \in taken' : u.by = r /\ u.name = n => t = u \/ t.slot > u.at \/ u.slot > t.at
    <3>1. CASE t \in taken
      <4>1. /\ t.slot \in Schedules!Named(s) /\ t.slot <= t.at /\ t.at <= c /\ t.at < J(n).next /\ t.at \in Nat
            /\ \A u \in taken : u.by = r /\ u.name = n => t = u \/ t.slot > u.at \/ u.slot > t.at
        BY <2>1, <2>3, <3>1
      <4>2. t.at < x(n)
        BY <1>3, <2>0, <4>1
      <4>3. T(n).slot > t.at
        BY <1>8, <2>0, <4>1
      <4> QED BY <2>2, <4>1, <4>2, <4>3
    <3>2. CASE t = T(n)
      <4>1. t.slot = J(n).next /\ t.at = c
        BY <1>8, <3>2
      <4>2. \A u \in taken : u.by = r /\ u.name = n => t.slot > u.at
        BY <2>0, <2>1, <4>1
      <4> QED BY <1>3, <2>0, <2>2, <3>2, <4>1, <4>2
    <3> QED BY <2>2, <2>3, <3>1, <3>2
  <2>4. armed'[r][n].schedule = s /\ armed'[r][n].next = x(n) /\ armed'[r][n].from = J(n).from
    BY <1>10
  <2>5. Schedules!Clock(r)' = c
    BY <1>3 DEF c
  <2>6. (Schedules!Spent(r, n, armed[r][n].next))'
    BY <2>3, <2>4, <2>5 DEF Schedules!Spent
  <2>7. ASSUME NEW i \in (J(n).from + 1)..(x(n) - 1), i \in Schedules!Named(s)
        PROVE  \E t \in taken' : t.by = r /\ t.name = n /\ t.slot <= i /\ i <= t.at
    <3>0. i \in Int /\ i > J(n).from /\ i < x(n) /\ i <= c
      BY <1>3, <2>0, <2>7
    <3>1. CASE i < J(n).next
      <4>1. i \in (J(n).from + 1)..(J(n).next - 1)
        BY <2>0, <3>0, <3>1
      <4>2. Schedules!Met(r, n, J(n).from, J(n).next)
        BY <1>6, <1>9
      <4> QED BY <1>8, <2>0, <2>7, <4>1, <4>2 DEF Schedules!Met
    <3>2. CASE ~(i < J(n).next)
      <4>1. T(n) \in taken' /\ T(n).by = r /\ T(n).name = n /\ T(n).slot <= i /\ i <= T(n).at
        BY <1>3, <1>8, <2>0, <3>0, <3>2
      <4> QED BY <4>1
    <3> QED BY <3>1, <3>2
  <2>8. (Schedules!Met(r, n, armed[r][n].from, armed[r][n].next))'
    BY <2>4, <2>7 DEF Schedules!Met
  <2>9. /\ armed'[r][n].next \in Schedules!Named(armed'[r][n].schedule)
        /\ armed'[r][n].from \in 0..Schedules!Clock(r)' /\ armed'[r][n].from < armed'[r][n].next
    BY <1>3, <2>0, <2>4, <2>5
  <2>10. armed'[r][n] \in [schedule : Schedules!Accepted, next : Nat \cup {Schedules!Never},
                           from : Nat \cup {Schedules!Never}]
    BY <1>10
  <2> QED BY <2>6, <2>8, <2>9, <2>10 DEF Schedules!InStep
<1>12. ASSUME NEW n \in Schedules!Names(r), n \notin due PROVE Schedules!InStep(r, n)'
  <2> DEFINE s == J(n).schedule
  <2>0. /\ J(n) \in [schedule : Schedules!Accepted, next : Nat, from : Nat]
        /\ s = armed[r][n].schedule /\ armed'[r][n] = J(n)
        /\ J(n).next \in Schedules!Named(s) /\ J(n).from \in 0..c /\ J(n).from < J(n).next
        /\ Schedules!Spent(r, n, J(n).next) /\ Schedules!Met(r, n, J(n).from, J(n).next)
    BY <1>6, <1>9, <1>12
  <2>1. \A t : t.by = r /\ t.name = n => (t \in taken' <=> t \in taken)
    BY <1>8, <1>12
  <2>2. Schedules!Clock(r)' = Schedules!Clock(r) /\ c = Schedules!Clock(r)
    BY <1>3 DEF c
  <2>3. (Schedules!Spent(r, n, armed[r][n].next))'
    BY <2>0, <2>1, <2>2 DEF Schedules!Spent
  <2>4. (Schedules!Met(r, n, armed[r][n].from, armed[r][n].next))'
    BY <2>0, <2>1 DEF Schedules!Met
  <2>5. armed'[r][n] \in [schedule : Schedules!Accepted, next : Nat \cup {Schedules!Never},
                          from : Nat \cup {Schedules!Never}]
    BY <2>0
  <2> QED BY <2>0, <2>2, <2>3, <2>4, <2>5 DEF Schedules!InStep
<1>13. ASSUME NEW q \in ClockHosts, NEW n \in Schedules!Names(q)' PROVE Schedules!InStep(q, n)'
  <2>1. CASE q = r
    BY <1>5, <1>11, <1>12, <1>13, <2>1
  <2>2. CASE q # r
    <3>1. n \in Schedules!Names(q) /\ armed'[q][n] = armed[q][n]
      BY <1>5, <1>13, <2>2
    <3>2. Schedules!InStep(q, n) /\ HostAhead[q] \in Nat /\ \A t \in taken : t.at \in Nat
      BY <3>1 DEF Schedules!IInv, Schedules!ScheduleAssumption
    <3>3. \A t : t.by = q /\ t.name = n => (t \in taken' <=> t \in taken)
      BY <1>8, <2>2
    <3>4. now \in Nat /\ now' \in Nat /\ now <= now'
      BY <1>1, <1>3
    <3> QED BY <3>1, <3>2, <3>3, <3>4, SchedulesStays
  <2> QED BY <2>1, <2>2
<1>14. Schedules!TypeOK'
  <2>1. ASSUME NEW q \in ClockHosts, NEW n \in Schedules!Names(q)'
        PROVE  /\ armed'[q][n].next \in Nat \cup {Schedules!Never}
               /\ q \notin clocked => armed'[q][n].next = Schedules!Never
    <3>1. CASE q = r
      <4>1. Schedules!InStep(r, n)' /\ r \in clocked
        BY <1>1, <1>13, <2>1, <3>1
      <4> QED BY <3>1, <4>1 DEF Schedules!InStep
    <3>2. CASE q # r
      <4>1. n \in Schedules!Names(q) /\ armed'[q][n] = armed[q][n]
        BY <1>5, <2>1, <3>2
      <4> QED BY <4>1 DEF Schedules!IInv, Schedules!TypeOK
    <3> QED BY <3>1, <3>2
  <2>2. \A t \in taken' : t.by \in ClockHosts
    BY <1>8 DEF Schedules!IInv, Schedules!TypeOK
  <2> QED BY <1>1, <1>2, <1>5, <2>1, <2>2 DEF Schedules!TypeOK
<1>15. \A t \in taken' : t.by \in ClockHosts /\ t.name \in Schedules!Names(t.by)' /\ t.slot \in Nat /\ t.at \in Nat
  <2>1. \A q \in ClockHosts : Schedules!Names(q)' = Schedules!Names(q)
    BY <1>5
  <2>2. \A n \in due : J(n).next \in Nat /\ n \in Schedules!Names(r)
    BY <1>6, <1>9
  <2> QED BY <1>3, <1>8, <2>1, <2>2 DEF Schedules!IInv
<1> QED BY <1>13, <1>14, <1>15 DEF Schedules!IInv

\* Each step keeps the invariant.
LEMMA SchedulesSteps ==
    ASSUME Schedules!ScheduleAssumption, Schedules!IInv, [Schedules!Next]_(Schedules!scheduleVars)
    PROVE  Schedules!IInv'
BY SchedulesTime, SchedulesDeclare, SchedulesTurn DEF Schedules!Next

\* From the invariant: what is taken are the instants the schedule names, each once, and none
\* between them is skipped but what was slept through.
LEMMA SchedulesKept ==
    ASSUME Schedules!ScheduleAssumption, Schedules!IInv
    PROVE  Schedules!TypeOK /\ Schedules!SameInstants
<1>0. now \in 0..ScheduleHorizon
  BY DEF Schedules!IInv, Schedules!TypeOK
<1>1. ASSUME NEW r \in ClockHosts, NEW i \in Nat, i <= Schedules!Clock(r),
             NEW s \in Schedules!Accepted
      PROVE  i \in Schedules!Named(s) => i \in Schedules!InstantsOf(s)
  <2>1. Schedules!Clock(r) \in Nat /\ Schedules!Clock(r) < (2 * MinutesOfDay - 1) * UnitsOfMinute
        /\ MinutesOfDay \in Nat \ {0} /\ UnitsOfMinute \in Nat \ {0}
    BY <1>0, SchedulesBounds
  <2>2. (2 * MinutesOfDay - 1) * UnitsOfMinute <= 3 * MinutesOfDay * UnitsOfMinute
    BY <2>1
  <2>3. i \in Schedules!Instants
    BY <1>1, <2>1, <2>2 DEF Schedules!Instants
  <2> QED BY <2>3 DEF Schedules!Named, Schedules!InstantsOf
<1>2. \A s \in Schedules!Accepted : \A i \in Schedules!InstantsOf(s) : i \in Schedules!Named(s) /\ i \in Nat
  <2>1. Schedules!Instants \subseteq Nat
    BY DEF Schedules!Instants, Schedules!ScheduleAssumption
  <2>2. \A s \in Schedules!Accepted : s.kind # "interval" => \A i \in Schedules!OfTimes(s.zone, s.times) : i \in Nat
    <3> SUFFICES ASSUME NEW s \in Schedules!Accepted, s.kind # "interval",
                        NEW d \in 0..2, NEW t \in s.times
                 PROVE  Schedules!OccurrenceOf(s.zone, d, t) \in Nat
      BY DEF Schedules!OfTimes
    <3>1. t \in 0..(MinutesOfDay - 1)
      BY SchedulesAccepted
    <3> QED BY <3>1, SchedulesOccurrence
  <2> QED BY <2>1, <2>2 DEF Schedules!Named, Schedules!InstantsOf
<1>3. ASSUME NEW t \in taken
      PROVE  /\ t.slot \in Schedules!InstantsOf(armed[t.by][t.name].schedule) /\ t.slot <= t.at
             /\ \A u \in taken : u.by = t.by /\ u.name = t.name => t = u \/ t.slot > u.at \/ u.slot > t.at
  <2>1. t.by \in ClockHosts /\ t.name \in Schedules!Names(t.by) /\ t.slot \in Nat /\ t.at \in Nat
        /\ Schedules!InStep(t.by, t.name)
    BY DEF Schedules!IInv
  <2>2. armed[t.by][t.name].schedule \in Schedules!Accepted /\ Schedules!Spent(t.by, t.name, armed[t.by][t.name].next)
    BY <2>1 DEF Schedules!InStep
  <2>3. /\ t.slot \in Schedules!Named(armed[t.by][t.name].schedule) /\ t.slot <= t.at /\ t.at <= Schedules!Clock(t.by)
        /\ \A u \in taken : u.by = t.by /\ u.name = t.name => t = u \/ t.slot > u.at \/ u.slot > t.at
    BY <2>2 DEF Schedules!Spent
  <2>4. t.slot <= Schedules!Clock(t.by)
    BY <1>0, <2>1, <2>3, SchedulesBounds
  <2> QED BY <1>1, <2>1, <2>2, <2>3, <2>4
<1>4. ASSUME NEW r \in ClockHosts, NEW n \in Schedules!Names(r),
             NEW i \in Schedules!InstantsOf(armed[r][n].schedule), armed[r][n].from # Schedules!Never,
             i > armed[r][n].from, i < armed[r][n].next
      PROVE  \E t \in taken : t.by = r /\ t.name = n /\ t.slot <= i /\ i <= t.at
  <2>1. Schedules!InStep(r, n)
    BY DEF Schedules!IInv
  <2>2. /\ armed[r][n] \in [schedule : Schedules!Accepted, next : Nat \cup {Schedules!Never},
                            from : Nat \cup {Schedules!Never}]
        /\ Schedules!Met(r, n, armed[r][n].from, armed[r][n].next)
    BY <1>4, <2>1 DEF Schedules!InStep
  <2>3. i \in Schedules!Named(armed[r][n].schedule) /\ i \in Nat
    BY <1>2, <2>2
  <2>4. i \in (armed[r][n].from + 1)..(armed[r][n].next - 1)
    BY <1>4, <2>2, <2>3 DEF Schedules!Never
  <2> QED BY <2>2, <2>3, <2>4 DEF Schedules!Met
<1>5. Schedules!SameInstants
  BY <1>3, <1>4 DEF Schedules!SameInstants
<1> QED BY <1>5 DEF Schedules!IInv

\* The variables of RealtimeCatchUp.
live == v4
began == v5
events == v6
client == v7
calls == v2
lost == v3
USE DEF live, began, events, client, calls, lost

-----------------------------------------------------------------------------
(* What a client that was away is told (realtime: deploy/db/init/realtime.sql). *)

LEMMA MissedSets ==
    /\ \A S : Missed!Cardinality(S) = Cardinality(S)
    /\ \A S : Missed!IsFiniteSet(S) <=> IsFiniteSet(S)
<1>1. \A S : Missed!Cardinality(S) = Cardinality(S)
  BY Zenon DEF Missed!Cardinality, Cardinality
<1>2. \A S : Missed!IsFiniteSet(S) <=> IsFiniteSet(S)
  BY DEF Missed!IsFiniteSet, IsFiniteSet
<1> QED BY <1>1, <1>2

LEMMA MissedStarts ==
    ASSUME Missed!CatchUpAssumption, Missed!Init
    PROVE  Missed!IInv
<1>1. events = {} /\ Cardinality(events) = 0 /\ IsFiniteSet(events)
  BY FS_EmptySet DEF Missed!Init
<1>2. Missed!TypeOK
  BY <1>1, MissedSets DEF Missed!TypeOK, Missed!Init, Missed!CatchUpAssumption, Missed!None
<1>3. Missed!Numbered
  BY <1>1, MissedSets DEF Missed!Numbered, Missed!Init, Missed!None
<1>4. Missed!LastTells /\ Missed!Behind /\ Missed!Ordered /\ Missed!Told
  BY DEF Missed!Init, Missed!LastTells, Missed!Behind, Missed!Ordered, Missed!Told, Missed!Logged
<1> QED BY <1>2, <1>3, <1>4 DEF Missed!IInv

\* Time passes, and a transaction begins.
LEMMA MissedTick ==
    ASSUME Missed!CatchUpAssumption, Missed!IInv, Missed!Tick
    PROVE  Missed!IInv'
<1>1. now \in Int /\ now' = now + 1 /\ now' \in 1..CatchUpHorizon
  BY DEF Missed!IInv, Missed!TypeOK, Missed!Tick, Missed!CatchUpAssumption
<1>2. UNCHANGED <<live, began, events, client, calls, lost>>
  BY DEF Missed!Tick
<1>3. Missed!TypeOK'
  BY <1>1, <1>2 DEF Missed!IInv, Missed!TypeOK
<1>4. Missed!Numbered'
  <2>1. 1..now \subseteq 1..now'
    BY <1>1
  <2>2. \A e \in events : e.at \in 1..now'
    BY <2>1 DEF Missed!IInv, Missed!Numbered
  <2>3. \A w \in CatchUpWriters : began[w] # Missed!None => began[w] <= now'
    BY <1>1 DEF Missed!IInv, Missed!Numbered, Missed!TypeOK, Missed!None
  <2> QED BY <1>2, <2>1, <2>2, <2>3 DEF Missed!IInv, Missed!Numbered
<1>5. Missed!LastTells' /\ Missed!Ordered'
  BY <1>2 DEF Missed!IInv, Missed!LastTells, Missed!Ordered, Missed!Logged
<1>6. Missed!Behind'
  BY <1>1, <1>2 DEF Missed!IInv, Missed!Behind, Missed!CatchUpAssumption
<1>7. Missed!Told'
  <2>1. client.cursor >= now' - CatchUpRetention => client.cursor >= now - CatchUpRetention
    BY <1>1 DEF Missed!IInv, Missed!TypeOK, Missed!CatchUpAssumption
  <2>2. \A x \in CatchUpEntities : Missed!NothingOf(x)' => Missed!NothingOf(x)
    BY <1>2, <2>1 DEF Missed!NothingOf, Missed!Logged
  <2> QED BY <1>2, <2>2 DEF Missed!IInv, Missed!Told
<1> QED BY <1>3, <1>4, <1>5, <1>6, <1>7 DEF Missed!IInv

LEMMA MissedBegin ==
    ASSUME Missed!CatchUpAssumption, Missed!IInv, NEW w \in CatchUpWriters, Missed!Begin(w)
    PROVE  Missed!IInv'
<1>1. UNCHANGED <<now, live, events, client, calls, lost>> /\ now \in 1..CatchUpHorizon
  BY DEF Missed!IInv, Missed!TypeOK, Missed!Begin
<1>2. began' = [began EXCEPT ![w] = now]
  BY DEF Missed!Begin
<1>3. Missed!TypeOK'
  BY <1>1, <1>2 DEF Missed!IInv, Missed!TypeOK
<1>4. Missed!Numbered'
  <2>1. \A u \in CatchUpWriters : began'[u] # Missed!None => began'[u] <= now
    BY <1>1, <1>2 DEF Missed!IInv, Missed!TypeOK, Missed!Numbered
  <2> QED BY <1>1, <2>1 DEF Missed!IInv, Missed!Numbered
<1>5. Missed!LastTells' /\ Missed!Ordered' /\ Missed!Behind' /\ Missed!Told'
  BY <1>1 DEF Missed!IInv, Missed!LastTells, Missed!Ordered, Missed!Logged, Missed!Behind, Missed!Told,
     Missed!NothingOf
<1> QED BY <1>3, <1>4, <1>5 DEF Missed!IInv

\* A change is logged: a row that is not lost is dated past the cursor and past its own changes.
LEMMA MissedCommit ==
    ASSUME Missed!CatchUpAssumption, Missed!IInv, NEW w \in CatchUpWriters, NEW x \in CatchUpEntities,
           NEW action \in {"insert", "update", "delete"}, Missed!Commit(w, x, action)
    PROVE  Missed!IInv'
<1> DEFINE id == Cardinality(events) + 1
           new == [id |-> id, of |-> x, action |-> action, at |-> began[w], kept |-> TRUE]
<1>1. /\ IsFiniteSet(events) /\ Cardinality(events) \in Nat /\ id <= CatchUpEvents
      /\ began[w] \in 1..now /\ now \in 1..CatchUpHorizon
      /\ events \subseteq [id : 1..Cardinality(events), of : CatchUpEntities, at : 1..now,
                           action : {"insert", "update", "delete"}, kept : BOOLEAN]
  <2>1. IsFiniteSet(events)
    BY MissedSets DEF Missed!IInv, Missed!Numbered
  <2>2. Cardinality(events) \in Nat
    BY <2>1, FS_CardinalityType
  <2>3. id <= CatchUpEvents /\ began[w] # Missed!None
    BY MissedSets DEF Missed!Commit
  <2>4. began[w] \in 1..now /\ now \in 1..CatchUpHorizon
    BY <2>3 DEF Missed!IInv, Missed!Numbered, Missed!TypeOK
  <2>5. events \subseteq [id : 1..Cardinality(events), of : CatchUpEntities, at : 1..now,
                          action : {"insert", "update", "delete"}, kept : BOOLEAN]
    BY MissedSets DEF Missed!IInv, Missed!Numbered
  <2> QED BY <2>1, <2>2, <2>3, <2>4, <2>5
<1>2. events' = events \cup {new}
  BY MissedSets DEF Missed!Commit
<1>3. new \notin events /\ \A e \in events : e.id < new.id /\ e.id \in Int
  BY <1>1
<1>4. UNCHANGED <<now, client, calls>> /\ (action = "insert") = (x \notin live)
      /\ live' = (IF action = "delete" THEN live \ {x} ELSE live \cup {x})
      /\ began' = [began EXCEPT ![w] = Missed!None]
  BY DEF Missed!Commit
<1>5. /\ lost \subseteq lost' /\ lost' \subseteq lost \cup {x}
      /\ x \in lost' \/ ((\A e \in events : e.of = x => e.at <= began[w]) /\ began[w] > now - CatchUpLag)
  <2>1. lost' = (IF (\E e \in {e \in events : e.of = x} : e.at > began[w]) \/ now - began[w] >= CatchUpLag
                 THEN lost \cup {x} ELSE lost)
    BY DEF Missed!Commit
  <2>2. \A e \in events : e.at \in Int
    BY <1>1
  <2>3. CatchUpLag \in Nat /\ now \in Int /\ began[w] \in Int
    BY <1>1 DEF Missed!CatchUpAssumption
  <2>4. CASE (\E e \in {e \in events : e.of = x} : e.at > began[w]) \/ now - began[w] >= CatchUpLag
    BY <2>1, <2>4
  <2>5. CASE ~((\E e \in {e \in events : e.of = x} : e.at > began[w]) \/ now - began[w] >= CatchUpLag)
    <3>1. ASSUME NEW e \in events, e.of = x PROVE e.at <= began[w]
      BY <2>2, <2>3, <2>5, <3>1
    <3>2. began[w] > now - CatchUpLag
      BY <2>3, <2>5
    <3> QED BY <2>1, <2>5, <3>1, <3>2
  <2> QED BY <2>4, <2>5
<1>6. IsFiniteSet(events') /\ Cardinality(events') = id
  BY <1>1, <1>2, <1>3, FS_AddElement
<1>7. Missed!TypeOK'
  BY <1>1, <1>4, <1>5, <1>6, MissedSets DEF Missed!IInv, Missed!TypeOK, Missed!CatchUpAssumption
<1>8. Missed!Numbered'
  <2>1. events' \subseteq [id : 1..id, of : CatchUpEntities, at : 1..now,
                           action : {"insert", "update", "delete"}, kept : BOOLEAN]
    <3>1. new \in [id : 1..id, of : CatchUpEntities, at : 1..now,
                   action : {"insert", "update", "delete"}, kept : BOOLEAN]
      BY <1>1
    <3>2. 1..Cardinality(events) \subseteq 1..id
      BY <1>1
    <3>3. ASSUME NEW e \in events
          PROVE  e \in [id : 1..id, of : CatchUpEntities, at : 1..now,
                        action : {"insert", "update", "delete"}, kept : BOOLEAN]
      BY <1>1, <3>2
    <3> QED BY <1>2, <3>1, <3>3
  <2>2. \A e, f \in events' : e.id = f.id => e = f
    <3> HIDE DEF new
    <3>1. \A e \in events : e.id # new.id
      BY <1>1, <1>3 DEF new
    <3>2. \A e, f \in events : e.id = f.id => e = f
      BY DEF Missed!IInv, Missed!Numbered
    <3> QED BY <1>2, <3>1, <3>2
  <2>3. \A u \in CatchUpWriters : began'[u] # Missed!None => began'[u] <= now
    BY <1>4 DEF Missed!IInv, Missed!TypeOK, Missed!Numbered
  <2>4. now' = now
    BY <1>4
  <2> HIDE DEF id
  <2> QED BY <1>6, <2>1, <2>2, <2>3, <2>4, MissedSets DEF Missed!Numbered
<1>9. Missed!LastTells'
  <2> SUFFICES ASSUME NEW y \in CatchUpEntities
               PROVE  \/ y \notin live' /\ \A e \in events' : e.of # y
                      \/ \E last \in events' : /\ last.of = y /\ (y \in live') = (last.action # "delete")
                                              /\ \A e \in events' : e.of = y => e.id <= last.id
    BY DEF Missed!LastTells
  <2>1. CASE y = x
    <3>1. new.of = y /\ (y \in live') = (new.action # "delete")
      BY <1>4, <2>1
    <3>2. \A e \in events' : e.id <= new.id
      BY <1>1, <1>2, <1>3
    <3> HIDE DEF new
    <3> QED BY <1>2, <3>1, <3>2
  <2>2. CASE y # x
    <3>1. new.of # y /\ (y \in live' <=> y \in live)
      BY <1>4, <2>2
    <3> HIDE DEF new
    <3>2. \/ y \notin live /\ \A e \in events : e.of # y
          \/ \E last \in events : /\ last.of = y /\ (y \in live) = (last.action # "delete")
                                  /\ \A e \in events : e.of = y => e.id <= last.id
      BY DEF Missed!IInv, Missed!LastTells
    <3>3. CASE y \notin live /\ \A e \in events : e.of # y
      BY <1>2, <3>1, <3>3
    <3>4. CASE \E last \in events : /\ last.of = y /\ (y \in live) = (last.action # "delete")
                                    /\ \A e \in events : e.of = y => e.id <= last.id
      BY <1>2, <3>1, <3>4
    <3> QED BY <3>2, <3>3, <3>4
  <2> QED BY <2>1, <2>2
<1>10. Missed!Behind'
  BY <1>4 DEF Missed!IInv, Missed!Behind
<1>11. Missed!Logged' = Missed!Logged \cup {new}
  BY <1>2 DEF Missed!Logged
<1>12. \A e \in events : e.at \in Int /\ e.id \in Int
  BY <1>1
<1>13. Missed!Ordered'
  <2>1. ASSUME NEW e \in Missed!Logged', NEW f \in events', e.of = f.of, e.of \notin lost', e.id < f.id,
               e.at > client.cursor
        PROVE  e.at <= f.at
    <3>1. e \in Missed!Logged
      <4>1. e # new
        BY <1>1, <1>2, <1>3, <2>1
      <4> QED BY <1>11, <4>1
    <3>2. e \in events
      BY <3>1 DEF Missed!Logged
    <3>3. CASE f \in events
      BY <1>5, <2>1, <3>1, <3>3 DEF Missed!IInv, Missed!Ordered
    <3>4. CASE f = new
      BY <1>5, <2>1, <3>2, <3>4
    <3> QED BY <1>2, <3>3, <3>4
  <2>2. ASSUME NEW e \in Missed!Logged', NEW f \in events', e.id < f.id, e.at <= f.at PROVE f.kept
    <3>1. CASE f = new
      BY <3>1
    <3>2. CASE f \in events
      <4>1. e # new
        BY <1>1, <1>3, <1>12, <2>2, <3>2
      <4> QED BY <1>11, <2>2, <3>2, <4>1 DEF Missed!IInv, Missed!Ordered
    <3> QED BY <1>2, <3>1, <3>2
  <2>3. client'.cursor = client.cursor
    BY <1>4
  <2> QED BY <2>1, <2>2, <2>3 DEF Missed!Ordered
<1>14. Missed!Told'
  <2> SUFFICES ASSUME NEW y \in CatchUpEntities \ lost', Missed!NothingOf(y)'
               PROVE  (y \in live') = (y \in client.known)
    BY <1>4 DEF Missed!Told
  <2>1. y # x
    <3> SUFFICES ASSUME y = x PROVE FALSE
      OBVIOUS
    <3>1. began[w] > now - CatchUpLag
      BY <1>5
    <3>2. began[w] > client.cursor
      BY <1>1, <3>1 DEF Missed!IInv, Missed!Behind, Missed!CatchUpAssumption
    <3>3. new \in Missed!Logged' /\ new \in events' /\ new.of = y /\ new.at = began[w]
      BY <1>2, <1>11
    <3>4. ~(new.at <= client.cursor)
      BY <1>1, <3>2, <3>3 DEF Missed!IInv, Missed!Behind
    <3> HIDE DEF new
    <3> QED BY <1>4, <3>3, <3>4 DEF Missed!NothingOf
  <2>2. Missed!NothingOf(y)
    BY <1>2, <1>4, <1>11 DEF Missed!NothingOf
  <2>3. y \notin lost /\ (y \in live') = (y \in live)
    BY <1>4, <1>5, <2>1
  <2> QED BY <2>2, <2>3 DEF Missed!IInv, Missed!Told
<1> QED BY <1>7, <1>8, <1>9, <1>10, <1>13, <1>14 DEF Missed!IInv

\* A day of the log goes: the changes keep their numbers, and none is kept that was not.
LEMMA MissedCleanup ==
    ASSUME Missed!CatchUpAssumption, Missed!IInv, Missed!Cleanup
    PROVE  Missed!IInv'
<1> DEFINE Cleaned(e) == [e EXCEPT !.kept = @ /\ e.at >= now - CatchUpRetention]
           Event == [id : 1..Cardinality(events), of : CatchUpEntities, at : 1..now,
                     action : {"insert", "update", "delete"}, kept : BOOLEAN]
<1>1. IsFiniteSet(events) /\ Cardinality(events) \in Nat /\ events \subseteq Event
  BY MissedSets, FS_CardinalityType DEF Missed!IInv, Missed!Numbered
<1>2. now \in Int /\ client.cursor \in Int /\ CatchUpRetention \in Nat
  BY DEF Missed!IInv, Missed!TypeOK, Missed!CatchUpAssumption
<1>3. /\ events' = {Cleaned(e) : e \in events}
      /\ UNCHANGED <<now, live, began, client, calls>>
      /\ lost' = lost \cup {e.of : e \in {f \in Missed!Logged :
                                           client.cursor = 0 /\ f.at < now - CatchUpRetention}}
  BY DEF Missed!Cleanup
<1>4. \A e \in events : /\ Cleaned(e) \in Event
                        /\ Cleaned(e).id = e.id /\ Cleaned(e).of = e.of /\ Cleaned(e).at = e.at
                        /\ Cleaned(e).action = e.action
                        /\ Cleaned(e).kept = (e.kept /\ e.at >= now - CatchUpRetention)
  BY <1>1, <1>2
<1>5. \A e \in events : e.at \in Int /\ e.id \in Int /\ e.of \in CatchUpEntities
  BY <1>1
<1> HIDE DEF Cleaned
<1>6. \A e, f \in events : e.id = f.id => e = f
  BY DEF Missed!IInv, Missed!Numbered
<1>7. IsFiniteSet(events') /\ Cardinality(events') = Cardinality(events)
  <2> DEFINE image == [e \in events |-> Cleaned(e)]
  <2>1. image \in [events -> events']
    BY <1>3
  <2>2. \A e, f \in events : image[e] = image[f] => e = f
    BY <1>4, <1>6
  <2>3. \A d \in events' : \E e \in events : image[e] = d
    BY <1>3
  <2> HIDE DEF image
  <2>4. image \in Bijection(events, events')
    BY <2>1, <2>2, <2>3 DEF Bijection, Injection, IsInjective, Surjection
  <2> QED BY <1>1, <2>4, FS_Bijection DEF ExistsBijection
<1> HIDE DEF Event
<1>8. Missed!TypeOK'
  <2>1. lost' \subseteq CatchUpEntities
    BY <1>3, <1>5 DEF Missed!IInv, Missed!TypeOK, Missed!Logged
  <2> QED BY <1>3, <1>7, <2>1, MissedSets DEF Missed!IInv, Missed!TypeOK
<1>9. Missed!Numbered'
  <2>1. \A e, f \in events' : e.id = f.id => e = f
    BY <1>3, <1>4, <1>6
  <2>2. events' \subseteq Event
    BY <1>3, <1>4
  <2> QED BY <1>3, <1>7, <2>1, <2>2, MissedSets DEF Missed!IInv, Missed!Numbered, Event
<1>10. Missed!LastTells'
  <2> SUFFICES ASSUME NEW y \in CatchUpEntities
               PROVE  \/ y \notin live /\ \A e \in events' : e.of # y
                      \/ \E last \in events' : /\ last.of = y /\ (y \in live) = (last.action # "delete")
                                              /\ \A e \in events' : e.of = y => e.id <= last.id
    BY <1>3 DEF Missed!LastTells
  <2>1. CASE y \notin live /\ \A e \in events : e.of # y
    BY <1>3, <1>4, <2>1
  <2>2. ASSUME NEW last \in events, last.of = y, (y \in live) = (last.action # "delete"),
               \A e \in events : e.of = y => e.id <= last.id
        PROVE  /\ Cleaned(last) \in events' /\ Cleaned(last).of = y
               /\ (y \in live) = (Cleaned(last).action # "delete")
               /\ \A e \in events' : e.of = y => e.id <= Cleaned(last).id
    BY <1>3, <1>4, <2>2
  <2>3. \/ y \notin live /\ \A e \in events : e.of # y
        \/ \E last \in events : /\ last.of = y /\ (y \in live) = (last.action # "delete")
                                /\ \A e \in events : e.of = y => e.id <= last.id
    BY DEF Missed!IInv, Missed!LastTells
  <2> QED BY <2>1, <2>2, <2>3
<1>11. Missed!Behind'
  BY <1>3 DEF Missed!IInv, Missed!Behind
<1>12. \A d \in Missed!Logged' : \E e \in Missed!Logged : /\ d = Cleaned(e) /\ e \in events
                                                          /\ e.at >= now - CatchUpRetention
  BY <1>3, <1>4 DEF Missed!Logged
<1>13. Missed!Ordered'
  <2>1. ASSUME NEW d \in Missed!Logged', NEW g \in events', d.of = g.of, d.of \notin lost', d.id < g.id,
               d.at > client.cursor
        PROVE  d.at <= g.at
    <3>1. PICK e \in Missed!Logged : d = Cleaned(e) /\ e \in events
      BY <1>12
    <3>2. PICK f \in events : g = Cleaned(f)
      BY <1>3
    <3> QED BY <1>3, <1>4, <2>1, <3>1, <3>2 DEF Missed!IInv, Missed!Ordered
  <2>2. ASSUME NEW d \in Missed!Logged', NEW g \in events', d.id < g.id, d.at <= g.at PROVE g.kept
    <3>1. PICK e \in Missed!Logged : d = Cleaned(e) /\ e \in events /\ e.at >= now - CatchUpRetention
      BY <1>12
    <3>2. PICK f \in events : g = Cleaned(f)
      BY <1>3
    <3>3. f.kept /\ e.at <= f.at
      BY <1>4, <2>2, <3>1, <3>2 DEF Missed!IInv, Missed!Ordered
    <3>4. f.at >= now - CatchUpRetention
      BY <1>2, <1>5, <3>1, <3>3
    <3> QED BY <1>4, <3>2, <3>3, <3>4
  <2> QED BY <1>3, <2>1, <2>2 DEF Missed!Ordered
<1>14. Missed!Told'
  <2> SUFFICES ASSUME NEW y \in CatchUpEntities \ lost', Missed!NothingOf(y)'
               PROVE  (y \in live) = (y \in client.known)
    BY <1>3 DEF Missed!Told
  <2>1. CASE \A d \in events' : d.of = y => d.at <= client.cursor
    BY <1>3, <1>4, <2>1 DEF Missed!IInv, Missed!Told, Missed!NothingOf
  <2>2. CASE /\ client.cursor = 0 \/ client.cursor >= now - CatchUpRetention
             /\ \A d \in Missed!Logged' : d.of = y => d.at <= client.cursor
    <3>1. ASSUME NEW e \in Missed!Logged, e.of = y PROVE e.at <= client.cursor
      <4>1. e \in events /\ e.kept /\ e.at \in Int
        BY <1>5 DEF Missed!Logged
      <4>2. CASE e.at >= now - CatchUpRetention
        <5>1. Cleaned(e) \in Missed!Logged'
          BY <1>3, <1>4, <4>1, <4>2 DEF Missed!Logged
        <5> QED BY <1>4, <2>2, <3>1, <4>1, <5>1
      <4>3. CASE e.at < now - CatchUpRetention
        <5>1. client.cursor # 0
          BY <1>3, <3>1, <4>3
        <5> QED BY <1>2, <2>2, <4>1, <4>3, <5>1
      <4> QED BY <1>2, <4>1, <4>2, <4>3
    <3> QED BY <1>3, <2>2, <3>1 DEF Missed!IInv, Missed!Told, Missed!NothingOf
  <2> QED BY <1>3, <2>1, <2>2 DEF Missed!NothingOf
<1> QED BY <1>8, <1>9, <1>10, <1>11, <1>13, <1>14 DEF Missed!IInv

\* Having read everything anew the client holds what there is.
LEMMA MissedResync ==
    ASSUME Missed!CatchUpAssumption, Missed!IInv, Missed!Call, Missed!Resync
    PROVE  Missed!IInv'
<1>1. /\ client' = [cursor |-> now - CatchUpLag, known |-> live]
      /\ UNCHANGED <<now, live, began, events>> /\ calls' \in 0..CatchUpCalls
      /\ lost' = {e.of : e \in {f \in Missed!Logged : f.at > now - CatchUpLag /\ Missed!Overtaken(f)}}
  BY DEF Missed!Call, Missed!Resync, Missed!IInv, Missed!TypeOK, Missed!CatchUpAssumption
<1>2. now \in Int /\ CatchUpLag \in Nat
  BY DEF Missed!IInv, Missed!TypeOK, Missed!CatchUpAssumption
<1>3. \A e \in events : e.at \in Int /\ e.id \in Int /\ e.of \in CatchUpEntities
  BY DEF Missed!IInv, Missed!Numbered
<1>4. Missed!TypeOK'
  <2>1. lost' \subseteq CatchUpEntities
    BY <1>1, <1>3 DEF Missed!Logged
  <2> QED BY <1>1, <1>2, <2>1 DEF Missed!IInv, Missed!TypeOK
<1>5. Missed!Numbered' /\ Missed!LastTells'
  BY <1>1 DEF Missed!IInv, Missed!Numbered, Missed!LastTells
<1>6. Missed!Behind'
  BY <1>1, <1>2 DEF Missed!Behind
<1>7. Missed!Ordered'
  <2>1. ASSUME NEW e \in Missed!Logged, NEW f \in events, e.of = f.of, e.of \notin lost', e.id < f.id,
               e.at > now - CatchUpLag
        PROVE  e.at <= f.at
    <3>1. ~Missed!Overtaken(e)
      BY <1>1, <2>1
    <3>2. e \in events
      BY DEF Missed!Logged
    <3> QED BY <1>3, <2>1, <3>1, <3>2 DEF Missed!Overtaken
  <2>2. UNCHANGED Missed!Logged
    BY <1>1 DEF Missed!Logged
  <2> QED BY <1>1, <2>1, <2>2 DEF Missed!Ordered, Missed!IInv
<1>8. Missed!Told'
  BY <1>1 DEF Missed!Told
<1> QED BY <1>4, <1>5, <1>6, <1>7, <1>8 DEF Missed!IInv

\* The greatest of some changes' dates, and the cursor that is never past the lag.
LEMMA MissedCursor ==
    ASSUME Missed!CatchUpAssumption, Missed!IInv, NEW S, S \subseteq Nat, IsFiniteSet(S), S # {}
    PROVE  LET c == Missed!CursorPast(client.cursor, Missed!Max(S)) IN
           c \in Int /\ c >= client.cursor /\ (c = client.cursor \/ c <= now - CatchUpLag)
<1>1. PICK m \in S : \A n \in S : n <= m
  BY GreatestNumber
<1>2. Missed!Max(S) \in Int
  <2>1. \E n \in S : \A k \in S : n >= k
    BY <1>1
  <2>2. Missed!Max(S) \in S
    BY <2>1, Zenon DEF Missed!Max
  <2>3. \A n \in S : n \in Int
    OBVIOUS
  <2> QED BY <2>2, <2>3, Zenon
<1> DEFINE last == Missed!Max(S)
           until == Missed!Min({last, now - CatchUpLag})
<1>3. now \in Int /\ CatchUpLag \in Nat /\ client.cursor \in Int
  BY DEF Missed!IInv, Missed!TypeOK, Missed!CatchUpAssumption
<1>4. last \in Int
  BY <1>2
<1> HIDE DEF last
<1>5. until \in Int /\ until <= now - CatchUpLag
  <2>1. \E n \in {last, now - CatchUpLag} : \A k \in {last, now - CatchUpLag} : n <= k
    BY <1>3, <1>4
  <2>2. until \in {last, now - CatchUpLag} /\ \A k \in {last, now - CatchUpLag} : until <= k
    BY <2>1, Zenon DEF Missed!Min
  <2> QED BY <1>3, <1>4, <2>2
<1> HIDE DEF until
<1> DEFINE c == Missed!Max({client.cursor, until})
<1>6. c \in {client.cursor, until} /\ c >= client.cursor
  <2>1. \E n \in {client.cursor, until} : \A k \in {client.cursor, until} : n >= k
    BY <1>3, <1>5
  <2>2. c \in {client.cursor, until} /\ \A k \in {client.cursor, until} : c >= k
    BY <2>1, Zenon DEF Missed!Max
  <2> QED BY <2>2
<1>7. Missed!CursorPast(client.cursor, Missed!Max(S)) = c
  BY DEF Missed!CursorPast, last, until
<1> HIDE DEF c
<1> QED BY <1>3, <1>5, <1>6, <1>7

\* The last change of a row that is not lost is the one that was logged last: it says whether there
\* is the row.
LEMMA MissedLatest ==
    ASSUME Missed!IInv, client.cursor \in Int, NEW x \in CatchUpEntities \ lost, NEW e \in Missed!Logged,
           e.of = x, e.at > client.cursor
    PROVE  \E last \in Missed!Latest(client.cursor) :
              /\ last.of = x /\ (x \in live) = (last.action # "delete")
              /\ \A f \in Missed!Latest(client.cursor) : f.of = x => f = last
<1>1. \A f \in events : f.at \in Int /\ f.id \in Int
  BY DEF Missed!IInv, Missed!Numbered
<1>2. e \in events
  BY DEF Missed!Logged
<1>3. PICK last \in events : /\ last.of = x /\ (x \in live) = (last.action # "delete")
                             /\ \A f \in events : f.of = x => f.id <= last.id
  BY <1>2 DEF Missed!IInv, Missed!LastTells
<1>4. \A f, g \in events : f.id = g.id => f = g
  BY DEF Missed!IInv, Missed!Numbered
<1>5. ASSUME NEW f \in Missed!Logged, f.of = x, f.at > client.cursor
      PROVE  f \in events /\ (f = last \/ (f.id < last.id /\ f.at <= last.at))
  <2>1. f \in events
    BY DEF Missed!Logged
  <2>2. f.id <= last.id
    BY <1>3, <1>5, <2>1
  <2>3. CASE f.id = last.id
    BY <1>4, <2>1, <2>3
  <2>4. CASE f.id < last.id
    BY <1>3, <1>5, <2>1, <2>4 DEF Missed!IInv, Missed!Ordered
  <2> QED BY <1>1, <2>1, <2>2, <2>3, <2>4
<1>6. last \in Missed!Logged /\ last.at > client.cursor
  <2>1. CASE e = last
    BY <2>1
  <2>2. CASE e # last
    <3>1. e.id < last.id /\ e.at <= last.at
      BY <1>5, <2>2
    <3>2. last.kept
      BY <3>1 DEF Missed!IInv, Missed!Ordered
    <3> QED BY <1>1, <1>2, <3>1, <3>2 DEF Missed!Logged
  <2> QED BY <2>1, <2>2
<1>7. last \in Missed!Latest(client.cursor)
  <2>1. ASSUME NEW f \in Missed!Logged, f.of = x, f.at > client.cursor PROVE Missed!Later(last, f)
    <3>1. f.at \in Int /\ f.id \in Int /\ last.at \in Int /\ last.id \in Int
      BY <1>1, <1>5, <2>1
    <3> QED BY <1>5, <2>1, <3>1 DEF Missed!Later
  <2> QED BY <1>3, <1>6, <2>1 DEF Missed!Latest
<1>8. ASSUME NEW f \in Missed!Latest(client.cursor), f.of = x PROVE f = last
  <2>1. f \in Missed!Logged /\ f.at > client.cursor /\ Missed!Later(f, last)
    BY <1>3, <1>6, <1>8 DEF Missed!Latest
  <2>2. f.at \in Int /\ f.id \in Int /\ last.at \in Int /\ last.id \in Int
    BY <1>1, <1>5, <1>8, <2>1
  <2> QED BY <1>5, <1>8, <2>1, <2>2 DEF Missed!Later
<1> QED BY <1>3, <1>7, <1>8

\* A client is told of the last change of each row.
LEMMA MissedCatchUp ==
    ASSUME Missed!CatchUpAssumption, Missed!IInv, Missed!Call, Missed!CatchUp
    PROVE  Missed!IInv'
<1> DEFINE latest == Missed!Latest(client.cursor)
           fetched == {e.of : e \in {f \in latest : \/ f.action # "delete" /\ f.of \in client.known
                                                    \/ f.action = "insert"}}
           dropped == {e.of : e \in {f \in latest : f.action = "delete"}} \cap client.known
           cursor == Missed!CursorPast(client.cursor, Missed!Max({e.at : e \in latest}))
<1>1. /\ client.cursor = 0 \/ client.cursor >= now - CatchUpRetention
      /\ latest # {}
      /\ client' = [cursor |-> cursor, known |-> (client.known \cup fetched) \ dropped]
      /\ lost' = lost \cup {e.of : e \in {f \in latest : f.action = "update" /\
                                                         f.of \notin client.known}}
  BY DEF Missed!CatchUp
<1>2. UNCHANGED <<now, live, began, events>> /\ calls' \in 0..CatchUpCalls
  BY DEF Missed!Call, Missed!IInv, Missed!TypeOK, Missed!CatchUpAssumption
<1>3. now \in Int /\ CatchUpLag \in Nat /\ client.cursor \in Int /\ client.known \subseteq CatchUpEntities
  BY DEF Missed!IInv, Missed!TypeOK, Missed!CatchUpAssumption
<1>4. latest \subseteq Missed!Logged /\ Missed!Logged \subseteq events
  BY DEF Missed!Latest, Missed!Logged
<1>5. /\ \A e \in events : e.at \in 1..now /\ e.id \in Int /\ e.of \in CatchUpEntities
      /\ \A e \in events : e.action \in {"insert", "update", "delete"}
  BY DEF Missed!IInv, Missed!Numbered
<1>6. cursor \in Int /\ cursor >= client.cursor /\ (cursor = client.cursor \/ cursor <= now - CatchUpLag)
  <2> DEFINE S == {e.at : e \in latest}
  <2>1. S \subseteq 1..now /\ S # {}
    BY <1>1, <1>4, <1>5
  <2>2. S \subseteq Nat
    BY <1>3, <2>1
  <2>3. IsFiniteSet(S)
    <3> HIDE DEF S
    <3>1. IsFiniteSet(1..now)
      BY <1>3, FS_Interval
    <3> QED BY <2>1, <3>1, FS_Subset
  <2> HIDE DEF S
  <2>4. cursor = Missed!CursorPast(client.cursor, Missed!Max(S))
    BY DEF S
  <2> HIDE DEF cursor
  <2> QED BY <2>1, <2>2, <2>3, <2>4, MissedCursor
<1> HIDE DEF latest, cursor
<1>7. client'.cursor = cursor /\ client'.known = (client.known \cup fetched) \ dropped
  BY <1>1
<1>8. Missed!TypeOK'
  <2>1. lost' \subseteq CatchUpEntities /\ fetched \subseteq CatchUpEntities
    BY <1>1, <1>4, <1>5 DEF Missed!IInv, Missed!TypeOK
  <2> HIDE DEF fetched, dropped
  <2> QED BY <1>2, <1>3, <1>6, <1>7, <2>1 DEF Missed!IInv, Missed!TypeOK
<1>9. Missed!Numbered' /\ Missed!LastTells'
  BY <1>2 DEF Missed!IInv, Missed!Numbered, Missed!LastTells
<1>10. Missed!Behind'
  BY <1>2, <1>6, <1>7 DEF Missed!Behind, Missed!IInv
<1>11. UNCHANGED Missed!Logged /\ lost \subseteq lost'
  BY <1>1, <1>2 DEF Missed!Logged
<1>12. Missed!Ordered'
  <2>1. \A e \in events : e.at > cursor => e.at > client.cursor
    BY <1>3, <1>5, <1>6
  <2> HIDE DEF fetched, dropped
  <2> QED BY <1>2, <1>4, <1>7, <1>11, <2>1 DEF Missed!IInv, Missed!Ordered
<1>13. ASSUME NEW x \in CatchUpEntities \ lost' PROVE (x \in live) = (x \in client'.known)
  <2>1. x \in CatchUpEntities \ lost
    BY <1>11
  <2>2. CASE \A e \in Missed!Logged : e.of = x => e.at <= client.cursor
    <3>1. Missed!NothingOf(x)
      BY <1>1, <2>2 DEF Missed!NothingOf
    <3>2. (x \in live) = (x \in client.known)
      BY <2>1, <3>1 DEF Missed!IInv, Missed!Told
    <3>3. ASSUME NEW e \in latest, e.of = x PROVE FALSE
      <4>1. e.at > client.cursor /\ e \in Missed!Logged /\ e.at \in Int
        BY <1>4, <1>5 DEF latest, Missed!Latest
      <4> QED BY <1>3, <2>2, <3>3, <4>1
    <3>4. x \notin fetched /\ x \notin dropped
      BY <3>3
    <3> HIDE DEF fetched, dropped
    <3> QED BY <1>7, <3>2, <3>4
  <2>3. CASE \E e \in Missed!Logged : e.of = x /\ ~(e.at <= client.cursor)
    <3>1. PICK e \in Missed!Logged : e.of = x /\ e.at > client.cursor
      BY <1>3, <1>4, <1>5, <2>3
    <3>2. PICK last \in latest : /\ last.of = x /\ (x \in live) = (last.action # "delete")
                                 /\ \A f \in latest : f.of = x => f = last
      BY <1>3, <2>1, <3>1, MissedLatest DEF latest
    <3>3. last.action \in {"insert", "update", "delete"}
      BY <1>4, <1>5
    <3>4. last.action = "update" => x \in client.known
      BY <1>1, <3>2
    <3>5. x \in fetched <=> \/ last.action # "delete" /\ x \in client.known
                            \/ last.action = "insert"
      BY <3>2
    <3>6. x \in dropped <=> last.action = "delete" /\ x \in client.known
      BY <3>2
    <3> HIDE DEF fetched, dropped
    <3> QED BY <1>7, <3>2, <3>3, <3>4, <3>5, <3>6
  <2> QED BY <2>2, <2>3
<1>14. Missed!Told'
  BY <1>2, <1>13 DEF Missed!Told
<1> QED BY <1>8, <1>9, <1>10, <1>12, <1>14 DEF Missed!IInv

\* Each step keeps the invariant.
LEMMA MissedSteps ==
    ASSUME Missed!CatchUpAssumption, Missed!IInv, [Missed!Next]_(Missed!catchUpVars)
    PROVE  Missed!IInv'
<1>1. CASE Missed!Tick
  BY <1>1, MissedTick
<1>2. CASE Missed!Cleanup
  BY <1>2, MissedCleanup
<1>3. ASSUME UNCHANGED <<now, live, began, events, client, lost>>, calls' \in 0..CatchUpCalls
      PROVE  Missed!IInv'
  BY <1>3 DEF Missed!IInv, Missed!TypeOK, Missed!Numbered, Missed!LastTells, Missed!Behind, Missed!Ordered,
     Missed!Logged, Missed!Told, Missed!NothingOf
<1>4. CASE Missed!Call
  <2>1. CASE Missed!Resync
    BY <1>4, <2>1, MissedResync
  <2>2. CASE Missed!Nothing
    BY <1>3, <1>4, <2>2 DEF Missed!Call, Missed!Nothing, Missed!IInv, Missed!TypeOK, Missed!CatchUpAssumption
  <2>3. CASE Missed!CatchUp
    BY <1>4, <2>3, MissedCatchUp
  <2> QED BY <1>4, <2>1, <2>2, <2>3 DEF Missed!Call
<1>5. CASE UNCHANGED Missed!catchUpVars
  BY <1>3, <1>5 DEF Missed!catchUpVars, Missed!IInv, Missed!TypeOK
<1>6. CASE \E w \in CatchUpWriters : Missed!Begin(w)
  BY <1>6, MissedBegin
<1>7. CASE \E w \in CatchUpWriters : \E x \in CatchUpEntities, action \in {"insert", "update", "delete"} :
              Missed!Commit(w, x, action)
  BY <1>7, MissedCommit
<1> QED BY <1>1, <1>2, <1>4, <1>5, <1>6, <1>7 DEF Missed!Next

\* From the invariant: a row behind the cursor is held exactly when there is one.
LEMMA MissedKept ==
    ASSUME Missed!IInv
    PROVE  Missed!RowsCaughtUp
BY DEF Missed!IInv, Missed!Told, Missed!NothingOf, Missed!RowsCaughtUp

\* The variables of RealtimeChannels.
grants == v8
request == v9
settled == v10
walk == v2
USE DEF grants, request, settled, walk

-----------------------------------------------------------------------------
(* Grants of a channel and their listing (realtime: src/db/grants.ts,         *)
(* src/capability/wire.ts).                                                   *)

\* The finiteness and the count of the module's own FiniteSets.
LEMMA GrantsSets ==
    /\ \A S : Grants!Cardinality(S) = Cardinality(S)
    /\ \A S : Grants!IsFiniteSet(S) <=> IsFiniteSet(S)
<1>1. \A S : Grants!Cardinality(S) = Cardinality(S)
  BY Zenon DEF Grants!Cardinality, Cardinality
<1>2. \A S : Grants!IsFiniteSet(S) <=> IsFiniteSet(S)
  BY DEF Grants!IsFiniteSet, IsFiniteSet
<1> QED BY <1>1, <1>2

\* The lowest numbers of a set have all that are lower, and are all of it when they are fewer than
\* could be or it has no more.
LEMMA GrantsFirst ==
    ASSUME NEW S, S \subseteq Nat, IsFiniteSet(S), NEW n \in Nat
    PROVE  /\ Grants!FirstOf(S, n) \subseteq S
           /\ \A a \in S, b \in Grants!FirstOf(S, n) : a <= b => a \in Grants!FirstOf(S, n)
           /\ Cardinality(Grants!FirstOf(S, n)) < n => Grants!FirstOf(S, n) = S
           /\ Cardinality(S) <= n => Grants!FirstOf(S, n) = S
<1> DEFINE Below(a) == {b \in S : b < a}
           F == Grants!FirstOf(S, n)
<1>1. F \subseteq S /\ \A a \in S : a \in F <=> Cardinality(Below(a)) < n
  BY GrantsSets DEF Grants!FirstOf
<1>2. \A a \in S : /\ a \in Nat /\ Below(a) \subseteq S /\ a \notin Below(a) /\ IsFiniteSet(Below(a))
                   /\ Cardinality(Below(a)) \in Nat
  BY FS_Subset, FS_CardinalityType
<1> HIDE DEF F
<1>3. F \subseteq S /\ IsFiniteSet(F) /\ Cardinality(F) \in Nat /\ Cardinality(S) \in Nat
  BY <1>1, FS_Subset, FS_CardinalityType
<1>4. ASSUME NEW a \in S, NEW b \in F, a <= b PROVE a \in F
  <2>1. a \in Nat /\ b \in Nat /\ b \in S
    BY <1>2, <1>3
  <2>2. ASSUME NEW d \in Below(a) PROVE d \in Below(b)
    <3>1. d \in Nat /\ d < a /\ d \in S
      BY <1>2
    <3> QED BY <1>4, <2>1, <3>1
  <2> HIDE DEF Below
  <2>3. Cardinality(Below(a)) <= Cardinality(Below(b))
    BY <1>2, <2>1, <2>2, FS_Subset
  <2> QED BY <1>1, <1>2, <2>1, <2>3
<1>5. ASSUME Cardinality(F) < n PROVE F = S
  <2> SUFFICES ASSUME S \ F # {} PROVE FALSE
    BY <1>3
  <2>1. PICK y \in S \ F : \A z \in S \ F : y <= z
    <3>1. S \ F \subseteq Nat
      OBVIOUS
    <3> QED BY <3>1, LeastNumber
  <2>2. ASSUME NEW b \in Below(y) PROVE b \in F
    <3>1. b \in S /\ b \in Nat /\ y \in Nat /\ b < y
      BY <1>2, <2>1
    <3>2. ~(y <= b)
      BY <3>1
    <3> QED BY <2>1, <3>1, <3>2
  <2> HIDE DEF Below
  <2>3. Cardinality(Below(y)) <= Cardinality(F)
    BY <1>3, <2>2, FS_Subset
  <2>4. ~(Cardinality(Below(y)) < n) /\ Cardinality(Below(y)) \in Nat
    BY <1>1, <1>2, <2>1
  <2> QED BY <1>3, <1>5, <2>3, <2>4
<1>6. ASSUME Cardinality(S) <= n PROVE F = S
  <2> SUFFICES ASSUME NEW a \in S PROVE a \in F
    BY <1>3
  <2>1. Below(a) \subseteq S /\ Below(a) # S /\ Cardinality(Below(a)) \in Nat
    BY <1>2
  <2> HIDE DEF Below
  <2>2. Cardinality(Below(a)) < Cardinality(S)
    BY <1>3, <2>1, FS_Subset
  <2> QED BY <1>1, <1>3, <1>6, <2>1, <2>2
<1> QED BY <1>1, <1>4, <1>5, <1>6 DEF F

\* A page has what was granted and is above the last answered up to its own last, and all of it when
\* it is not full.
LEMMA GrantsPage ==
    ASSUME Grants!ChannelAssumption, NEW c, NEW after \in Nat
    PROVE  LET page == Grants!Page(c, after) IN
           /\ page.accounts \subseteq GrantAccounts /\ page.last \in Nat
           /\ \A a \in GrantAccounts : <<c, a>> \in grants /\ a > after =>
                 /\ a <= page.last => a \in page.accounts
                 /\ ~page.full => a \in page.accounts
<1> DEFINE S == {a \in GrantAccounts : <<c, a>> \in grants /\ a > after}
           met == Grants!FirstOf(S, GrantPageSize + 1)
           listed == Grants!FirstOf(met, GrantPageSize)
           last == IF listed = {} THEN after ELSE Grants!Max(listed)
           page == Grants!Page(c, after)
<1>1. GrantAccounts \subseteq Nat /\ IsFiniteSet(GrantAccounts) /\ GrantPageSize \in Nat \ {0}
  <2>1. IsFiniteSet(GrantAccounts)
    BY GrantsSets DEF Grants!ChannelAssumption
  <2> QED BY <2>1 DEF Grants!ChannelAssumption
<1>2. S \subseteq GrantAccounts /\ S \subseteq Nat /\ IsFiniteSet(S)
  <2>1. S \subseteq GrantAccounts
    OBVIOUS
  <2> HIDE DEF S
  <2> QED BY <1>1, <2>1, FS_Subset
<1>3. page.accounts = listed /\ page.last = last /\ page.full = (Cardinality(met) > GrantPageSize)
  BY GrantsSets DEF Grants!Page
<1> HIDE DEF S, page
<1>4. /\ met \subseteq S
      /\ \A a \in S, b \in met : a <= b => a \in met
      /\ Cardinality(met) < GrantPageSize + 1 => met = S
  <2>1. GrantPageSize + 1 \in Nat
    BY <1>1
  <2> QED BY <1>2, <2>1, GrantsFirst
<1>5. IsFiniteSet(met) /\ met \subseteq Nat /\ Cardinality(met) \in Nat
  <2> HIDE DEF met
  <2> QED BY <1>2, <1>4, FS_Subset, FS_CardinalityType
<1> HIDE DEF met
<1>6. /\ listed \subseteq met
      /\ \A a \in met, b \in listed : a <= b => a \in listed
      /\ Cardinality(met) <= GrantPageSize => listed = met
  BY <1>1, <1>5, GrantsFirst
<1> HIDE DEF listed
<1>7. listed # {} => last \in listed
  <2> SUFFICES ASSUME listed # {} PROVE Grants!Max(listed) \in listed
    OBVIOUS
  <2>1. IsFiniteSet(listed) /\ listed \subseteq Nat
    BY <1>5, <1>6, FS_Subset
  <2>2. \E m \in listed : \A k \in listed : k <= m
    BY <2>1, GreatestNumber
  <2>3. \E m \in listed : \A k \in listed : m >= k
    BY <2>1, <2>2
  <2> QED BY <2>3 DEF Grants!Max
<1>8. last \in Nat
  BY <1>5, <1>6, <1>7
<1>9. ASSUME NEW a \in S
      PROVE  /\ a <= last => a \in listed
             /\ ~(Cardinality(met) > GrantPageSize) => a \in listed
  <2>1. a \in Nat /\ a > after
    BY <1>2 DEF S
  <2>2. a <= last => a \in listed
    <3> SUFFICES ASSUME a <= last PROVE a \in listed
      OBVIOUS
    <3>1. last \in listed /\ last \in met
      BY <1>6, <1>7, <2>1
    <3> HIDE DEF last
    <3> QED BY <1>4, <1>6, <3>1
  <2>3. ~(Cardinality(met) > GrantPageSize) => a \in listed
    BY <1>1, <1>4, <1>5, <1>6
  <2> QED BY <2>2, <2>3
<1>10. page.accounts \subseteq GrantAccounts
  BY <1>2, <1>3, <1>4, <1>6
<1>11. \A a \in GrantAccounts : <<c, a>> \in grants /\ a > after => a \in S
  BY DEF S
<1> HIDE DEF last
<1> QED BY <1>3, <1>8, <1>9, <1>10, <1>11 DEF page

\* What a request is, by what it asks.
LEMMA GrantsRequest ==
    ASSUME Grants!Asked, NEW r \in GrantRequests
    PROVE  /\ request[r].on \in Grants!Granted /\ DOMAIN request[r].of \subseteq GrantAccounts
           /\ request[r].op \in {"none", "grant", "revoke", "revokeAll"}
           /\ request[r].of \in [DOMAIN request[r].of -> Grants!StepsOf[request[r].op]]
           /\ request[r] = [op |-> request[r].op, on |-> request[r].on, of |-> request[r].of]
           /\ request[r].op = "none" => request[r] = Grants!Idle
<1>1. PICK op \in DOMAIN Grants!StepsOf, c \in Grants!Granted, who \in SUBSET GrantAccounts :
        /\ request[r] \in [op : {op}, on : {c}, of : [who -> Grants!StepsOf[op]]]
        /\ op = "none" => request[r] = Grants!Idle
  BY DEF Grants!Asked
<1>2. DOMAIN Grants!StepsOf = {"none", "grant", "revoke", "revokeAll"}
  BY DEF Grants!StepsOf
<1> QED BY <1>1, <1>2

\* A request that goes a step on with one account leaves the others as they were.
LEMMA GrantsOne ==
    ASSUME Grants!ChannelAssumption, Grants!Asked, Grants!Settling, NEW r \in GrantRequests,
           NEW a \in DOMAIN request[r].of, NEW step \in Grants!StepsOf[request[r].op],
           NEW c, c = request[r].on, settled' = settled,
           request' = [request EXCEPT ![r].of[a] = step],
           grants' = grants \/ grants' = grants \cup {<<c, a>>} \/ grants' = grants \ {<<c, a>>},
           Grants!OnItsWay(r, <<c, a>>)'
    PROVE  Grants!Asked' /\ Grants!Settling'
<1>1. /\ c \in Grants!Granted /\ a \in GrantAccounts /\ DOMAIN request[r].of \subseteq GrantAccounts
      /\ request[r].op \in {"none", "grant", "revoke", "revokeAll"}
      /\ request[r].of \in [DOMAIN request[r].of -> Grants!StepsOf[request[r].op]]
      /\ request[r].op = "none" => request[r] = Grants!Idle
      /\ request[r] = [op |-> request[r].op, on |-> c, of |-> request[r].of]
  BY GrantsRequest
<1>2. request[r].op # "none"
  BY <1>1 DEF Grants!Idle
<1>3. /\ request'[r].op = request[r].op /\ request'[r].on = c
      /\ request'[r].of = [request[r].of EXCEPT ![a] = step]
      /\ request'[r] = [op |-> request[r].op, on |-> c, of |-> [request[r].of EXCEPT ![a] = step]]
      /\ DOMAIN request' = GrantRequests
      /\ \A s \in GrantRequests : s # r => request'[s] = request[s]
  BY <1>1 DEF Grants!Asked
<1>4. Grants!Asked'
  <2>1. [request[r].of EXCEPT ![a] = step] \in [DOMAIN request[r].of -> Grants!StepsOf[request[r].op]]
    BY <1>1
  <2>2. ASSUME NEW s \in GrantRequests
        PROVE  \E op \in DOMAIN Grants!StepsOf, d \in Grants!Granted, who \in SUBSET GrantAccounts :
                  /\ request'[s] \in [op : {op}, on : {d}, of : [who -> Grants!StepsOf[op]]]
                  /\ op = "none" => request'[s] = Grants!Idle
    <3>1. CASE s = r
      <4>1. request[r].op \in DOMAIN Grants!StepsOf
        BY <1>1 DEF Grants!StepsOf
      <4>2. request'[r] \in [op : {request[r].op}, on : {c}, of : [DOMAIN request[r].of -> Grants!StepsOf[request[r].op]]]
        BY <1>3, <2>1
      <4> QED BY <1>1, <1>2, <3>1, <4>1, <4>2
    <3>2. CASE s # r
      BY <1>3, <3>2 DEF Grants!Asked
    <3> QED BY <3>1, <3>2
  <2>3. grants' \subseteq Grants!Granted \X GrantAccounts
    BY <1>1 DEF Grants!Asked
  <2> QED BY <1>3, <2>2, <2>3 DEF Grants!Asked
<1>5. \A s \in GrantRequests : \A d, b : Grants!Touches(s, d, b)' = Grants!Touches(s, d, b)
  BY <1>1, <1>3 DEF Grants!Touches
<1>6. Grants!Touches(r, c, a)
  BY <1>1, <1>2 DEF Grants!Touches
<1>7. ASSUME NEW g \in Grants!Granted \X GrantAccounts
      PROVE  /\ settled'[g] = "in" => g \in grants'
             /\ settled'[g] = "out" => g \notin grants'
             /\ \A s \in GrantRequests : Grants!Touches(s, g[1], g[2])' =>
                 /\ settled'[g] \in {"open", "raced"}
                 /\ settled'[g] = "open" => Grants!OnItsWay(s, g)'
                 /\ \A other \in GrantRequests \ {s} : Grants!Touches(other, g[1], g[2])' => settled'[g] = "raced"
  <2>1. g = <<g[1], g[2]>>
    OBVIOUS
  <2>2. ASSUME NEW s \in GrantRequests, Grants!Touches(s, g[1], g[2])'
        PROVE  /\ settled'[g] \in {"open", "raced"}
               /\ \A other \in GrantRequests \ {s} : Grants!Touches(other, g[1], g[2])' => settled'[g] = "raced"
    BY <1>5, <2>2 DEF Grants!Settling
  <2>3. CASE g = <<c, a>>
    <3>1. settled[g] \in {"open", "raced"}
      BY <1>6, <2>3 DEF Grants!Settling
    <3>2. ASSUME NEW s \in GrantRequests, Grants!Touches(s, g[1], g[2])', settled'[g] = "open"
          PROVE  Grants!OnItsWay(s, g)'
      <4>1. s = r
        BY <1>5, <1>6, <2>3, <3>2 DEF Grants!Settling
      <4> QED BY <2>3, <4>1
    <3> QED BY <2>2, <3>1, <3>2
  <2>4. CASE g # <<c, a>>
    <3>1. (g \in grants') = (g \in grants)
      BY <2>4
    <3>2. ASSUME NEW s \in GrantRequests, Grants!Touches(s, g[1], g[2])', settled'[g] = "open"
          PROVE  Grants!OnItsWay(s, g)'
      <4>1. Grants!OnItsWay(s, g) /\ Grants!Touches(s, g[1], g[2])
        BY <1>5, <3>2 DEF Grants!Settling
      <4>2. request'[s].op = request[s].op /\ request'[s].of[g[2]] = request[s].of[g[2]]
        BY <1>1, <1>3, <2>1, <2>4, <4>1 DEF Grants!Touches
      <4> QED BY <3>1, <4>1, <4>2 DEF Grants!OnItsWay
    <3>3. /\ settled[g] = "in" => g \in grants
          /\ settled[g] = "out" => g \notin grants
      BY DEF Grants!Settling
    <3> QED BY <2>2, <3>1, <3>2, <3>3
  <2> QED BY <2>3, <2>4
<1> QED BY <1>4, <1>7 DEF Grants!Settling

\* A listing that is under way loses those who are revoked.
LEMMA GrantsListed ==
    ASSUME Grants!Walking, NEW granted, Grants!NowGranted(granted)
    PROVE  Grants!Walking' /\ grants' = granted
<1>1. /\ walk'.on = walk.on /\ walk'.after = walk.after /\ walk'.got = walk.got /\ grants' = granted
      /\ walk'.stayed = {a \in walk.stayed : <<walk.on, a>> \in granted}
      /\ walk' \in [on : Grants!Granted \cup {"none", "ended"}, after : Nat, got : SUBSET GrantAccounts,
                    stayed : SUBSET GrantAccounts]
  BY DEF Grants!NowGranted, Grants!Walking
<1>2. \A b \in walk'.stayed : b \in walk.stayed /\ <<walk.on, b>> \in granted
  BY <1>1
<1>3. walk.on = "ended" => walk'.stayed \subseteq walk.got
  BY <1>2 DEF Grants!Walking
<1>4. walk.on \in Grants!Granted => \A b \in walk'.stayed : <<walk.on, b>> \in granted /\ (b <= walk.after => b \in walk.got)
  BY <1>2 DEF Grants!Walking
<1>5. walk'.on \in Grants!Granted =>
        \A b \in walk'.stayed : <<walk'.on, b>> \in grants' /\ (b <= walk'.after => b \in walk'.got)
  BY <1>1, <1>4
<1>6. walk'.on = "ended" => walk'.stayed \subseteq walk'.got
  BY <1>1, <1>3
<1> QED BY <1>1, <1>5, <1>6 DEF Grants!Walking

\* Nothing is granted, asked or listed.
LEMMA GrantsStarts ==
    ASSUME Grants!ChannelAssumption, Grants!Init
    PROVE  Grants!GrantsInv
<1>1. Grants!Asked
  <2>1. ASSUME NEW r \in GrantRequests
        PROVE  \E op \in DOMAIN Grants!StepsOf, c \in Grants!Granted, who \in SUBSET GrantAccounts :
                  /\ request[r] \in [op : {op}, on : {c}, of : [who -> Grants!StepsOf[op]]]
                  /\ op = "none" => request[r] = Grants!Idle
    <3>1. request[r] \in [op : {"none"}, on : {"all"}, of : [{} -> Grants!StepsOf["none"]]]
      BY DEF Grants!Init, Grants!Idle
    <3>2. "none" \in DOMAIN Grants!StepsOf /\ "all" \in Grants!Granted
      BY DEF Grants!StepsOf, Grants!Granted
    <3> QED BY <3>1, <3>2 DEF Grants!Init
  <2> QED BY <2>1 DEF Grants!Init, Grants!Asked
<1>2. Grants!Settling
  BY DEF Grants!Init, Grants!Settling, Grants!Touches, Grants!Idle
<1>3. Grants!Walking
  BY DEF Grants!Init, Grants!Walking, Grants!NoWalk, Grants!Granted
<1> QED BY <1>1, <1>2, <1>3 DEF Grants!GrantsInv

\* A request that begins finds out whether another is about the same.
LEMMA GrantsBegin ==
    ASSUME Grants!ChannelAssumption, Grants!GrantsInv, NEW r \in GrantRequests,
           NEW op \in {"grant", "revoke", "revokeAll"}, NEW c \in Grants!Granted,
           NEW who \in SUBSET GrantAccounts, Grants!Begin(r, op, c, who)
    PROVE  Grants!GrantsInv'
<1> DEFINE first == Grants!FirstStep[op]
<1>1. /\ request[r] = Grants!Idle /\ grants' = grants /\ walk' = walk
      /\ request' = [request EXCEPT ![r] = [op |-> op, on |-> c, of |-> [a \in who |-> first]]]
      /\ settled' = [g \in Grants!Granted \X GrantAccounts |->
                        IF g[1] # c \/ g[2] \notin who THEN settled[g]
                        ELSE IF \E other \in GrantRequests : Grants!Touches(other, c, g[2]) THEN "raced"
                        ELSE "open"]
  BY DEF Grants!Begin
<1>2. /\ first \in Grants!StepsOf[op] /\ op \in DOMAIN Grants!StepsOf
      /\ first \notin {"yes", "no"}
  BY DEF Grants!FirstStep, Grants!StepsOf
<1> HIDE DEF first
<1>3. /\ request'[r] = [op |-> op, on |-> c, of |-> [a \in who |-> first]]
      /\ DOMAIN request' = GrantRequests
      /\ \A s \in GrantRequests : s # r => request'[s] = request[s]
  BY <1>1 DEF Grants!GrantsInv, Grants!Asked
<1>4. Grants!Asked'
  <2>1. ASSUME NEW s \in GrantRequests
        PROVE  \E o \in DOMAIN Grants!StepsOf, d \in Grants!Granted, w \in SUBSET GrantAccounts :
                  /\ request'[s] \in [op : {o}, on : {d}, of : [w -> Grants!StepsOf[o]]]
                  /\ o = "none" => request'[s] = Grants!Idle
    <3>1. CASE s = r
      <4>1. request'[r] \in [op : {op}, on : {c}, of : [who -> Grants!StepsOf[op]]]
        BY <1>2, <1>3
      <4> QED BY <1>2, <3>1, <4>1
    <3>2. CASE s # r
      BY <1>3, <3>2 DEF Grants!GrantsInv, Grants!Asked
    <3> QED BY <3>1, <3>2
  <2>2. settled' \in [Grants!Granted \X GrantAccounts -> {"open", "raced", "in", "out"}]
    BY <1>1 DEF Grants!GrantsInv, Grants!Asked
  <2> QED BY <1>1, <1>3, <2>1, <2>2 DEF Grants!GrantsInv, Grants!Asked
<1>5. \A d, b : /\ ~Grants!Touches(r, d, b)
                /\ Grants!Touches(r, d, b)' => d = c /\ b \in who
  BY <1>1, <1>3 DEF Grants!Touches, Grants!Idle
<1>6. \A s \in GrantRequests : \A d, b : s # r => Grants!Touches(s, d, b)' = Grants!Touches(s, d, b)
  BY <1>3 DEF Grants!Touches
<1>7. ASSUME NEW g \in Grants!Granted \X GrantAccounts
      PROVE  /\ settled'[g] = "in" => g \in grants'
             /\ settled'[g] = "out" => g \notin grants'
             /\ \A s \in GrantRequests : Grants!Touches(s, g[1], g[2])' =>
                 /\ settled'[g] \in {"open", "raced"}
                 /\ settled'[g] = "open" => Grants!OnItsWay(s, g)'
                 /\ \A other \in GrantRequests \ {s} : Grants!Touches(other, g[1], g[2])' => settled'[g] = "raced"
  <2>1. ASSUME NEW s \in GrantRequests, s # r, Grants!OnItsWay(s, g) PROVE Grants!OnItsWay(s, g)'
    BY <1>1, <1>3, <2>1 DEF Grants!OnItsWay
  <2>2. CASE g[1] # c \/ g[2] \notin who
    <3>1. settled'[g] = settled[g] /\ ~Grants!Touches(r, g[1], g[2])'
      BY <1>1, <1>5, <2>2
    <3> QED BY <1>1, <1>6, <2>1, <3>1 DEF Grants!GrantsInv, Grants!Settling
  <2>3. CASE g[1] = c /\ g[2] \in who
    <3>1. settled'[g] = IF \E other \in GrantRequests : Grants!Touches(other, g[1], g[2]) THEN "raced"
                        ELSE "open"
      BY <1>1, <2>3
    <3>2. settled'[g] = "open" => \A s \in GrantRequests : Grants!Touches(s, g[1], g[2])' => s = r
      BY <1>6, <3>1
    <3>3. Grants!OnItsWay(r, g)'
      <4>1. request'[r].op = op /\ request'[r].of[g[2]] = first
        BY <1>3, <2>3
      <4> QED BY <1>2, <4>1 DEF Grants!OnItsWay
    <3>4. ASSUME NEW s \in GrantRequests, NEW other \in GrantRequests \ {s},
                 Grants!Touches(s, g[1], g[2])', Grants!Touches(other, g[1], g[2])'
          PROVE  settled'[g] = "raced"
      BY <1>6, <3>1, <3>4
    <3> QED BY <3>1, <3>2, <3>3, <3>4
  <2> QED BY <2>2, <2>3
<1>8. Grants!Walking'
  BY <1>1 DEF Grants!GrantsInv, Grants!Walking
<1> QED BY <1>4, <1>7, <1>8 DEF Grants!GrantsInv, Grants!Settling

\* A grant, the look before a removal and the removal are a step of one account.
LEMMA GrantsGrant ==
    ASSUME Grants!ChannelAssumption, Grants!GrantsInv, NEW r \in GrantRequests,
           NEW a \in DOMAIN request[r].of,
           Grants!Grant(r, a) \/ Grants!LookBefore(r, a) \/ Grants!Revoke(r, a)
    PROVE  Grants!GrantsInv'
<1> PICK c : c = request[r].on
  OBVIOUS
<1>1. /\ request[r].op \in {"none", "grant", "revoke", "revokeAll"}
      /\ request[r].of \in [DOMAIN request[r].of -> Grants!StepsOf[request[r].op]]
      /\ request[r] = [op |-> request[r].op, on |-> c, of |-> request[r].of]
      /\ DOMAIN request = GrantRequests /\ settled' = settled
  BY GrantsRequest DEF Grants!GrantsInv, Grants!Asked, Grants!Grant, Grants!LookBefore, Grants!Revoke
<1>2. /\ request[r].of[a] = "write" => request[r].op = "grant"
      /\ request[r].of[a] \in {"look", "delete"} => request[r].op = "revoke"
  BY <1>1 DEF Grants!StepsOf
<1>3. PICK step \in Grants!StepsOf[request[r].op] :
        /\ request' = [request EXCEPT ![r].of[a] = step]
        /\ request[r].op = "grant" /\ step = "yes" => <<c, a>> \in grants'
        /\ request[r].op = "revoke" /\ step \in {"yes", "no"} => <<c, a>> \notin grants'
        /\ request[r].op \in {"grant", "revoke"}
        /\ \/ grants' = grants /\ walk' = walk
           \/ Grants!NowGranted(grants \cup {<<c, a>>})
           \/ Grants!NowGranted(grants \ {<<c, a>>})
  <2>1. CASE Grants!Grant(r, a)
    <3>1. /\ request[r].op = "grant" /\ {"yes", "refused"} \subseteq Grants!StepsOf[request[r].op]
      BY <1>2, <2>1 DEF Grants!Grant, Grants!StepsOf
    <3> QED BY <2>1, <3>1 DEF Grants!Grant, Grants!To, Grants!NowGranted
  <2>2. CASE Grants!LookBefore(r, a)
    <3>1. /\ request[r].op = "revoke" /\ {"delete", "no", "raised"} \subseteq Grants!StepsOf[request[r].op]
      BY <1>2, <2>2 DEF Grants!LookBefore, Grants!StepsOf
    <3> QED BY <2>2, <3>1 DEF Grants!LookBefore, Grants!To
  <2>3. CASE Grants!Revoke(r, a)
    <3>1. /\ request[r].op = "revoke" /\ {"yes", "no", "refused"} \subseteq Grants!StepsOf[request[r].op]
      BY <1>2, <2>3 DEF Grants!Revoke, Grants!StepsOf
    <3> QED BY <2>3, <3>1 DEF Grants!Revoke, Grants!To, Grants!NowGranted
  <2> QED BY <2>1, <2>2, <2>3
<1>4. Grants!Walking' /\ (\/ grants' = grants \/ grants' = grants \cup {<<c, a>>}
                          \/ grants' = grants \ {<<c, a>>})
  <2>1. CASE grants' = grants /\ walk' = walk
    BY <2>1 DEF Grants!GrantsInv, Grants!Walking
  <2>2. CASE Grants!NowGranted(grants \cup {<<c, a>>})
    BY <2>2, GrantsListed DEF Grants!GrantsInv
  <2>3. CASE Grants!NowGranted(grants \ {<<c, a>>})
    BY <2>3, GrantsListed DEF Grants!GrantsInv
  <2> QED BY <1>3, <2>1, <2>2, <2>3
<1>5. Grants!OnItsWay(r, <<c, a>>)'
  <2>1. request'[r].op = request[r].op /\ request'[r].of[a] = step
    BY <1>1, <1>3
  <2>2. <<c, a>>[2] = a
    OBVIOUS
  <2>3. CASE request[r].op = "grant"
    BY <1>3, <2>1, <2>2, <2>3 DEF Grants!OnItsWay
  <2>4. CASE request[r].op = "revoke"
    BY <1>3, <2>1, <2>2, <2>4 DEF Grants!OnItsWay
  <2> QED BY <1>3, <2>3, <2>4
<1>6. Grants!Asked' /\ Grants!Settling'
  BY <1>1, <1>3, <1>4, <1>5, GrantsOne DEF Grants!GrantsInv
<1> QED BY <1>4, <1>6 DEF Grants!GrantsInv

\* A removal of everybody is one of each.
LEMMA GrantsRevokeAll ==
    ASSUME Grants!ChannelAssumption, Grants!GrantsInv, NEW r \in GrantRequests, Grants!RevokeAll(r)
    PROVE  Grants!GrantsInv'
<1> PICK c : c = request[r].on
  OBVIOUS
<1>1. /\ c \in Grants!Granted /\ request[r].op = "revokeAll" /\ DOMAIN request = GrantRequests
      /\ request[r] = [op |-> "revokeAll", on |-> c, of |-> [a \in GrantAccounts |-> "wipe"]]
      /\ settled' = settled
  BY GrantsRequest DEF Grants!RevokeAll, Grants!GrantsInv, Grants!Asked
<1>2. PICK step \in {"yes", "no", "refused"} :
        /\ request' = [request EXCEPT ![r].of = [a \in GrantAccounts |-> step]]
        /\ \/ step = "refused" /\ grants' = grants /\ walk' = walk
           \/ Grants!NowGranted({g \in grants : g[1] # c})
  BY <1>1 DEF Grants!RevokeAll, Grants!NowGranted
<1>3. /\ request'[r] = [op |-> "revokeAll", on |-> c, of |-> [a \in GrantAccounts |-> step]]
      /\ DOMAIN request' = GrantRequests
      /\ \A s \in GrantRequests : s # r => request'[s] = request[s]
  BY <1>1, <1>2
<1>4. Grants!Walking' /\ \/ step = "refused" /\ grants' = grants
                         \/ grants' = {g \in grants : g[1] # c}
  <2>1. CASE step = "refused" /\ grants' = grants /\ walk' = walk
    BY <2>1 DEF Grants!GrantsInv, Grants!Walking
  <2>2. CASE Grants!NowGranted({g \in grants : g[1] # c})
    BY <2>2, GrantsListed DEF Grants!GrantsInv
  <2> QED BY <1>2, <2>1, <2>2
<1>5. Grants!Asked'
  <2>1. ASSUME NEW s \in GrantRequests
        PROVE  \E op \in DOMAIN Grants!StepsOf, d \in Grants!Granted, who \in SUBSET GrantAccounts :
                  /\ request'[s] \in [op : {op}, on : {d}, of : [who -> Grants!StepsOf[op]]]
                  /\ op = "none" => request'[s] = Grants!Idle
    <3>1. CASE s = r
      <4>1. "revokeAll" \in DOMAIN Grants!StepsOf /\ step \in Grants!StepsOf["revokeAll"]
        BY DEF Grants!StepsOf
      <4>2. request'[r] \in [op : {"revokeAll"}, on : {c}, of : [GrantAccounts -> Grants!StepsOf["revokeAll"]]]
        BY <1>3, <4>1
      <4> QED BY <1>1, <3>1, <4>1, <4>2
    <3>2. CASE s # r
      BY <1>3, <3>2 DEF Grants!GrantsInv, Grants!Asked
    <3> QED BY <3>1, <3>2
  <2>2. grants' \subseteq Grants!Granted \X GrantAccounts
    BY <1>4 DEF Grants!GrantsInv, Grants!Asked
  <2> QED BY <1>1, <1>3, <2>1, <2>2 DEF Grants!GrantsInv, Grants!Asked
<1>6. \A s \in GrantRequests : \A d, b : Grants!Touches(s, d, b)' = Grants!Touches(s, d, b)
  <2>1. \A d, b : Grants!Touches(r, d, b)' = Grants!Touches(r, d, b)
    <3>1. request'[r].op = request[r].op /\ request'[r].on = request[r].on
          /\ DOMAIN request'[r].of = GrantAccounts /\ DOMAIN request[r].of = GrantAccounts
      BY <1>1, <1>3
    <3> QED BY <3>1 DEF Grants!Touches
  <2>2. ASSUME NEW s \in GrantRequests, s # r
        PROVE  \A d, b : Grants!Touches(s, d, b)' = Grants!Touches(s, d, b)
    BY <1>3, <2>2 DEF Grants!Touches
  <2> QED BY <2>1, <2>2
<1>7. ASSUME NEW g \in Grants!Granted \X GrantAccounts
      PROVE  /\ settled'[g] = "in" => g \in grants'
             /\ settled'[g] = "out" => g \notin grants'
             /\ \A s \in GrantRequests : Grants!Touches(s, g[1], g[2])' =>
                 /\ settled'[g] \in {"open", "raced"}
                 /\ settled'[g] = "open" => Grants!OnItsWay(s, g)'
                 /\ \A other \in GrantRequests \ {s} : Grants!Touches(other, g[1], g[2])' => settled'[g] = "raced"
  <2>2. ASSUME NEW s \in GrantRequests, Grants!Touches(s, g[1], g[2])'
        PROVE  /\ settled'[g] \in {"open", "raced"}
               /\ \A other \in GrantRequests \ {s} : Grants!Touches(other, g[1], g[2])' => settled'[g] = "raced"
    BY <1>1, <1>6, <2>2 DEF Grants!GrantsInv, Grants!Settling
  <2>3. CASE g[1] = c
    <3>1. Grants!Touches(r, g[1], g[2])
      BY <1>1, <2>3 DEF Grants!Touches
    <3>2. settled[g] \in {"open", "raced"}
      BY <3>1 DEF Grants!GrantsInv, Grants!Settling
    <3>3. ASSUME NEW s \in GrantRequests, Grants!Touches(s, g[1], g[2])', settled'[g] = "open"
          PROVE  Grants!OnItsWay(s, g)'
      <4>1. s = r
        BY <1>1, <1>6, <3>1, <3>3 DEF Grants!GrantsInv, Grants!Settling
      <4>2. request'[r].op = "revokeAll" /\ request'[r].of[g[2]] = step
        BY <1>3
      <4>3. step = "yes" => g \notin grants'
        BY <1>4, <2>3
      <4> QED BY <4>1, <4>2, <4>3 DEF Grants!OnItsWay
    <3> QED BY <1>1, <2>2, <3>2, <3>3
  <2>4. CASE g[1] # c
    <3>1. (g \in grants') = (g \in grants)
      BY <1>4, <2>4
    <3>2. ASSUME NEW s \in GrantRequests, Grants!Touches(s, g[1], g[2])', settled'[g] = "open"
          PROVE  Grants!OnItsWay(s, g)'
      <4>1. Grants!OnItsWay(s, g) /\ Grants!Touches(s, g[1], g[2])
        BY <1>1, <1>6, <3>2 DEF Grants!GrantsInv, Grants!Settling
      <4>2. request'[s] = request[s]
        BY <1>1, <1>3, <2>4, <4>1 DEF Grants!Touches
      <4> QED BY <3>1, <4>1, <4>2 DEF Grants!OnItsWay
    <3>3. /\ settled[g] = "in" => g \in grants
          /\ settled[g] = "out" => g \notin grants
      BY DEF Grants!GrantsInv, Grants!Settling
    <3> QED BY <1>1, <2>2, <3>1, <3>2, <3>3
  <2> QED BY <2>3, <2>4
<1> QED BY <1>4, <1>5, <1>7 DEF Grants!GrantsInv, Grants!Settling

\* An answer tells of a grant nobody else asked about what its steps left.
LEMMA GrantsAnswer ==
    ASSUME Grants!ChannelAssumption, Grants!GrantsInv, NEW r \in GrantRequests, Grants!Answer(r)
    PROVE  Grants!GrantsInv'
<1> DEFINE q == request[r]
           Alone(g) == \A other \in GrantRequests \ {r} : ~Grants!Touches(other, g[1], g[2])
           Says(g) == IF ~Alone(g) THEN "raced"
                      ELSE IF \/ settled[g] = "raced" \/ ~Grants!Well(q)
                              \/ q.op = "revoke" /\ q.of[g[2]] = "refused" THEN "open"
                      ELSE IF q.op = "grant" THEN "in" ELSE "out"
<1>1. /\ q.op # "none" /\ \A a \in DOMAIN q.of : q.of[a] \notin {"look", "write", "delete", "wipe"}
      /\ request' = [request EXCEPT ![r] = Grants!Idle] /\ grants' = grants /\ walk' = walk
      /\ settled' = [g \in Grants!Granted \X GrantAccounts |->
                        IF Grants!Touches(r, g[1], g[2]) THEN Says(g) ELSE settled[g]]
  BY DEF Grants!Answer
<1>2. /\ q.op \in {"grant", "revoke", "revokeAll"}
      /\ q.of \in [DOMAIN q.of -> Grants!StepsOf[q.op]]
  BY <1>1, GrantsRequest DEF Grants!GrantsInv
<1>3. /\ request'[r] = Grants!Idle /\ DOMAIN request' = GrantRequests
      /\ \A s \in GrantRequests : s # r => request'[s] = request[s]
  BY <1>1 DEF Grants!GrantsInv, Grants!Asked
<1>4. Grants!Asked'
  <2>1. ASSUME NEW s \in GrantRequests
        PROVE  \E op \in DOMAIN Grants!StepsOf, d \in Grants!Granted, who \in SUBSET GrantAccounts :
                  /\ request'[s] \in [op : {op}, on : {d}, of : [who -> Grants!StepsOf[op]]]
                  /\ op = "none" => request'[s] = Grants!Idle
    <3>1. CASE s = r
      <4>1. "none" \in DOMAIN Grants!StepsOf /\ "all" \in Grants!Granted
        BY DEF Grants!StepsOf, Grants!Granted
      <4>2. request'[r] \in [op : {"none"}, on : {"all"}, of : [{} -> Grants!StepsOf["none"]]]
        BY <1>3 DEF Grants!Idle
      <4> QED BY <1>3, <3>1, <4>1, <4>2
    <3>2. CASE s # r
      BY <1>3, <3>2 DEF Grants!GrantsInv, Grants!Asked
    <3> QED BY <3>1, <3>2
  <2>2. settled' \in [Grants!Granted \X GrantAccounts -> {"open", "raced", "in", "out"}]
    <3>1. \A g \in Grants!Granted \X GrantAccounts : Says(g) \in {"open", "raced", "in", "out"}
      OBVIOUS
    <3> HIDE DEF Says
    <3> QED BY <1>1, <3>1 DEF Grants!GrantsInv, Grants!Asked
  <2> QED BY <1>1, <1>3, <2>1, <2>2 DEF Grants!GrantsInv, Grants!Asked
<1>5. /\ \A d, b : ~Grants!Touches(r, d, b)'
      /\ \A s \in GrantRequests : \A d, b : s # r => Grants!Touches(s, d, b)' = Grants!Touches(s, d, b)
  BY <1>3 DEF Grants!Touches, Grants!Idle
<1>6. ASSUME NEW g \in Grants!Granted \X GrantAccounts, Grants!Touches(r, g[1], g[2]), Alone(g)
      PROVE  /\ Says(g) = "in" => g \in grants
             /\ Says(g) = "out" => g \notin grants
  <2>1. settled[g] \in {"open", "raced"} /\ (settled[g] = "open" => Grants!OnItsWay(r, g))
    BY <1>6 DEF Grants!GrantsInv, Grants!Settling
  <2>2. g[2] \in DOMAIN q.of
    BY <1>6 DEF Grants!Touches
  <2>3. CASE q.op = "grant"
    <3>1. Grants!Well(q) => q.of[g[2]] = "yes"
      BY <2>2, <2>3 DEF Grants!Well, Grants!LandedIn
    <3> QED BY <2>1, <2>3, <3>1 DEF Grants!OnItsWay
  <2>4. CASE q.op = "revoke"
    <3>1. q.of[g[2]] \in {"yes", "no", "raised", "refused"}
      BY <1>1, <1>2, <2>2, <2>4 DEF Grants!StepsOf
    <3>2. Grants!Well(q) => q.of[g[2]] # "raised"
      BY <2>2, <2>4 DEF Grants!Well
    <3> QED BY <2>1, <2>4, <3>1, <3>2 DEF Grants!OnItsWay
  <2>5. CASE q.op = "revokeAll"
    <3>1. Grants!Well(q) => q.of[g[2]] = "yes"
      BY <2>2, <2>5 DEF Grants!Well, Grants!LandedIn
    <3> QED BY <2>1, <2>5, <3>1 DEF Grants!OnItsWay
  <2> QED BY <1>2, <2>3, <2>4, <2>5
<1>7. ASSUME NEW g \in Grants!Granted \X GrantAccounts
      PROVE  /\ settled'[g] = "in" => g \in grants'
             /\ settled'[g] = "out" => g \notin grants'
             /\ \A s \in GrantRequests : Grants!Touches(s, g[1], g[2])' =>
                 /\ settled'[g] \in {"open", "raced"}
                 /\ settled'[g] = "open" => Grants!OnItsWay(s, g)'
                 /\ \A other \in GrantRequests \ {s} : Grants!Touches(other, g[1], g[2])' => settled'[g] = "raced"
  <2>1. CASE ~Grants!Touches(r, g[1], g[2])
    <3>1. settled'[g] = settled[g]
      BY <1>1, <2>1
    <3>2. ASSUME NEW s \in GrantRequests, s # r, Grants!OnItsWay(s, g) PROVE Grants!OnItsWay(s, g)'
      BY <1>1, <1>3, <3>2 DEF Grants!OnItsWay
    <3> QED BY <1>1, <1>5, <3>1, <3>2 DEF Grants!GrantsInv, Grants!Settling
  <2>2. CASE Grants!Touches(r, g[1], g[2]) /\ ~Alone(g)
    <3>1. settled'[g] = "raced"
      BY <1>1, <2>2
    <3> QED BY <3>1
  <2>3. CASE Grants!Touches(r, g[1], g[2]) /\ Alone(g)
    <3>1. \A s \in GrantRequests : ~Grants!Touches(s, g[1], g[2])'
      BY <1>5, <2>3
    <3>2. settled'[g] = Says(g)
      BY <1>1, <2>3
    <3>3. /\ Says(g) = "in" => g \in grants
          /\ Says(g) = "out" => g \notin grants
      BY <1>6, <2>3
    <3> HIDE DEF Says
    <3> QED BY <1>1, <3>1, <3>2, <3>3
  <2> QED BY <2>1, <2>2, <2>3
<1>8. Grants!Walking'
  BY <1>1 DEF Grants!GrantsInv, Grants!Walking
<1> QED BY <1>4, <1>7, <1>8 DEF Grants!GrantsInv, Grants!Settling

\* What is asked and how it stands is about grants and requests alone.
LEMMA GrantsAside ==
    ASSUME Grants!Asked, Grants!Settling, UNCHANGED <<grants, request, settled>>
    PROVE  Grants!Asked' /\ Grants!Settling'
<1>1. Grants!Asked'
  BY DEF Grants!Asked
<1>2. \A r \in GrantRequests : \A d, b : Grants!Touches(r, d, b)' = Grants!Touches(r, d, b)
  BY DEF Grants!Touches
<1>3. ASSUME NEW r \in GrantRequests, NEW g \in Grants!Granted \X GrantAccounts, Grants!OnItsWay(r, g)
      PROVE  Grants!OnItsWay(r, g)'
  BY <1>3 DEF Grants!OnItsWay
<1>4. Grants!Settling'
  BY <1>2, <1>3 DEF Grants!Settling
<1> QED BY <1>1, <1>4

\* A page takes a listing on to its last account, or to the end.
LEMMA GrantsWalk ==
    ASSUME Grants!ChannelAssumption, Grants!GrantsInv,
           Grants!Walk \/ \E c \in Grants!Granted : Grants!StartWalk(c)
    PROVE  Grants!GrantsInv'
<1>1. UNCHANGED <<grants, request, settled>>
  BY DEF Grants!Walk, Grants!StartWalk
<1>2. Grants!Asked' /\ Grants!Settling'
  BY <1>1, GrantsAside DEF Grants!GrantsInv
<1>3. CASE Grants!Walk
  <2> DEFINE page == Grants!Page(walk.on, walk.after)
  <2>1. /\ walk.on \in Grants!Granted /\ walk.after \in Nat /\ walk.got \subseteq GrantAccounts
        /\ walk.stayed \subseteq GrantAccounts /\ GrantAccounts \subseteq Nat
        /\ \A a \in walk.stayed : <<walk.on, a>> \in grants /\ (a <= walk.after => a \in walk.got)
    BY <1>3 DEF Grants!Walk, Grants!GrantsInv, Grants!Walking, Grants!ChannelAssumption
  <2>2. walk' = [on |-> IF page.full THEN walk.on ELSE "ended", after |-> page.last,
                 got |-> walk.got \cup page.accounts, stayed |-> walk.stayed]
    BY <1>3 DEF Grants!Walk, Grants!GrantsInv, Grants!Walking
  <2>3. /\ page.accounts \subseteq GrantAccounts /\ page.last \in Nat
        /\ \A a \in GrantAccounts : <<walk.on, a>> \in grants /\ a > walk.after =>
              /\ a <= page.last => a \in page.accounts
              /\ ~page.full => a \in page.accounts
    BY <2>1, GrantsPage
  <2> HIDE DEF page
  <2>4. ASSUME NEW a \in walk.stayed
        PROVE  /\ a <= page.last => a \in walk.got \cup page.accounts
               /\ ~page.full => a \in walk.got \cup page.accounts
    <3>1. a \in Nat /\ <<walk.on, a>> \in grants /\ (a <= walk.after => a \in walk.got)
      BY <2>1
    <3>2. a <= walk.after \/ a > walk.after
      BY <2>1, <3>1
    <3> QED BY <2>1, <2>3, <3>1, <3>2
  <2>5. Grants!Walking'
    <3>1. walk.on # "ended"
      BY <2>1 DEF Grants!Granted
    <3>2. walk' \in [on : Grants!Granted \cup {"none", "ended"}, after : Nat, got : SUBSET GrantAccounts,
                     stayed : SUBSET GrantAccounts]
      BY <2>1, <2>2, <2>3
    <3>3. walk'.on \in Grants!Granted =>
            \A a \in walk'.stayed : <<walk'.on, a>> \in grants' /\ (a <= walk'.after => a \in walk'.got)
      <4>1. "ended" \notin Grants!Granted
        BY DEF Grants!Granted
      <4> QED BY <1>1, <2>1, <2>2, <2>4, <4>1
    <3>4. walk'.on = "ended" => walk'.stayed \subseteq walk'.got
      BY <2>2, <2>4, <3>1
    <3> QED BY <3>2, <3>3, <3>4 DEF Grants!Walking
  <2> QED BY <1>2, <2>5 DEF Grants!GrantsInv
<1>4. CASE \E c \in Grants!Granted : Grants!StartWalk(c)
  <2> PICK c \in Grants!Granted : Grants!StartWalk(c)
    BY <1>4
  <2>1. walk' = [on |-> c, after |-> 0, got |-> {}, stayed |-> {a \in GrantAccounts : <<c, a>> \in grants}]
    BY DEF Grants!StartWalk, Grants!NoWalk
  <2>2. \A a \in GrantAccounts : a \in Nat /\ ~(a <= 0)
    BY DEF Grants!ChannelAssumption
  <2>3. c # "ended"
    BY DEF Grants!Granted
  <2>4. Grants!Walking'
    BY <1>1, <2>1, <2>2, <2>3 DEF Grants!Walking
  <2> QED BY <1>2, <2>4 DEF Grants!GrantsInv
<1> QED BY <1>3, <1>4

\* Each step keeps the invariant; those of the processes leave it alone.
LEMMA GrantsSteps ==
    ASSUME Grants!ChannelAssumption, Grants!GrantsInv, [Grants!Next]_(Grants!channelVars)
    PROVE  Grants!GrantsInv'
<1>1. ASSUME NEW r \in GrantRequests, Grants!Handle(r) PROVE Grants!GrantsInv'
  <2>1. CASE \E c \in Grants!Granted : Grants!Begin(r, "revokeAll", c, GrantAccounts)
    BY <2>1, GrantsBegin
  <2>2. CASE \E c \in Grants!Granted : \E who \in SUBSET GrantAccounts \ {{}}, op \in {"grant", "revoke"} :
                Grants!Begin(r, op, c, who)
    BY <2>2, GrantsBegin
  <2>3. CASE \E a \in DOMAIN request[r].of :
                Grants!Grant(r, a) \/ Grants!LookBefore(r, a) \/ Grants!Revoke(r, a)
    BY <2>3, GrantsGrant
  <2>4. CASE Grants!RevokeAll(r)
    BY <2>4, GrantsRevokeAll
  <2>5. CASE Grants!Answer(r)
    BY <2>5, GrantsAnswer
  <2> QED BY <1>1, <2>1, <2>2, <2>3, <2>4, <2>5 DEF Grants!Handle
<1>2. ASSUME UNCHANGED <<grants, request, settled, walk>> PROVE Grants!GrantsInv'
  BY <1>2, GrantsAside DEF Grants!GrantsInv, Grants!Walking
<1>3. ASSUME NEW p \in GrantProcesses, Grants!Look(p) \/ Grants!Sync(p) PROVE Grants!GrantsInv'
  BY <1>2, <1>3 DEF Grants!Look, Grants!Sync, Grants!SyncKeeps
<1>4. ASSUME UNCHANGED Grants!channelVars PROVE Grants!GrantsInv'
  BY <1>2, <1>4 DEF Grants!channelVars
<1> QED BY <1>1, <1>3, <1>4, GrantsWalk DEF Grants!Next

\* From the invariant: a grant is as it was answered, and a listing met everybody who stayed.
LEMMA GrantsKept ==
    ASSUME Grants!GrantsInv
    PROVE  Grants!GrantsAsAnswered /\ Grants!WalkSeesWhoStayed
BY DEF Grants!GrantsInv, Grants!Settling, Grants!Walking, Grants!GrantsAsAnswered, Grants!WalkSeesWhoStayed

\* The variables of SignIns.
kind == v7
at == v6
attempts == v8
session == v3
known == v9
banned == v10
late == v2
device == v1
held == v4
tokens == v11
strays == v12
orphans == v13
measured == v14
guesses == v15
excused == v16
signInFaults == v17
USE DEF kind, at, attempts, session, known, banned, late, device, held, tokens, strays,
       orphans, measured, guesses, excused, signInFaults

-----------------------------------------------------------------------------
(* Sign-ins (auth: sign_in/runner.ts, devices/devices.ts).                    *)

\* A set in which one element may have come or gone has one more or one fewer.
LEMMA OneMoved ==
    ASSUME NEW S, NEW T, NEW c, IsFiniteSet(S), S \ {c} = T \ {c}
    PROVE  /\ IsFiniteSet(T) /\ Cardinality(S) \in Nat /\ Cardinality(T) \in Nat
           /\ Cardinality(T) + (IF c \in S THEN 1 ELSE 0) = Cardinality(S) + (IF c \in T THEN 1 ELSE 0)
<1> DEFINE Rest == S \ {c}
<1>1. /\ IsFiniteSet(Rest) /\ c \notin Rest
      /\ S = (IF c \in S THEN Rest \cup {c} ELSE Rest)
      /\ T = (IF c \in T THEN Rest \cup {c} ELSE Rest)
  BY FS_Subset
<1> HIDE DEF Rest
<1>2. Cardinality(Rest) \in Nat /\ IsFiniteSet(Rest \cup {c}) /\ Cardinality(Rest \cup {c}) = Cardinality(Rest) + 1
  BY <1>1, FS_AddElement, FS_CardinalityType
<1>3. Cardinality(S) = (IF c \in S THEN Cardinality(Rest) + 1 ELSE Cardinality(Rest))
  BY <1>1, <1>2
<1>4. Cardinality(T) = (IF c \in T THEN Cardinality(Rest) + 1 ELSE Cardinality(Rest)) /\ IsFiniteSet(T)
  BY <1>1, <1>2
<1> QED BY <1>2, <1>3, <1>4

\* The finiteness and the count of the module's own FiniteSets.
LEMMA SignInSets ==
    /\ \A S : SignIn!Cardinality(S) = Cardinality(S)
    /\ \A S : SignIn!IsFiniteSet(S) <=> IsFiniteSet(S)
<1>1. \A S : SignIn!Cardinality(S) = Cardinality(S)
  BY Zenon DEF SignIn!Cardinality, Cardinality
<1>2. \A S : SignIn!IsFiniteSet(S) <=> IsFiniteSet(S)
  BY DEF SignIn!IsFiniteSet, IsFiniteSet
<1> QED BY <1>1, <1>2

SignInLegal == SignIn!SignInAssumption /\ SignIn!IInv

\* Each step of a sign-in keeps the types.
LEMMA SignInTypes ==
    ASSUME SignIn!SignInAssumption, SignIn!TypeOK, SignIn!Minted, NEW c \in SignInCalls, SignIn!Call(c)
    PROVE  SignIn!TypeOK'
<1> USE DEF SignIn!TypeOK, SignIn!SignInAssumption, SignIn!Kinds, SignIn!Guessing
<1>1. CASE SignIn!Arrive(c)
  BY <1>1 DEF SignIn!Arrive, SignIn!Goto, SignIn!Keeps, SignIn!CallKeeps, SignIn!CallDrops, SignIn!Fails, SignIn!Opened, SignIn!Measured
<1>2. CASE SignIn!Guess(c)
  BY <1>2 DEF SignIn!Guess, SignIn!Goto, SignIn!Keeps, SignIn!CallKeeps, SignIn!CallDrops, SignIn!Fails, SignIn!Opened, SignIn!Measured
<1>3. CASE SignIn!Refused(c)
  BY <1>3 DEF SignIn!Refused, SignIn!Goto, SignIn!Keeps, SignIn!CallKeeps, SignIn!CallDrops, SignIn!Fails, SignIn!Opened, SignIn!Measured
<1>4. CASE SignIn!Authenticate(c)
  BY <1>4 DEF SignIn!Authenticate, SignIn!Goto, SignIn!Keeps, SignIn!CallKeeps, SignIn!CallDrops, SignIn!Fails, SignIn!Opened, SignIn!Measured
<1>5. CASE SignIn!Vouch(c)
  BY <1>5 DEF SignIn!Vouch, SignIn!Goto, SignIn!Keeps, SignIn!CallKeeps, SignIn!CallDrops, SignIn!Fails, SignIn!Opened, SignIn!Measured
<1>6. CASE SignIn!TurnAway(c)
  BY <1>6 DEF SignIn!TurnAway, SignIn!Goto, SignIn!Keeps, SignIn!CallKeeps, SignIn!CallDrops, SignIn!Fails, SignIn!Opened, SignIn!Measured
<1>7. CASE SignIn!Admit(c)
  BY <1>7 DEF SignIn!Admit, SignIn!Goto, SignIn!Keeps, SignIn!CallKeeps, SignIn!CallDrops, SignIn!Fails, SignIn!Opened, SignIn!Measured
<1>8. CASE SignIn!CheckTrust(c)
  BY <1>8 DEF SignIn!CheckTrust, SignIn!Goto, SignIn!Keeps, SignIn!CallKeeps, SignIn!CallDrops, SignIn!Fails, SignIn!Opened, SignIn!Measured
<1>9. CASE SignIn!LookUp(c)
  BY <1>9 DEF SignIn!LookUp, SignIn!Goto, SignIn!Keeps, SignIn!CallKeeps, SignIn!CallDrops, SignIn!Fails, SignIn!Opened, SignIn!Measured
<1>10. CASE SignIn!Write(c)
  <2>1. token[c] \in 0..DeviceTokens /\ device.row \in 0..DeviceTokens /\ at[c] = "writing"
    BY <1>10 DEF SignIn!Write
  <2>2. token[c] \in 1..DeviceTokens
    BY <2>1, <1>10 DEF SignIn!Write, SignIn!Minted
  <2>3. SignIn!Overwritten \subseteq 1..DeviceTokens
    BY DEF SignIn!Overwritten
  <2>4. /\ device' = [row |-> IF SignIn!Present THEN device.row ELSE token[c], digest |-> token[c]]
           \/ device' = device
        /\ strays' \subseteq strays \cup SignIn!Overwritten \cup {token[c]}
        /\ orphans' \subseteq orphans \cup {token[c]}
        /\ signInFaults' = signInFaults \/ SignIn!Fails
    BY <1>10 DEF SignIn!Write
  <2>5. device' \in [row : 0..DeviceTokens, digest : 0..DeviceTokens]
    BY <2>1, <2>4
  <2>6. {strays', orphans'} \subseteq SUBSET (1..DeviceTokens)
    <3> DEFINE All == 1..DeviceTokens
    <3>1. strays \subseteq All /\ orphans \subseteq All
      OBVIOUS
    <3> HIDE DEF All
    <3>2. token[c] \in All /\ SignIn!Overwritten \subseteq All
      BY <2>2, <2>3 DEF All
    <3>3. strays' \subseteq All /\ orphans' \subseteq All
      BY <2>4, <3>1, <3>2
    <3> QED BY <3>3 DEF All
  <2>7. signInFaults' \in 0..MaxSignInFaults
    BY <2>4 DEF SignIn!Fails
  <2>8. /\ at' \in [SignInCalls -> {"idle", "asking", "refused", "opened", "checking", "known", "writing",
                                    "written", "closing"}]
        /\ UNCHANGED <<kind, attempts, session, token, known, banned, late, held, tokens, measured,
                       guesses, excused>>
    BY <1>10 DEF SignIn!Write, SignIn!Goto
  <2> QED BY <2>5, <2>6, <2>7, <2>8
<1>11. CASE SignIn!Answer(c)
  BY <1>11 DEF SignIn!Answer, SignIn!Goto, SignIn!Keeps, SignIn!CallKeeps, SignIn!CallDrops, SignIn!Fails, SignIn!Opened, SignIn!Measured
<1>12. CASE SignIn!Close(c)
  BY <1>12 DEF SignIn!Close, SignIn!Goto, SignIn!Keeps, SignIn!CallKeeps, SignIn!CallDrops, SignIn!Fails, SignIn!Opened, SignIn!Measured
<1>13. CASE SignIn!Die(c)
  BY <1>13 DEF SignIn!Die, SignIn!Goto, SignIn!Keeps, SignIn!CallKeeps, SignIn!CallDrops, SignIn!Fails, SignIn!Opened, SignIn!Measured
<1> QED BY <1>1, <1>2, <1>3, <1>4, <1>5, <1>6, <1>7, <1>8, <1>9, <1>10, <1>11, <1>12, <1>13 DEF SignIn!Call

\* What a call opened is with its caller, revoked, or on its way to either.
LEMMA SignInOwned ==
    ASSUME SignIn!SignInAssumption, SignIn!IInv, NEW c \in SignInCalls, SignIn!Call(c)
    PROVE  SignIn!NoSessionAstray' /\ SignIn!Owned'
<1> USE DEF SignIn!TypeOK, SignIn!IInv, SignIn!Kinds, SignIn!Guessing, SignIn!NoSessionAstray, SignIn!Owned
<1>1. CASE SignIn!Arrive(c)
  BY <1>1 DEF SignIn!Arrive, SignIn!Goto, SignIn!Keeps, SignIn!CallKeeps, SignIn!CallDrops, SignIn!Fails, SignIn!Opened
<1>2. CASE SignIn!Guess(c)
  BY <1>2 DEF SignIn!Guess, SignIn!Goto, SignIn!Keeps, SignIn!CallKeeps, SignIn!CallDrops, SignIn!Fails, SignIn!Opened
<1>3. CASE SignIn!Refused(c)
  BY <1>3 DEF SignIn!Refused, SignIn!Goto, SignIn!Keeps, SignIn!CallKeeps, SignIn!CallDrops, SignIn!Fails, SignIn!Opened
<1>4. CASE SignIn!Authenticate(c)
  BY <1>4 DEF SignIn!Authenticate, SignIn!Goto, SignIn!Keeps, SignIn!CallKeeps, SignIn!CallDrops, SignIn!Fails, SignIn!Opened
<1>5. CASE SignIn!Vouch(c)
  BY <1>5 DEF SignIn!Vouch, SignIn!Goto, SignIn!Keeps, SignIn!CallKeeps, SignIn!CallDrops, SignIn!Fails, SignIn!Opened
<1>6. CASE SignIn!TurnAway(c)
  BY <1>6 DEF SignIn!TurnAway, SignIn!Goto, SignIn!Keeps, SignIn!CallKeeps, SignIn!CallDrops, SignIn!Fails, SignIn!Opened
<1>7. CASE SignIn!Admit(c)
  BY <1>7 DEF SignIn!Admit, SignIn!Goto, SignIn!Keeps, SignIn!CallKeeps, SignIn!CallDrops, SignIn!Fails, SignIn!Opened
<1>8. CASE SignIn!CheckTrust(c)
  BY <1>8 DEF SignIn!CheckTrust, SignIn!Goto, SignIn!Keeps, SignIn!CallKeeps, SignIn!CallDrops, SignIn!Fails, SignIn!Opened
<1>9. CASE SignIn!LookUp(c)
  BY <1>9 DEF SignIn!LookUp, SignIn!Goto, SignIn!Keeps, SignIn!CallKeeps, SignIn!CallDrops, SignIn!Fails, SignIn!Opened
<1>10. CASE SignIn!Write(c)
  BY <1>10 DEF SignIn!Write, SignIn!Goto, SignIn!Keeps, SignIn!CallKeeps, SignIn!CallDrops, SignIn!Fails, SignIn!Opened
<1>11. CASE SignIn!Answer(c)
  BY <1>11 DEF SignIn!Answer, SignIn!Goto, SignIn!Keeps, SignIn!CallKeeps, SignIn!CallDrops, SignIn!Fails, SignIn!Opened
<1>12. CASE SignIn!Close(c)
  BY <1>12 DEF SignIn!Close, SignIn!Goto, SignIn!Keeps, SignIn!CallKeeps, SignIn!CallDrops, SignIn!Fails, SignIn!Opened
<1>13. CASE SignIn!Die(c)
  BY <1>13 DEF SignIn!Die, SignIn!Goto, SignIn!Keeps, SignIn!CallKeeps, SignIn!CallDrops, SignIn!Fails, SignIn!Opened
<1> QED BY <1>1, <1>2, <1>3, <1>4, <1>5, <1>6, <1>7, <1>8, <1>9, <1>10, <1>11, <1>12, <1>13 DEF SignIn!Call

\* A token that is minted is in the row, or a stray.
LEMMA SignInMinted ==
    ASSUME SignIn!SignInAssumption, SignIn!IInv, NEW c \in SignInCalls, SignIn!Call(c)
    PROVE  SignIn!Minted'
<1> USE DEF SignIn!TypeOK, SignIn!IInv, SignIn!Kinds, SignIn!Guessing, SignIn!Minted
<1>1. CASE SignIn!Arrive(c)
  BY <1>1 DEF SignIn!Arrive, SignIn!Goto, SignIn!Keeps, SignIn!CallKeeps, SignIn!CallDrops, SignIn!Fails, SignIn!Opened, SignIn!Present, SignIn!Overwritten
<1>2. CASE SignIn!Guess(c)
  BY <1>2 DEF SignIn!Guess, SignIn!Goto, SignIn!Keeps, SignIn!CallKeeps, SignIn!CallDrops, SignIn!Fails, SignIn!Opened, SignIn!Present, SignIn!Overwritten
<1>3. CASE SignIn!Refused(c)
  BY <1>3 DEF SignIn!Refused, SignIn!Goto, SignIn!Keeps, SignIn!CallKeeps, SignIn!CallDrops, SignIn!Fails, SignIn!Opened, SignIn!Present, SignIn!Overwritten
<1>4. CASE SignIn!Authenticate(c)
  BY <1>4 DEF SignIn!Authenticate, SignIn!Goto, SignIn!Keeps, SignIn!CallKeeps, SignIn!CallDrops, SignIn!Fails, SignIn!Opened, SignIn!Present, SignIn!Overwritten
<1>5. CASE SignIn!Vouch(c)
  BY <1>5 DEF SignIn!Vouch, SignIn!Goto, SignIn!Keeps, SignIn!CallKeeps, SignIn!CallDrops, SignIn!Fails, SignIn!Opened, SignIn!Present, SignIn!Overwritten
<1>6. CASE SignIn!TurnAway(c)
  BY <1>6 DEF SignIn!TurnAway, SignIn!Goto, SignIn!Keeps, SignIn!CallKeeps, SignIn!CallDrops, SignIn!Fails, SignIn!Opened, SignIn!Present, SignIn!Overwritten
<1>7. CASE SignIn!Admit(c)
  BY <1>7 DEF SignIn!Admit, SignIn!Goto, SignIn!Keeps, SignIn!CallKeeps, SignIn!CallDrops, SignIn!Fails, SignIn!Opened, SignIn!Present, SignIn!Overwritten
<1>8. CASE SignIn!CheckTrust(c)
  BY <1>8 DEF SignIn!CheckTrust, SignIn!Goto, SignIn!Keeps, SignIn!CallKeeps, SignIn!CallDrops, SignIn!Fails, SignIn!Opened, SignIn!Present, SignIn!Overwritten
<1>9. CASE SignIn!LookUp(c)
  BY <1>9 DEF SignIn!LookUp, SignIn!Goto, SignIn!Keeps, SignIn!CallKeeps, SignIn!CallDrops, SignIn!Fails, SignIn!Opened, SignIn!Present, SignIn!Overwritten
<1>10. CASE SignIn!Write(c)
  BY <1>10 DEF SignIn!Write, SignIn!Goto, SignIn!Keeps, SignIn!CallKeeps, SignIn!CallDrops, SignIn!Fails, SignIn!Opened, SignIn!Present, SignIn!Overwritten
<1>11. CASE SignIn!Answer(c)
  BY <1>11 DEF SignIn!Answer, SignIn!Goto, SignIn!Keeps, SignIn!CallKeeps, SignIn!CallDrops, SignIn!Fails, SignIn!Opened, SignIn!Present, SignIn!Overwritten
<1>12. CASE SignIn!Close(c)
  BY <1>12 DEF SignIn!Close, SignIn!Goto, SignIn!Keeps, SignIn!CallKeeps, SignIn!CallDrops, SignIn!Fails, SignIn!Opened, SignIn!Present, SignIn!Overwritten
<1>13. CASE SignIn!Die(c)
  BY <1>13 DEF SignIn!Die, SignIn!Goto, SignIn!Keeps, SignIn!CallKeeps, SignIn!CallDrops, SignIn!Fails, SignIn!Opened, SignIn!Present, SignIn!Overwritten
<1> QED BY <1>1, <1>2, <1>3, <1>4, <1>5, <1>6, <1>7, <1>8, <1>9, <1>10, <1>11, <1>12, <1>13 DEF SignIn!Call

\* How a step of a call moves it among those that are asked and those that are not counted.
LEMMA SignInMoves ==
    ASSUME SignIn!SignInAssumption, SignIn!TypeOK, NEW c \in SignInCalls, NEW k \in SignIn!Guessing, NEW p,
           at' = [at EXCEPT ![c] = p], kind' = kind
    PROVE  /\ {Cardinality(SignIn!Asking(k)), Cardinality(SignIn!Uncounted(k)),
               Cardinality(SignIn!Asking(k)'), Cardinality(SignIn!Uncounted(k)'),
               Cardinality({d \in SignInCalls : kind[d] = k})} \subseteq Nat
           /\ Cardinality(SignIn!Asking(k)) + Cardinality(SignIn!Uncounted(k))
                <= Cardinality({d \in SignInCalls : kind[d] = k})
           /\ kind[c] # k => /\ SignIn!Asking(k)' = SignIn!Asking(k)
                             /\ SignIn!Uncounted(k)' = SignIn!Uncounted(k)
           /\ kind[c] = k =>
                /\ Cardinality(SignIn!Asking(k)') + (IF at[c] = "asking" THEN 1 ELSE 0)
                     = Cardinality(SignIn!Asking(k)) + (IF p = "asking" THEN 1 ELSE 0)
                /\ Cardinality(SignIn!Uncounted(k)')
                     + (IF at[c] = "refused" \/ (at[c] = "opened" /\ k = "foreign") THEN 1 ELSE 0)
                     = Cardinality(SignIn!Uncounted(k))
                         + (IF p = "refused" \/ (p = "opened" /\ k = "foreign") THEN 1 ELSE 0)
<1> DEFINE A == SignIn!Asking(k)
           U == SignIn!Uncounted(k)
           A1 == {d \in SignInCalls : kind[d] = k /\ at'[d] = "asking"}
           U1 == {d \in SignInCalls : kind[d] = k /\ (at'[d] = "refused" \/ (at'[d] = "opened" /\ k = "foreign"))}
           K == {d \in SignInCalls : kind[d] = k}
<1>1. IsFiniteSet(K) /\ IsFiniteSet(A) /\ IsFiniteSet(U)
  <2>1. IsFiniteSet(SignInCalls)
    BY SignInSets DEF SignIn!SignInAssumption
  <2>2. K \subseteq SignInCalls /\ A \subseteq SignInCalls /\ U \subseteq SignInCalls
    BY DEF SignIn!Asking, SignIn!Uncounted
  <2> QED BY <2>1, <2>2, FS_Subset
<1>2. SignIn!Asking(k)' = A1 /\ SignIn!Uncounted(k)' = U1
  BY DEF SignIn!Asking, SignIn!Uncounted
<1>3. at \in [SignInCalls -> {"idle", "asking", "refused", "opened", "checking", "known", "writing",
                              "written", "closing"}]
  BY DEF SignIn!TypeOK
<1>4. A \ {c} = A1 \ {c} /\ U \ {c} = U1 \ {c}
  BY <1>3 DEF SignIn!Asking, SignIn!Uncounted
<1>5. /\ c \in A <=> kind[c] = k /\ at[c] = "asking"
      /\ c \in U <=> kind[c] = k /\ (at[c] = "refused" \/ (at[c] = "opened" /\ k = "foreign"))
      /\ c \in A1 <=> kind[c] = k /\ p = "asking"
      /\ c \in U1 <=> kind[c] = k /\ (p = "refused" \/ (p = "opened" /\ k = "foreign"))
  BY <1>3 DEF SignIn!Asking, SignIn!Uncounted
<1>6. A \cup U \subseteq K /\ A \cap U = {}
  BY <1>3 DEF SignIn!Asking, SignIn!Uncounted
<1> HIDE DEF A, U, A1, U1, K
<1>7. Cardinality(A) + Cardinality(U) <= Cardinality(K) /\ Cardinality(K) \in Nat
  <2>1. Cardinality(A \cup U) = Cardinality(A) + Cardinality(U) - Cardinality(A \cap U)
    BY <1>1, FS_Union
  <2>2. Cardinality(A \cap U) = 0
    BY <1>6, FS_EmptySet
  <2>3. Cardinality(A \cup U) <= Cardinality(K)
    BY <1>1, <1>6, FS_Subset
  <2>4. {Cardinality(A), Cardinality(U), Cardinality(K)} \subseteq Nat
    BY <1>1, FS_CardinalityType
  <2> QED BY <2>1, <2>2, <2>3, <2>4
<1>8. /\ Cardinality(A) \in Nat /\ Cardinality(A1) \in Nat
      /\ Cardinality(A1) + (IF c \in A THEN 1 ELSE 0) = Cardinality(A) + (IF c \in A1 THEN 1 ELSE 0)
  BY <1>1, <1>4, OneMoved
<1>9. /\ Cardinality(U) \in Nat /\ Cardinality(U1) \in Nat
      /\ Cardinality(U1) + (IF c \in U THEN 1 ELSE 0) = Cardinality(U) + (IF c \in U1 THEN 1 ELSE 0)
  BY <1>1, <1>4, OneMoved
<1>10. kind[c] # k => A1 = A /\ U1 = U
  BY <1>4, <1>5
<1>11. kind[c] = k =>
                /\ Cardinality(A1) + (IF at[c] = "asking" THEN 1 ELSE 0)
                     = Cardinality(A) + (IF p = "asking" THEN 1 ELSE 0)
                /\ Cardinality(U1)
                     + (IF at[c] = "refused" \/ (at[c] = "opened" /\ k = "foreign") THEN 1 ELSE 0)
                     = Cardinality(U)
                         + (IF p = "refused" \/ (p = "opened" /\ k = "foreign") THEN 1 ELSE 0)
  BY <1>5, <1>8, <1>9
<1> QED BY <1>2, <1>7, <1>8, <1>9, <1>10, <1>11 DEF A, U, K

\* What is guessed is counted, lost, or was aimed before the limit was reached.
LEMMA SignInCounted ==
    ASSUME SignIn!SignInAssumption, SignIn!IInv, NEW c \in SignInCalls, SignIn!Call(c)
    PROVE  SignIn!Counted'
<1> SUFFICES ASSUME NEW k \in SignIn!Guessing
             PROVE  /\ measured'[k] <= GuessLimit + 1
                    /\ ~(measured'[k] > GuessLimit) =>
                          guesses'[k] <= measured'[k] + Cardinality(SignIn!Uncounted(k)') + signInFaults'
                    /\ measured'[k] > GuessLimit =>
                          guesses'[k] + Cardinality(SignIn!Asking(k)')
                            <= GuessLimit + signInFaults' + Cardinality({d \in SignInCalls : kind'[d] = k})
  BY SignInSets DEF SignIn!Counted, SignIn!Blocked
<1> DEFINE A == Cardinality(SignIn!Asking(k))
           U == Cardinality(SignIn!Uncounted(k))
           A1 == Cardinality(SignIn!Asking(k)')
           U1 == Cardinality(SignIn!Uncounted(k)')
           K == Cardinality({d \in SignInCalls : kind[d] = k})
<1>1. /\ GuessLimit \in Nat /\ signInFaults \in Nat
      /\ measured \in [{"typed", "foreign"} -> Nat] /\ guesses \in [{"typed", "foreign"} -> Nat]
      /\ k \in {"typed", "foreign"} /\ k # "vouched"
      /\ at[c] \in {"idle", "asking", "refused", "opened", "checking", "known", "writing", "written",
                    "closing"}
      /\ kind[c] \in {"typed", "foreign", "vouched"}
  BY DEF SignIn!IInv, SignIn!TypeOK, SignIn!SignInAssumption, SignIn!Guessing, SignIn!Kinds
<1>2. /\ measured[k] <= GuessLimit + 1
      /\ ~(measured[k] > GuessLimit) => guesses[k] <= measured[k] + U + signInFaults
      /\ measured[k] > GuessLimit => guesses[k] + A <= GuessLimit + signInFaults + K
  BY SignInSets DEF SignIn!IInv, SignIn!Counted, SignIn!Blocked
<1>3. kind' = kind
  <2>1. ASSUME SignIn!Arrive(c) PROVE kind' = kind
    BY <2>1 DEF SignIn!Arrive, SignIn!Keeps, SignIn!CallKeeps, SignIn!CallDrops
  <2>2. ASSUME SignIn!Guess(c) PROVE kind' = kind
    BY <2>2 DEF SignIn!Guess, SignIn!Keeps, SignIn!CallKeeps, SignIn!CallDrops
  <2>3. ASSUME SignIn!Refused(c) PROVE kind' = kind
    BY <2>3 DEF SignIn!Refused, SignIn!Keeps, SignIn!CallKeeps, SignIn!CallDrops
  <2>4. ASSUME SignIn!Authenticate(c) PROVE kind' = kind
    BY <2>4 DEF SignIn!Authenticate, SignIn!Keeps, SignIn!CallKeeps, SignIn!CallDrops
  <2>5. ASSUME SignIn!Vouch(c) PROVE kind' = kind
    BY <2>5 DEF SignIn!Vouch, SignIn!Keeps, SignIn!CallKeeps, SignIn!CallDrops
  <2>6. ASSUME SignIn!TurnAway(c) PROVE kind' = kind
    BY <2>6 DEF SignIn!TurnAway, SignIn!Keeps, SignIn!CallKeeps, SignIn!CallDrops
  <2>7. ASSUME SignIn!Admit(c) PROVE kind' = kind
    BY <2>7 DEF SignIn!Admit, SignIn!Keeps, SignIn!CallKeeps, SignIn!CallDrops
  <2>8. ASSUME SignIn!CheckTrust(c) PROVE kind' = kind
    BY <2>8 DEF SignIn!CheckTrust, SignIn!Keeps, SignIn!CallKeeps, SignIn!CallDrops
  <2>9. ASSUME SignIn!LookUp(c) PROVE kind' = kind
    BY <2>9 DEF SignIn!LookUp, SignIn!Keeps, SignIn!CallKeeps, SignIn!CallDrops
  <2>10. ASSUME SignIn!Write(c) PROVE kind' = kind
    BY <2>10 DEF SignIn!Write, SignIn!Keeps, SignIn!CallKeeps, SignIn!CallDrops
  <2>11. ASSUME SignIn!Answer(c) PROVE kind' = kind
    BY <2>11 DEF SignIn!Answer, SignIn!Keeps, SignIn!CallKeeps, SignIn!CallDrops
  <2>12. ASSUME SignIn!Close(c) PROVE kind' = kind
    BY <2>12 DEF SignIn!Close, SignIn!Keeps, SignIn!CallKeeps, SignIn!CallDrops
  <2>13. ASSUME SignIn!Die(c) PROVE kind' = kind
    BY <2>13 DEF SignIn!Die, SignIn!Keeps, SignIn!CallKeeps, SignIn!CallDrops
  <2> QED BY <2>1, <2>2, <2>3, <2>4, <2>5, <2>6, <2>7, <2>8, <2>9, <2>10, <2>11, <2>12, <2>13 DEF SignIn!Call
<1> DEFINE Moves(q, p) ==
        /\ A \in Nat /\ U \in Nat /\ A1 \in Nat /\ U1 \in Nat /\ K \in Nat /\ A + U <= K
        /\ kind[c] # k => A1 = A /\ U1 = U
        /\ kind[c] = k =>
             /\ A1 + (IF q = "asking" THEN 1 ELSE 0) = A + (IF p = "asking" THEN 1 ELSE 0)
             /\ U1 + (IF q = "refused" \/ (q = "opened" /\ k = "foreign") THEN 1 ELSE 0)
                  = U + (IF p = "refused" \/ (p = "opened" /\ k = "foreign") THEN 1 ELSE 0)
<1>4. \A p : at' = [at EXCEPT ![c] = p] => Moves(at[c], p)
  <2> SUFFICES ASSUME NEW p, at' = [at EXCEPT ![c] = p] PROVE Moves(at[c], p)
    OBVIOUS
  <2>1. SignIn!TypeOK
    BY DEF SignIn!IInv
  <2>2. /\ {A, U, A1, U1, K} \subseteq Nat /\ A + U <= K
        /\ kind[c] # k => SignIn!Asking(k)' = SignIn!Asking(k) /\ SignIn!Uncounted(k)' = SignIn!Uncounted(k)
        /\ kind[c] = k =>
             /\ A1 + (IF at[c] = "asking" THEN 1 ELSE 0) = A + (IF p = "asking" THEN 1 ELSE 0)
             /\ U1 + (IF at[c] = "refused" \/ (at[c] = "opened" /\ k = "foreign") THEN 1 ELSE 0)
                  = U + (IF p = "refused" \/ (p = "opened" /\ k = "foreign") THEN 1 ELSE 0)
    BY <1>3, <2>1, SignInMoves
  <2>3. kind[c] # k => A1 = A /\ U1 = U
    BY <2>2
  <2> HIDE DEF A, U, A1, U1, K
  <2> QED BY <2>2, <2>3
<1> HIDE DEF A, U, A1, U1, K
<1> DEFINE m == measured[k]
           m1 == measured'[k]
           g == guesses[k]
           g1 == guesses'[k]
           f == signInFaults
           f1 == signInFaults'
<1>5. SUFFICES /\ m1 <= GuessLimit + 1
               /\ ~(m1 > GuessLimit) => g1 <= m1 + U1 + f1
               /\ m1 > GuessLimit => g1 + A1 <= GuessLimit + f1 + K
  BY <1>3 DEF U1, A1, K
<1>6. /\ m \in Nat /\ g \in Nat /\ f \in Nat /\ GuessLimit \in Nat
      /\ m <= GuessLimit + 1
      /\ ~(m > GuessLimit) => g <= m + U + f
      /\ m > GuessLimit => g + A <= GuessLimit + f + K
  BY <1>1, <1>2
<1>7. CASE SignIn!Arrive(c)
  <2>1. at[c] = "idle" /\ (kind[c] = k => m <= GuessLimit) /\ at' = [at EXCEPT ![c] = "asking"]
    BY <1>1, <1>7 DEF SignIn!Arrive, SignIn!Blocked, SignIn!Goto, SignIn!Keeps, SignIn!CallKeeps, SignIn!CallDrops, SignIn!Fails, SignIn!Opened
  <2>2. m1 = m /\ g1 = g /\ f1 = f
    BY <1>1, <1>7 DEF SignIn!Arrive, SignIn!Blocked, SignIn!Guessing, SignIn!Goto, SignIn!Keeps, SignIn!CallKeeps, SignIn!CallDrops, SignIn!Fails, SignIn!Opened, SignIn!Measured
  <2> HIDE DEF m, m1, g, g1, f, f1, Moves
  <2>3. Moves("idle", "asking")
    BY <1>4, <2>1
  <2> QED BY <1>1, <1>6, <2>1, <2>2, <2>3 DEF Moves
<1>8. CASE SignIn!Guess(c)
  <2>1. at[c] = "asking" /\ at' = [at EXCEPT ![c] = "refused"]
    BY <1>1, <1>8 DEF SignIn!Guess, SignIn!Blocked, SignIn!Goto, SignIn!Keeps, SignIn!CallKeeps, SignIn!CallDrops, SignIn!Fails, SignIn!Opened
  <2>2. m1 = m /\ g1 = (IF kind[c] = k THEN g + 1 ELSE g) /\ f1 = f
    BY <1>1, <1>8 DEF SignIn!Guess, SignIn!Blocked, SignIn!Guessing, SignIn!Goto, SignIn!Keeps, SignIn!CallKeeps, SignIn!CallDrops, SignIn!Fails, SignIn!Opened, SignIn!Measured
  <2> HIDE DEF m, m1, g, g1, f, f1, Moves
  <2>3. Moves("asking", "refused")
    BY <1>4, <2>1
  <2> QED BY <1>1, <1>6, <2>1, <2>2, <2>3 DEF Moves
<1>9. CASE SignIn!Refused(c)
  <2>1. at[c] = "refused" /\ at' = [at EXCEPT ![c] = "idle"]
    BY <1>1, <1>9 DEF SignIn!Refused, SignIn!Blocked, SignIn!Goto, SignIn!Keeps, SignIn!CallKeeps, SignIn!CallDrops, SignIn!Fails, SignIn!Opened
  <2>2. g1 = g /\ ((m1 = (IF kind[c] = k /\ m <= GuessLimit THEN m + 1 ELSE m) /\ f1 = f) \/ (m1 = m /\ f1 = f + 1))
    BY <1>1, <1>9 DEF SignIn!Refused, SignIn!Blocked, SignIn!Guessing, SignIn!Goto, SignIn!Keeps, SignIn!CallKeeps, SignIn!CallDrops, SignIn!Fails, SignIn!Opened, SignIn!Measured
  <2> HIDE DEF m, m1, g, g1, f, f1, Moves
  <2>3. Moves("refused", "idle")
    BY <1>4, <2>1
  <2> QED BY <1>1, <1>6, <2>1, <2>2, <2>3 DEF Moves
<1>10. CASE SignIn!Authenticate(c)
  <2>1. at[c] = "asking" /\ at' = [at EXCEPT ![c] = "opened"]
    BY <1>1, <1>10 DEF SignIn!Authenticate, SignIn!Blocked, SignIn!Goto, SignIn!Keeps, SignIn!CallKeeps, SignIn!CallDrops, SignIn!Fails, SignIn!Opened
  <2>2. m1 = m /\ g1 = (IF kind[c] = k /\ k = "foreign" THEN g + 1 ELSE g) /\ f1 = f
    BY <1>1, <1>10 DEF SignIn!Authenticate, SignIn!Blocked, SignIn!Guessing, SignIn!Goto, SignIn!Keeps, SignIn!CallKeeps, SignIn!CallDrops, SignIn!Fails, SignIn!Opened, SignIn!Measured
  <2> HIDE DEF m, m1, g, g1, f, f1, Moves
  <2>3. Moves("asking", "opened")
    BY <1>4, <2>1
  <2> QED BY <1>1, <1>6, <2>1, <2>2, <2>3 DEF Moves
<1>11. CASE SignIn!Vouch(c)
  <2>1. kind[c] # k /\ \E p : at' = [at EXCEPT ![c] = p]
    BY <1>1, <1>11 DEF SignIn!Vouch, SignIn!Blocked, SignIn!Goto, SignIn!Keeps, SignIn!CallKeeps, SignIn!CallDrops, SignIn!Fails, SignIn!Opened
  <2>2. m1 = m /\ g1 = g /\ f1 = f
    BY <1>1, <1>11 DEF SignIn!Vouch, SignIn!Blocked, SignIn!Guessing, SignIn!Goto, SignIn!Keeps, SignIn!CallKeeps, SignIn!CallDrops, SignIn!Fails, SignIn!Opened, SignIn!Measured
  <2> HIDE DEF m, m1, g, g1, f, f1, Moves
  <2>3. \E p : Moves(at[c], p)
    BY <1>4, <2>1
  <2> QED BY <1>1, <1>6, <2>1, <2>2, <2>3 DEF Moves
<1>12. CASE SignIn!TurnAway(c)
  <2>1. at[c] = "opened" /\ kind[c] = "foreign" /\ at' = [at EXCEPT ![c] = "closing"]
    BY <1>1, <1>12 DEF SignIn!TurnAway, SignIn!Blocked, SignIn!Goto, SignIn!Keeps, SignIn!CallKeeps, SignIn!CallDrops, SignIn!Fails, SignIn!Opened
  <2>2. g1 = g /\ m1 = (IF kind[c] = k /\ m <= GuessLimit THEN m + 1 ELSE m) /\ f1 = f
    BY <1>1, <1>12 DEF SignIn!TurnAway, SignIn!Blocked, SignIn!Guessing, SignIn!Goto, SignIn!Keeps, SignIn!CallKeeps, SignIn!CallDrops, SignIn!Fails, SignIn!Opened, SignIn!Measured
  <2> HIDE DEF m, m1, g, g1, f, f1, Moves
  <2>3. Moves("opened", "closing")
    BY <1>4, <2>1
  <2> QED BY <1>1, <1>6, <2>1, <2>2, <2>3 DEF Moves
<1>13. CASE SignIn!Admit(c)
  <2>1. at[c] = "opened" /\ kind[c] # "foreign" /\ \E p \in {"checking", "known", "closing"} : at' = [at EXCEPT ![c] = p]
    BY <1>1, <1>13 DEF SignIn!Admit, SignIn!Blocked, SignIn!Goto, SignIn!Keeps, SignIn!CallKeeps, SignIn!CallDrops, SignIn!Fails, SignIn!Opened
  <2>2. m1 = m /\ g1 = g /\ f1 = f
    BY <1>1, <1>13 DEF SignIn!Admit, SignIn!Blocked, SignIn!Guessing, SignIn!Goto, SignIn!Keeps, SignIn!CallKeeps, SignIn!CallDrops, SignIn!Fails, SignIn!Opened, SignIn!Measured
  <2> HIDE DEF m, m1, g, g1, f, f1, Moves
  <2>3. \E p \in {"checking", "known", "closing"} : Moves("opened", p)
    BY <1>4, <2>1
  <2> QED BY <1>1, <1>6, <2>1, <2>2, <2>3 DEF Moves
<1>14. CASE SignIn!CheckTrust(c)
  <2>1. at[c] = "checking" /\ \E p \in {"known", "closing"} : at' = [at EXCEPT ![c] = p]
    BY <1>1, <1>14 DEF SignIn!CheckTrust, SignIn!Blocked, SignIn!Goto, SignIn!Keeps, SignIn!CallKeeps, SignIn!CallDrops, SignIn!Fails, SignIn!Opened
  <2>2. m1 = m /\ g1 = g /\ f1 = f
    BY <1>1, <1>14 DEF SignIn!CheckTrust, SignIn!Blocked, SignIn!Guessing, SignIn!Goto, SignIn!Keeps, SignIn!CallKeeps, SignIn!CallDrops, SignIn!Fails, SignIn!Opened, SignIn!Measured
  <2> HIDE DEF m, m1, g, g1, f, f1, Moves
  <2>3. \E p \in {"known", "closing"} : Moves("checking", p)
    BY <1>4, <2>1
  <2> QED BY <1>1, <1>6, <2>1, <2>2, <2>3 DEF Moves
<1>15. CASE SignIn!LookUp(c)
  <2>1. at[c] = "known" /\ at' = [at EXCEPT ![c] = "writing"]
    BY <1>1, <1>15 DEF SignIn!LookUp, SignIn!Blocked, SignIn!Goto, SignIn!Keeps, SignIn!CallKeeps, SignIn!CallDrops, SignIn!Fails, SignIn!Opened
  <2>2. m1 = m /\ g1 = g /\ f1 = f
    BY <1>1, <1>15 DEF SignIn!LookUp, SignIn!Blocked, SignIn!Guessing, SignIn!Goto, SignIn!Keeps, SignIn!CallKeeps, SignIn!CallDrops, SignIn!Fails, SignIn!Opened, SignIn!Measured
  <2> HIDE DEF m, m1, g, g1, f, f1, Moves
  <2>3. Moves("known", "writing")
    BY <1>4, <2>1
  <2> QED BY <1>1, <1>6, <2>1, <2>2, <2>3 DEF Moves
<1>16. CASE SignIn!Write(c)
  <2>1. at[c] = "writing" /\ at' = [at EXCEPT ![c] = "written"]
    BY <1>1, <1>16 DEF SignIn!Write, SignIn!Blocked, SignIn!Goto, SignIn!Keeps, SignIn!CallKeeps, SignIn!CallDrops, SignIn!Fails, SignIn!Opened
  <2>2. m1 = m /\ g1 = g /\ (f1 = f \/ f1 = f + 1)
    BY <1>1, <1>16 DEF SignIn!Write, SignIn!Blocked, SignIn!Guessing, SignIn!Goto, SignIn!Keeps, SignIn!CallKeeps, SignIn!CallDrops, SignIn!Fails, SignIn!Opened, SignIn!Measured
  <2> HIDE DEF m, m1, g, g1, f, f1, Moves
  <2>3. Moves("writing", "written")
    BY <1>4, <2>1
  <2> QED BY <1>1, <1>6, <2>1, <2>2, <2>3 DEF Moves
<1>17. CASE SignIn!Answer(c)
  <2>1. at[c] = "written" /\ \E p \in {"idle", "closing"} : at' = [at EXCEPT ![c] = p]
    BY <1>1, <1>17 DEF SignIn!Answer, SignIn!Blocked, SignIn!Goto, SignIn!Keeps, SignIn!CallKeeps, SignIn!CallDrops, SignIn!Fails, SignIn!Opened
  <2>2. m1 = m /\ g1 = g /\ (f1 = f \/ f1 = f + 1)
    BY <1>1, <1>17 DEF SignIn!Answer, SignIn!Blocked, SignIn!Guessing, SignIn!Goto, SignIn!Keeps, SignIn!CallKeeps, SignIn!CallDrops, SignIn!Fails, SignIn!Opened, SignIn!Measured
  <2> HIDE DEF m, m1, g, g1, f, f1, Moves
  <2>3. \E p \in {"idle", "closing"} : Moves("written", p)
    BY <1>4, <2>1
  <2> QED BY <1>1, <1>6, <2>1, <2>2, <2>3 DEF Moves
<1>18. CASE SignIn!Close(c)
  <2>1. at[c] = "closing" /\ at' = [at EXCEPT ![c] = "idle"]
    BY <1>1, <1>18 DEF SignIn!Close, SignIn!Blocked, SignIn!Goto, SignIn!Keeps, SignIn!CallKeeps, SignIn!CallDrops, SignIn!Fails, SignIn!Opened
  <2>2. m1 = m /\ g1 = g /\ (f1 = f \/ f1 = f + 1)
    BY <1>1, <1>18 DEF SignIn!Close, SignIn!Blocked, SignIn!Guessing, SignIn!Goto, SignIn!Keeps, SignIn!CallKeeps, SignIn!CallDrops, SignIn!Fails, SignIn!Opened, SignIn!Measured
  <2> HIDE DEF m, m1, g, g1, f, f1, Moves
  <2>3. Moves("closing", "idle")
    BY <1>4, <2>1
  <2> QED BY <1>1, <1>6, <2>1, <2>2, <2>3 DEF Moves
<1>19. CASE SignIn!Die(c)
  <2>1. at[c] # "idle" /\ at' = [at EXCEPT ![c] = "idle"]
    BY <1>1, <1>19 DEF SignIn!Die, SignIn!Blocked, SignIn!Goto, SignIn!Keeps, SignIn!CallKeeps, SignIn!CallDrops, SignIn!Fails, SignIn!Opened
  <2>2. m1 = m /\ g1 = g /\ f1 = f + 1
    BY <1>1, <1>19 DEF SignIn!Die, SignIn!Blocked, SignIn!Guessing, SignIn!Goto, SignIn!Keeps, SignIn!CallKeeps, SignIn!CallDrops, SignIn!Fails, SignIn!Opened, SignIn!Measured
  <2> HIDE DEF m, m1, g, g1, f, f1, Moves
  <2>3. Moves(at[c], "idle")
    BY <1>4, <2>1
  <2> QED BY <1>1, <1>6, <2>1, <2>2, <2>3 DEF Moves
<1> QED BY <1>7, <1>8, <1>9, <1>10, <1>11, <1>12, <1>13, <1>14, <1>15, <1>16, <1>17, <1>18, <1>19 DEF SignIn!Call

\* No sign-in was made at first.
LEMMA SignInStarts == ASSUME SignIn!SignInAssumption PROVE SignIn!Init => SignIn!IInv
<1> SUFFICES ASSUME SignIn!Init PROVE SignIn!IInv
  OBVIOUS
<1>1. SignIn!TypeOK
  <2>1. /\ 0 \in 0..DeviceTokens /\ 1 \in 0..DeviceTokens /\ 0 \in 0..MaxAttempts
        /\ 0 \in 0..MaxSignInFaults
    BY DEF SignIn!SignInAssumption
  <2>2. /\ device \in [row : 0..DeviceTokens, digest : 0..DeviceTokens]
        /\ held \in 0..DeviceTokens /\ tokens \in 0..DeviceTokens
    BY <2>1 DEF SignIn!Init, SignIn!Absent
  <2>3. /\ attempts \in [SignInCalls -> 0..MaxAttempts] /\ token \in [SignInCalls -> 0..DeviceTokens]
        /\ known \in [SignInCalls -> 0..DeviceTokens] /\ signInFaults \in 0..MaxSignInFaults
    BY <2>1 DEF SignIn!Init
  <2>4. kind \in [SignInCalls -> SignIn!Kinds] /\ banned \in BOOLEAN
    BY DEF SignIn!Init
  <2>5. /\ at \in [SignInCalls -> {"idle", "asking", "refused", "opened", "checking", "known", "writing",
                                   "written", "closing"}]
        /\ session \in [SignInCalls -> {"none", "open", "kept"}]
    BY DEF SignIn!Init
  <2>6. /\ {late, excused} \subseteq SUBSET SignInCalls /\ {strays, orphans} \subseteq SUBSET (1..DeviceTokens)
        /\ {measured, guesses} \subseteq [SignIn!Guessing -> Nat]
    BY DEF SignIn!Init
  <2> QED BY <2>2, <2>3, <2>4, <2>5, <2>6 DEF SignIn!TypeOK
<1>2. SignIn!NoSessionAstray /\ SignIn!Owned /\ SignIn!Minted
  BY DEF SignIn!Init, SignIn!NoSessionAstray, SignIn!Owned, SignIn!Minted, SignIn!Absent, SignIn!Present
<1>3. SignIn!Counted
  <2> SUFFICES ASSUME NEW k \in SignIn!Guessing
               PROVE  /\ measured[k] <= GuessLimit + 1
                      /\ ~SignIn!Blocked(k) =>
                           guesses[k] <= measured[k] + Cardinality(SignIn!Uncounted(k)) + signInFaults
                      /\ SignIn!Blocked(k) =>
                           guesses[k] + Cardinality(SignIn!Asking(k))
                              <= GuessLimit + signInFaults + Cardinality({c \in SignInCalls : kind[c] = k})
    BY SignInSets DEF SignIn!Counted
  <2>1. SignIn!Uncounted(k) = {}
    BY DEF SignIn!Init, SignIn!Uncounted
  <2>2. Cardinality(SignIn!Uncounted(k)) = 0
    BY <2>1, FS_EmptySet
  <2>3. measured[k] = 0 /\ guesses[k] = 0 /\ signInFaults = 0
    BY DEF SignIn!Init
  <2>4. ~SignIn!Blocked(k) /\ GuessLimit \in Nat
    BY <2>3 DEF SignIn!Blocked, SignIn!SignInAssumption
  <2> QED BY <2>2, <2>3, <2>4
<1> QED BY <1>1, <1>2, <1>3 DEF SignIn!IInv

\* Each step of a sign-in, and of the bans beside it, keeps the invariant.
LEMMA SignInSteps ==
    ASSUME SignIn!SignInAssumption, SignIn!IInv, [SignIn!Next]_(SignIn!signInVars)
    PROVE  SignIn!IInv'
<1>1. ASSUME NEW c \in SignInCalls, SignIn!Call(c) PROVE SignIn!IInv'
  BY <1>1, SignInTypes, SignInOwned, SignInCounted, SignInMinted DEF SignIn!IInv
<1>2. ASSUME UNCHANGED <<kind, at, session, late, excused, measured, guesses, signInFaults>>,
             late # {} => banned'
      PROVE  SignIn!NoSessionAstray' /\ SignIn!Owned' /\ SignIn!Counted'
  <2>1. SignIn!NoSessionAstray' /\ SignIn!Owned'
    BY <1>2 DEF SignIn!IInv, SignIn!NoSessionAstray, SignIn!Owned
  <2>2. SignIn!Counted'
    BY <1>2 DEF SignIn!IInv, SignIn!Counted, SignIn!Blocked, SignIn!Asking, SignIn!Uncounted
  <2> QED BY <2>1, <2>2
<1>3. CASE SignIn!Ban
  <2>1. SignIn!TypeOK' /\ SignIn!Minted'
    BY <1>3 DEF SignIn!Ban, SignIn!IInv, SignIn!TypeOK, SignIn!Minted, SignIn!Present
  <2>2. /\ UNCHANGED <<kind, at, session, late, excused, measured, guesses, signInFaults>>
        /\ late # {} => banned'
    BY <1>3 DEF SignIn!Ban
  <2> QED BY <1>2, <2>1, <2>2 DEF SignIn!IInv
<1>4. CASE SignIn!Kick
  <2>1. SignIn!TypeOK' /\ SignIn!Minted'
    BY <1>4 DEF SignIn!Kick, SignIn!IInv, SignIn!TypeOK, SignIn!Minted, SignIn!Present, SignIn!Absent,
       SignIn!SignInAssumption
  <2>2. /\ UNCHANGED <<kind, at, session, late, excused, measured, guesses, signInFaults>>
        /\ late # {} => banned'
    BY <1>4 DEF SignIn!Kick, SignIn!IInv, SignIn!Owned
  <2> QED BY <1>2, <2>1, <2>2 DEF SignIn!IInv
<1>5. CASE UNCHANGED SignIn!signInVars
  <2>1. SignIn!TypeOK' /\ SignIn!Minted'
    BY <1>5 DEF SignIn!signInVars, SignIn!IInv, SignIn!TypeOK, SignIn!Minted, SignIn!Present
  <2>2. /\ UNCHANGED <<kind, at, session, late, excused, measured, guesses, signInFaults>>
        /\ late # {} => banned'
    BY <1>5 DEF SignIn!signInVars, SignIn!IInv, SignIn!Owned
  <2> QED BY <1>2, <2>1, <2>2 DEF SignIn!IInv
<1> QED BY <1>1, <1>3, <1>4, <1>5 DEF SignIn!Next

\* What was guessed is within the limit, the token of the client in the row, and no session astray.
LEMMA SignInKept ==
    ASSUME SignIn!SignInAssumption, SignIn!IInv
    PROVE  /\ SignIn!GuessesBounded /\ SignIn!DeviceTokenKnown /\ SignIn!NoSessionAstray
           /\ SignIn!TypeOK
<1>1. ASSUME NEW k \in SignIn!Guessing
      PROVE  guesses[k] <= GuessLimit + signInFaults + Cardinality({c \in SignInCalls : kind[c] = k})
  <2> DEFINE A == Cardinality(SignIn!Asking(k))
             U == Cardinality(SignIn!Uncounted(k))
             K == Cardinality({c \in SignInCalls : kind[c] = k})
  <2>1. A \in Nat /\ U \in Nat /\ K \in Nat /\ U <= K
    <3>1. IsFiniteSet(SignInCalls)
      BY SignInSets DEF SignIn!SignInAssumption
    <3>2. /\ IsFiniteSet(SignIn!Asking(k)) /\ IsFiniteSet({c \in SignInCalls : kind[c] = k})
      BY <3>1, FS_Subset DEF SignIn!Asking
    <3>3. SignIn!Uncounted(k) \subseteq {c \in SignInCalls : kind[c] = k}
      BY DEF SignIn!Uncounted
    <3> QED BY <3>2, <3>3, FS_Subset, FS_CardinalityType
  <2>2. /\ ~(measured[k] > GuessLimit) => guesses[k] <= measured[k] + U + signInFaults
        /\ measured[k] > GuessLimit => guesses[k] + A <= GuessLimit + signInFaults + K
    BY SignInSets DEF SignIn!IInv, SignIn!Counted, SignIn!Blocked
  <2>3. measured[k] \in Nat /\ guesses[k] \in Nat /\ GuessLimit \in Nat /\ signInFaults \in Nat
    BY DEF SignIn!IInv, SignIn!TypeOK, SignIn!SignInAssumption, SignIn!Guessing
  <2> HIDE DEF A, U, K
  <2>4. guesses[k] <= GuessLimit + signInFaults + K
    BY <2>1, <2>2, <2>3
  <2> QED BY <2>4 DEF K
<1>2. SignIn!GuessesBounded
  BY <1>1, SignInSets DEF SignIn!GuessesBounded
<1> QED BY <1>2 DEF SignIn!IInv, SignIn!Minted, SignIn!DeviceTokenKnown
===============================================================================
