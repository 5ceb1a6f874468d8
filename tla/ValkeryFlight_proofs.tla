------------------------- MODULE ValkeryFlight_proofs -------------------------
(* Theorems of ValkeryFlight, for any calls, replicas and number of faults. *)
EXTENDS ValkeryFlight, TLAPS

-----------------------------------------------------------------------------
(* The operators of the model.                                             *)

\* A value made late is still a value.
LEMMA LateType ==
    ASSUME NEW value \in Values \cup {None}, NEW v
    PROVE  Late(value, v) \in Values \cup {None}
BY DEF Late, Values

\* The token of a run or of a refresh is a token, and names a call.
LEMMA WorksAreOwners ==
    /\ Works \subseteq Owners
    /\ \A w \in Works : w[1] \in Calls /\ w = <<w[1], w[2]>> /\ w[2] \in {"fill", "ahead"}
    /\ \A w \in Works : <<w[1], "lost">> \in Owners
    /\ \A c \in Calls : <<c, "fill">> \in Works /\ <<c, "ahead">> \in Works
    /\ \A c, d \in Calls : <<c, "fill">> # <<d, "ahead">>
    /\ \A c, d \in Calls : <<c, "ahead">> = <<d, "ahead">> => c = d
BY DEF Works, Owners

\* Neither a call nor a token stands for none.
LEMMA NoneIsNobody == None \notin Calls /\ None \notin Owners /\ None \notin Works
BY FlightAssumption, WorksAreOwners

\* A fault is counted within its bound.
LEMMA FaultType ==
    ASSUME TypeOK, Fault \/ UNCHANGED faults
    PROVE  faults' \in 0..MaxFaults
<1>1. MaxFaults \in Nat
  BY FlightAssumption
<1> QED BY <1>1 DEF Fault, TypeOK

\* What the end of a run leaves of the calls is well typed.
LEMMA AnswerType ==
    ASSUME TypeOK, NEW c \in Calls, NEW value, Answer(c, value)
    PROVE  /\ inFlight' \in [Replicas -> Calls \cup {None}]
           /\ replaced' \subseteq Calls
           /\ call' \in [Calls -> {"out", "joined", "own", "ended"}]
           /\ joins' \in [Calls -> Calls \cup {None}]
           /\ since' \in [Calls -> 0..MaxChanges]
           /\ outdated' \subseteq Calls
<1>1. At[c] \in Replicas
  BY FlightAssumption
<1>2. 0 \in 0..MaxChanges
  BY FlightAssumption
<1> QED BY <1>1, <1>2 DEF Answer, Ended, Unregister, TypeOK

\* So is what the start of one leaves.
LEMMA BeginType ==
    ASSUME TypeOK, NEW c \in Calls, Begin(c)
    PROVE  /\ inFlight' \in [Replicas -> Calls \cup {None}]
           /\ replaced' \subseteq Calls
           /\ call' \in [Calls -> {"out", "joined", "own", "ended"}]
           /\ stage' = [stage EXCEPT ![<<c, "fill">>] = "read"]
BY FlightAssumption DEF Begin, TypeOK

-----------------------------------------------------------------------------
(* Type correctness.                                                       *)

\* The initial state has the declared types.
LEMMA InitType == Init => TypeOK
BY FlightAssumption DEF Init, TypeOK, Works, Owners, Computing

\* A project, Redis and the clocks leave the state well typed.
LEMMA OutsideType ==
    ASSUME TypeOK,
           \/ Change \/ Expires \/ LeaseEnds
           \/ \E v \in toForget : Forget(v) \/ ForgetFails(v)
    PROVE  TypeOK'
<1>1. CASE Change
  BY <1>1, FlightAssumption DEF Change, TypeOK, calls, works, Computing
<1>2. CASE Expires
  BY <1>2 DEF Expires, TypeOK, calls, works, Computing
<1>3. CASE LeaseEnds
  BY <1>3 DEF LeaseEnds, TypeOK, cached, calls, works, Computing
<1>4. ASSUME NEW v \in toForget, Forget(v) PROVE TypeOK'
  <2>1. held' \in [Works -> Values \cup {None}]
    BY <1>4, LateType DEF Forget, TypeOK
  <2> QED BY <1>4, <2>1 DEF Forget, TypeOK, calls, works, Computing
<1>5. ASSUME NEW v \in toForget, ForgetFails(v) PROVE TypeOK'
  BY <1>5, FaultType DEF ForgetFails, TypeOK, calls, works, Computing
<1> QED BY <1>1, <1>2, <1>3, <1>4, <1>5

\* The calls of a replica leave it well typed.
LEMMA CallType ==
    ASSUME TypeOK, RunInv, NEW c \in Calls, Start(c) \/ Join(c) \/ Leave(c)
    PROVE  TypeOK'
<1>1. ASSUME Start(c) \/ Leave(c) PROVE TypeOK'
  <2>1. Begin(c) /\ stage[<<c, "fill">>] = "idle"
    BY <1>1, WorksAreOwners DEF Start, Leave, RunInv, UnderWay
  <2>2. /\ UNCHANGED <<cached, lock, held, locked, overran, hung, faults, outdated>>
        /\ joins' \in [Calls -> Calls \cup {None}]
        /\ since' \in [Calls -> 0..MaxChanges]
    BY <1>1 DEF Start, Leave, TypeOK, cached
  <2>3. /\ stage' \in [Works -> {"idle", "read", "lock", "wait", "compute", "write", "release"}]
        /\ \A d \in Calls : stage'[<<d, "ahead">>] \notin {"read", "wait"}
        /\ \A w \in locked : stage'[w] = stage[w]
    <3> DEFINE f == <<c, "fill">>
    <3>1. f \in Works /\ f \notin locked /\ stage' = [stage EXCEPT ![f] = "read"]
      BY <2>1, BeginType, WorksAreOwners DEF TypeOK, Computing
    <3>2. \A d \in Calls : <<d, "ahead">> \in Works /\ <<d, "ahead">> # f
      BY WorksAreOwners
    <3> HIDE DEF f
    <3> QED BY <3>1, <3>2 DEF TypeOK
  <2> QED BY <2>1, <2>2, <2>3, BeginType DEF TypeOK, cached, Computing
<1>2. CASE Join(c)
  BY <1>2, FlightAssumption DEF Join, TypeOK, cached, works, Computing
<1> QED BY <1>1, <1>2

\* What the step of a run or a refresh makes of its stage and of what it has, whoever it
\* answers, is well typed.
LEMMA GoesType ==
    ASSUME TypeOK, NEW w \in Works, NEW to, Goes(w, to),
           to \in {"idle", "lock", "wait", "compute", "write", "release"},
           w[2] = "ahead" => to # "wait",
           w \notin locked' \/ to \in {"compute", "write", "release"},
           locked' \subseteq locked \cup {w}
    PROVE  /\ stage' \in [Works -> {"idle", "read", "lock", "wait", "compute", "write", "release"}]
           /\ \A d \in Calls : stage'[<<d, "ahead">>] \notin {"read", "wait"}
           /\ locked' \subseteq {v \in Works : Computing(v)' \/ stage'[v] = "release"}
BY WorksAreOwners DEF Goes, TypeOK, Computing

\* A run or a refresh that is over leaves the state well typed.
LEMMA OverType ==
    ASSUME TypeOK, NEW w \in Works, Over(w)
    PROVE  /\ stage' \in [Works -> {"idle", "read", "lock", "wait", "compute", "write", "release"}]
           /\ \A d \in Calls : stage'[<<d, "ahead">>] \notin {"read", "wait"}
           /\ locked' \subseteq {v \in Works : Computing(v)' \/ stage'[v] = "release"}
           /\ held' \in [Works -> Values \cup {None}]
           /\ overran' \subseteq locked'
           /\ inFlight' \in [Replicas -> Calls \cup {None}]
           /\ replaced' \subseteq Calls
           /\ call' \in [Calls -> {"out", "joined", "own", "ended"}]
           /\ joins' \in [Calls -> Calls \cup {None}]
           /\ since' \in [Calls -> 0..MaxChanges]
           /\ outdated' \subseteq Calls
<1>1. Goes(w, "idle") /\ locked' = locked \ {w} /\ overran' = overran \ {w}
      /\ held' = [held EXCEPT ![w] = None]
  BY DEF Over
<1>2. /\ stage' \in [Works -> {"idle", "read", "lock", "wait", "compute", "write", "release"}]
      /\ \A d \in Calls : stage'[<<d, "ahead">>] \notin {"read", "wait"}
      /\ locked' \subseteq {v \in Works : Computing(v)' \/ stage'[v] = "release"}
  BY <1>1, GoesType
<1>3. CASE IsFill(w)
  <2>1. w[1] \in Calls /\ Answer(w[1], held[w])
    BY <1>3, WorksAreOwners DEF Over
  <2> QED BY <1>1, <1>2, <2>1, AnswerType DEF TypeOK
<1>4. CASE ~IsFill(w)
  BY <1>1, <1>2, <1>4 DEF Over, TypeOK, calls
<1> QED BY <1>3, <1>4

\* So does one that ends, with the lock still to release.
LEMMA EndsType ==
    ASSUME TypeOK, NEW w \in Works, Ends(w)
    PROVE  /\ stage' \in [Works -> {"idle", "read", "lock", "wait", "compute", "write", "release"}]
           /\ \A d \in Calls : stage'[<<d, "ahead">>] \notin {"read", "wait"}
           /\ locked' \subseteq {v \in Works : Computing(v)' \/ stage'[v] = "release"}
           /\ held' \in [Works -> Values \cup {None}]
           /\ overran' \subseteq locked'
           /\ inFlight' \in [Replicas -> Calls \cup {None}]
           /\ replaced' \subseteq Calls
           /\ call' \in [Calls -> {"out", "joined", "own", "ended"}]
           /\ joins' \in [Calls -> Calls \cup {None}]
           /\ since' \in [Calls -> 0..MaxChanges]
           /\ outdated' \subseteq Calls
<1>1. CASE w \in locked
  <2>1. Goes(w, "release") /\ UNCHANGED <<held, locked, overran, calls>>
    BY <1>1 DEF Ends
  <2>2. /\ stage' \in [Works -> {"idle", "read", "lock", "wait", "compute", "write", "release"}]
        /\ \A d \in Calls : stage'[<<d, "ahead">>] \notin {"read", "wait"}
        /\ locked' \subseteq {v \in Works : Computing(v)' \/ stage'[v] = "release"}
    BY <2>1, GoesType
  <2> QED BY <2>1, <2>2 DEF TypeOK, calls
<1>2. CASE w \notin locked
  BY <1>2, OverType DEF Ends
<1> QED BY <1>1, <1>2

\* A run or a refresh takes a step.
LEMMA WorkType ==
    ASSUME TypeOK, RunInv, NEW w \in Works, Work(w) \/ Hang(w)
    PROVE  TypeOK'
<1>0. w \in Owners /\ w[1] \in Calls /\ <<w[1], "lost">> \in Owners
  BY WorksAreOwners
<1>1. CASE Acquire(w)
  <2>1. Goes(w, "compute") /\ locked' = locked \cup {w}
    BY <1>1 DEF Acquire
  <2> QED BY <1>0, <1>1, <2>1, GoesType DEF Acquire, TypeOK, cached, calls, Computing
<1>2. CASE Lose(w)
  <2>1. w \notin locked /\ locked' = locked
    BY <1>2 DEF Lose, TypeOK, Computing
  <2>2. PICK to \in {"wait", "idle"} : Goes(w, to) /\ (w[2] = "ahead" => to # "wait")
    BY <1>2 DEF Lose, IsFill
  <2> QED BY <1>2, <2>1, <2>2, GoesType DEF Lose, TypeOK, cached, calls, Computing
<1>3. CASE LockFails(w)
  <2>1. w \notin locked /\ locked' = locked
    BY <1>3 DEF LockFails, TypeOK, Computing
  <2>2. PICK to \in {"compute", "idle"} : Goes(w, to)
    BY <1>3 DEF LockFails
  <2>3. lock' \in Owners \cup {None}
    BY <1>0, <1>3 DEF LockFails, TypeOK
  <2> QED
    BY <1>3, <2>1, <2>2, <2>3, GoesType, FaultType
    DEF LockFails, TypeOK, cached, calls, Computing
<1>4. CASE Compute(w)
  <2>1. Goes(w, "write") /\ locked' = locked
    BY <1>4 DEF Compute
  <2>2. held' \in [Works -> Values \cup {None}]
    BY <1>4 DEF Compute, TypeOK, Values
  <2> QED BY <1>4, <2>1, <2>2, GoesType DEF Compute, TypeOK, cached, calls, Computing
<1>5. CASE Raise(w)
  BY <1>5, EndsType, FaultType DEF Raise, TypeOK, cached, Computing
<1>6. CASE Write(w)
  <2>1. Ends(w)
    BY <1>6 DEF Write
  <2>2. entry' \in Values \cup {None} /\ faults' \in 0..MaxFaults
    BY <1>6, FaultType DEF Write, TypeOK
  <2> QED BY <1>6, <2>1, <2>2, EndsType DEF Write, TypeOK, Computing
<1>7. CASE Release(w)
  <2>1. Over(w)
    BY <1>7 DEF Release
  <2>2. lock' \in Owners \cup {None} /\ faults' \in 0..MaxFaults
    BY <1>7, FaultType DEF Release, TypeOK
  <2> QED BY <1>7, <2>1, <2>2, OverType DEF Release, TypeOK, cached, Computing
<1>8. CASE IsFill(w) /\ Hit(w[1])
  <2> DEFINE a == <<w[1], "ahead">>
  <2>1. w = <<w[1], "fill">> /\ a \in Works /\ a # w
    BY <1>8, WorksAreOwners DEF IsFill
  <2>2. w \notin locked /\ a \notin locked
    BY <1>0, <1>8, <2>1 DEF Hit, TypeOK, RunInv, UnderWay, Computing
  <2>3. Answer(w[1], entry) /\ UNCHANGED <<cached, lock, held, locked, overran, hung, faults>>
    BY <1>8 DEF Hit
  <2>4. \/ stage' = [stage EXCEPT ![w] = "idle"]
        \/ stage' = [stage EXCEPT ![w] = "idle", ![a] = "lock"]
    BY <1>8, <2>1 DEF Hit, Goes
  <2>5. /\ stage' \in [Works -> {"idle", "read", "lock", "wait", "compute", "write", "release"}]
        /\ \A d \in Calls : stage'[<<d, "ahead">>] \notin {"read", "wait"}
        /\ \A v \in locked : stage'[v] = stage[v]
    <3>1. \A d \in Calls : <<d, "ahead">> \in Works /\ <<d, "ahead">> # w
      BY <1>0, <2>1, WorksAreOwners
    <3> HIDE DEF a
    <3> QED BY <2>1, <2>2, <2>4, <3>1 DEF TypeOK
  <2> QED BY <1>0, <2>3, <2>5, AnswerType DEF TypeOK, cached, Computing
<1>9. CASE IsFill(w) /\ Miss(w[1])
  <2>1. w = <<w[1], "fill">>
    BY <1>9, WorksAreOwners DEF IsFill
  <2>2. w \notin locked /\ locked' = locked /\ Goes(w, "lock")
    BY <1>9, <2>1 DEF Miss, TypeOK, Computing
  <2> QED BY <1>9, <2>2, GoesType, FaultType DEF Miss, TypeOK, cached, calls, Computing
<1>10. CASE IsFill(w) /\ ReadBack(w[1])
  <2>1. w = <<w[1], "fill">>
    BY <1>10, WorksAreOwners DEF IsFill
  <2>2. w \notin locked /\ locked' = locked /\ Goes(w, "idle") /\ Answer(w[1], entry)
    BY <1>10, <2>1 DEF ReadBack, TypeOK, Computing
  <2> QED BY <1>0, <1>10, <2>2, GoesType, AnswerType DEF ReadBack, TypeOK, cached, Computing
<1>11. CASE IsFill(w) /\ GiveUp(w[1])
  <2>1. w = <<w[1], "fill">>
    BY <1>11, WorksAreOwners DEF IsFill
  <2>2. w \notin locked /\ locked' = locked /\ Goes(w, "compute")
    BY <1>11, <2>1 DEF GiveUp, TypeOK, Computing
  <2> QED BY <1>11, <2>2, GoesType DEF GiveUp, TypeOK, cached, calls, Computing
<1>12. CASE Hang(w)
  BY <1>12, FaultType DEF Hang, TypeOK, cached, calls, Computing
<1> QED BY <1>1, <1>2, <1>3, <1>4, <1>5, <1>6, <1>7, <1>8, <1>9, <1>10, <1>11, <1>12 DEF Work

\* The death of a replica leaves the state well typed.
LEMMA CrashType ==
    ASSUME TypeOK, NEW r \in Replicas, Crash(r)
    PROVE  TypeOK'
<1>1. /\ stage' \in [Works -> {"idle", "read", "lock", "wait", "compute", "write", "release"}]
      /\ \A c \in Calls : stage'[<<c, "ahead">>] \notin {"read", "wait"}
      /\ \A w \in locked' : stage'[w] = stage[w]
  BY WorksAreOwners DEF Crash, TypeOK
<1>2. /\ call' \in [Calls -> {"out", "joined", "own", "ended"}]
      /\ joins' \in [Calls -> Calls \cup {None}]
      /\ since' \in [Calls -> 0..MaxChanges]
  <2>1. 0 \in 0..MaxChanges
    BY FlightAssumption
  <2> QED BY <2>1 DEF Crash, Ended, TypeOK
<1>3. /\ held' \in [Works -> Values \cup {None}]
      /\ locked' \subseteq locked /\ overran' \subseteq locked' /\ hung' \subseteq Works
  BY DEF Crash, TypeOK
<1>4. inFlight' \in [Replicas -> Calls \cup {None}] /\ replaced' \subseteq Calls
  BY DEF Crash, TypeOK
<1>5. faults' \in 0..MaxFaults /\ UNCHANGED <<cached, lock, outdated>>
  BY FaultType DEF Crash
<1> QED BY <1>1, <1>2, <1>3, <1>4, <1>5 DEF TypeOK, cached, Computing

\* What the end of the run of c does to the calls.
LEMMA AnswerCalls ==
    ASSUME TypeOK, NEW c \in Calls, NEW value, Answer(c, value)
    PROVE  /\ call'[c] = "ended"
           /\ \A d \in Calls : d # c => (call'[d] = "own" <=> call[d] = "own")
           /\ \A d \in Calls : call'[d] # "ended" => call[d] # "ended"
BY DEF Answer, Ended, TypeOK

\* What the start of a run of c does to them.
LEMMA BeginCalls ==
    ASSUME TypeOK, NEW c \in Calls, Begin(c)
    PROVE  /\ call'[c] = "own" /\ stage'[<<c, "fill">>] = "read"
           /\ \A d \in Calls \ {c} : call'[d] = call[d]
           /\ \A d \in Calls \ {c} : stage'[<<d, "fill">>] = stage[<<d, "fill">>]
           /\ \A d \in Calls : stage'[<<d, "ahead">>] = stage[<<d, "ahead">>]
<1> DEFINE f == <<c, "fill">>
<1>1. f \in Works /\ stage' = [stage EXCEPT ![f] = "read"]
  BY WorksAreOwners DEF Begin
<1>2. \A d \in Calls : <<d, "ahead">> \in Works /\ <<d, "ahead">> # f
  BY WorksAreOwners
<1>3. \A d \in Calls \ {c} : <<d, "fill">> \in Works /\ <<d, "fill">> # f
  BY WorksAreOwners
<1>4. call'[c] = "own" /\ \A d \in Calls \ {c} : call'[d] = call[d]
  BY DEF Begin, TypeOK
<1> HIDE DEF f
<1>5. stage'[f] = "read" /\ \A v \in Works : v # f => stage'[v] = stage[v]
  BY <1>1 DEF TypeOK
<1> QED BY <1>2, <1>3, <1>4, <1>5 DEF f

\* A step of a run that goes on, or of a refresh, leaves RunInv as it was.
LEMMA RunGoesOn ==
    ASSUME TypeOK, RunInv, NEW w \in Works, NEW to, Goes(w, to), UNCHANGED call,
           stage[w] # "idle", IsFill(w) => to # "idle"
    PROVE  RunInv'
<1>1. /\ stage'[w] = to
      /\ \A v \in Works : v # w => stage'[v] = stage[v]
  BY DEF Goes, TypeOK
<1>2. \A c \in Calls : /\ <<c, "fill">> \in Works /\ <<c, "ahead">> \in Works
                       /\ <<c, "fill">> = w => IsFill(w)
  BY WorksAreOwners DEF IsFill
<1>3. \A c \in Calls : UnderWay(c)' <=> UnderWay(c)
  BY <1>1, <1>2 DEF UnderWay
<1>4. \A c \in Calls : stage[<<c, "ahead">>] = "idle" => stage'[<<c, "ahead">>] = "idle"
  BY <1>1, <1>2
<1> QED BY <1>3, <1>4 DEF RunInv

\* So does the end of the run of a call.
LEMMA RunAnswers ==
    ASSUME TypeOK, RunInv, NEW c \in Calls, NEW value, Answer(c, value),
           stage'[<<c, "fill">>] = "idle",
           \A d \in Calls : /\ d # c => stage'[<<d, "fill">>] = stage[<<d, "fill">>]
                            /\ d # c => stage'[<<d, "ahead">>] = stage[<<d, "ahead">>]
    PROVE  RunInv'
<1>1. \A d \in Calls : UnderWay(d)' <=> (call'[d] = "own")
  <2> SUFFICES ASSUME NEW d \in Calls PROVE UnderWay(d)' <=> (call'[d] = "own")
    OBVIOUS
  <2>1. CASE d = c
    BY <2>1, AnswerCalls DEF UnderWay
  <2>2. CASE d # c
    BY <2>2, AnswerCalls DEF UnderWay, RunInv
  <2> QED BY <2>1, <2>2
<1>2. \A d \in Calls : call'[d] # "ended" => stage'[<<d, "ahead">>] = "idle"
  BY AnswerCalls DEF RunInv
<1> QED BY <1>1, <1>2 DEF RunInv

\* A run or a refresh that ends, with or without the lock, leaves it.
LEMMA RunEnds ==
    ASSUME TypeOK, RunInv, NEW w \in Works, Ends(w) \/ Over(w), stage[w] # "idle"
    PROVE  RunInv'
<1>1. CASE Goes(w, "release") /\ UNCHANGED calls
  BY <1>1, RunGoesOn DEF calls
<1>2. CASE Over(w) /\ IsFill(w)
  <2>1. w[1] \in Calls /\ w = <<w[1], "fill">> /\ Answer(w[1], held[w]) /\ Goes(w, "idle")
    BY <1>2, WorksAreOwners DEF Over, IsFill
  <2>2. stage'[w] = "idle" /\ \A v \in Works : v # w => stage'[v] = stage[v]
    BY <2>1 DEF Goes, TypeOK
  <2>3. \A d \in Calls : /\ d # w[1] => <<d, "fill">> \in Works /\ <<d, "fill">> # w
                         /\ <<d, "ahead">> \in Works /\ <<d, "ahead">> # w
    BY <2>1, WorksAreOwners
  <2> QED BY <2>1, <2>2, <2>3, RunAnswers
<1>3. CASE Over(w) /\ ~IsFill(w)
  BY <1>3, RunGoesOn DEF Over, calls
<1> QED BY <1>1, <1>2, <1>3 DEF Ends

\* Every step leaves it.
LEMMA NextRun ==
    ASSUME TypeOK, RunInv, [Next]_vars
    PROVE  RunInv'
<1>1. CASE \/ Change \/ Expires \/ LeaseEnds \/ UNCHANGED vars
           \/ \E v \in toForget : Forget(v) \/ ForgetFails(v)
  <2>1. UNCHANGED <<call, stage>>
    BY <1>1 DEF Change, Expires, LeaseEnds, Forget, ForgetFails, vars, calls, works
  <2> QED BY <2>1 DEF RunInv, UnderWay
<1>2. ASSUME NEW c \in Calls, Start(c) \/ Leave(c) PROVE RunInv'
  <2>1. Begin(c) /\ call[c] # "ended"
    BY <1>2 DEF Start, Leave
  <2>2. \A d \in Calls : UnderWay(d)' <=> (call'[d] = "own")
    <3>1. call'[c] = "own" /\ UnderWay(c)'
      BY <2>1, BeginCalls DEF UnderWay
    <3>2. \A d \in Calls \ {c} : call'[d] = call[d] /\ (UnderWay(d)' <=> UnderWay(d))
      BY <2>1, BeginCalls DEF UnderWay
    <3> QED BY <3>1, <3>2 DEF RunInv
  <2>3. \A d \in Calls : call'[d] # "ended" => stage'[<<d, "ahead">>] = "idle"
    BY <2>1, BeginCalls DEF RunInv
  <2> QED BY <2>2, <2>3 DEF RunInv
<1>3. ASSUME NEW c \in Calls, Join(c) PROVE RunInv'
  <2>1. stage' = stage /\ call[c] = "out" /\ call' = [call EXCEPT ![c] = "joined"]
    BY <1>3 DEF Join, works
  <2> QED BY <2>1 DEF RunInv, UnderWay, TypeOK
<1>4. ASSUME NEW w \in Works, Work(w) \/ Hang(w) PROVE RunInv'
  <2>0. w[1] \in Calls /\ (IsFill(w) => w = <<w[1], "fill">>)
    BY WorksAreOwners DEF IsFill
  <2>1. CASE Acquire(w)
    BY <2>1, RunGoesOn DEF Acquire, calls
  <2>2. CASE Lose(w)
    BY <2>2, RunGoesOn DEF Lose, calls
  <2>3. CASE LockFails(w)
    BY <2>3, RunGoesOn DEF LockFails, calls
  <2>4. CASE Compute(w)
    BY <2>4, RunGoesOn DEF Compute, calls
  <2>5. CASE Raise(w) \/ Write(w) \/ Release(w)
    BY <2>5, RunEnds DEF Raise, Write, Release
  <2>6. CASE IsFill(w) /\ (Miss(w[1]) \/ GiveUp(w[1]))
    BY <2>0, <2>6, RunGoesOn DEF Miss, GiveUp, calls
  <2>7. CASE IsFill(w) /\ ReadBack(w[1])
    <3>1. w = <<w[1], "fill">> /\ Goes(w, "idle") /\ Answer(w[1], entry)
      BY <2>0, <2>7 DEF ReadBack
    <3>2. stage'[w] = "idle" /\ \A v \in Works : v # w => stage'[v] = stage[v]
      BY <3>1 DEF Goes, TypeOK
    <3>3. \A d \in Calls : /\ d # w[1] => <<d, "fill">> \in Works /\ <<d, "fill">> # w
                           /\ <<d, "ahead">> \in Works /\ <<d, "ahead">> # w
      BY <3>1, <2>0, WorksAreOwners
    <3> QED BY <2>0, <3>1, <3>2, <3>3, RunAnswers
  <2>8. CASE IsFill(w) /\ Hit(w[1])
    <3> DEFINE a == <<w[1], "ahead">>
    <3>1. w = <<w[1], "fill">> /\ Answer(w[1], entry) /\ a \in Works /\ a # w
      BY <2>0, <2>8, WorksAreOwners DEF Hit
    <3>2. \/ stage' = [stage EXCEPT ![w] = "idle"]
          \/ stage' = [stage EXCEPT ![w] = "idle", ![a] = "lock"]
      BY <2>8, <3>1 DEF Hit, Goes
    <3>3. \A d \in Calls : d # w[1] => /\ <<d, "fill">> \in Works /\ <<d, "fill">> \notin {w, a}
                                       /\ <<d, "ahead">> \in Works /\ <<d, "ahead">> \notin {w, a}
      BY <3>1, <2>0, WorksAreOwners
    <3> HIDE DEF a
    <3>4. stage'[w] = "idle" /\ \A v \in Works : v \notin {w, a} => stage'[v] = stage[v]
      BY <3>1, <3>2 DEF TypeOK
    <3> QED BY <2>0, <3>1, <3>3, <3>4, RunAnswers
  <2>9. CASE Hang(w)
    BY <2>9 DEF Hang, calls, RunInv, UnderWay
  <2> QED BY <1>4, <2>1, <2>2, <2>3, <2>4, <2>5, <2>6, <2>7, <2>8, <2>9 DEF Work
<1>5. ASSUME NEW r \in Replicas, Crash(r) PROVE RunInv'
  <2>1. \A w \in Works : stage'[w] = IF At[w[1]] = r THEN "idle" ELSE stage[w]
    BY <1>5 DEF Crash
  <2>2. \A c \in Calls : call'[c] = IF At[c] = r /\ call[c] \in {"own", "joined"}
                                      THEN "ended" ELSE call[c]
    BY <1>5 DEF Crash, Ended
  <2>3. \A c \in Calls : /\ <<c, "fill">> \in Works /\ <<c, "fill">>[1] = c
                         /\ <<c, "ahead">> \in Works /\ <<c, "ahead">>[1] = c
    BY WorksAreOwners
  <2>4. \A c \in Calls : UnderWay(c)' <=> (call'[c] = "own")
    BY <2>1, <2>2, <2>3 DEF RunInv, UnderWay
  <2>5. \A c \in Calls : call'[c] # "ended" => stage'[<<c, "ahead">>] = "idle"
    BY <2>1, <2>2, <2>3 DEF RunInv
  <2> QED BY <2>4, <2>5 DEF RunInv
<1> QED BY <1>1, <1>2, <1>3, <1>4, <1>5 DEF Next

\* Each step leaves the state well typed.
LEMMA NextType ==
    ASSUME TypeOK, RunInv, [Next]_vars
    PROVE  TypeOK'
<1>1. CASE UNCHANGED vars
  BY <1>1 DEF TypeOK, vars, cached, calls, works, Computing
<1>2. CASE Next
  BY <1>2, OutsideType, CallType, WorkType, CrashType DEF Next
<1> QED BY <1>1, <1>2

\* Both hold in every state.
LEMMA TypeAndRuns == Spec => [](TypeOK /\ RunInv)
<1>1. Init => TypeOK /\ RunInv
  BY InitType, WorksAreOwners DEF Init, RunInv, UnderWay
<1>2. TypeOK /\ RunInv /\ [Next]_vars => TypeOK' /\ RunInv'
  BY NextType, NextRun
<1> QED BY <1>1, <1>2, PTL DEF Spec

\* The state is well typed: whatever runs answer, are replaced, lose the lock or die, only
\* those that compute, write or release have been told they have it.
THEOREM TypeCorrect == Spec => []TypeOK
BY TypeAndRuns, PTL

-----------------------------------------------------------------------------
(* The lock.                                                               *)

\* Those the lock was given to only lose it, by release, by their death, or at the end of
\* its lease, except for the one that takes it from nobody.
LEMMA NextLock ==
    ASSUME TypeOK, LockInv, [Next]_vars
    PROVE  LockInv'
<1> USE DEF LockInv
<1>1. CASE UNCHANGED <<lock, locked, overran>>
  BY <1>1
<1>2. CASE LeaseEnds
  <2>1. locked' = locked /\ overran' = overran \cup (locked \cap {lock})
    BY <1>2 DEF LeaseEnds
  <2> QED BY <2>1
<1>3. ASSUME NEW w \in Works, Acquire(w) PROVE LockInv'
  <2>1. lock = None /\ lock' = w /\ locked' = locked \cup {w} /\ overran' = overran
    BY <1>3 DEF Acquire
  <2>2. locked \ overran = {}
    BY <2>1, NoneIsNobody DEF TypeOK
  <2> QED BY <2>1, <2>2
<1>4. ASSUME NEW w \in Works, LockFails(w) PROVE LockInv'
  <2>1. /\ lock' = lock \/ lock = None
        /\ UNCHANGED <<locked, overran>>
    BY <1>4 DEF LockFails
  <2>2. lock = None => locked \ overran = {}
    BY NoneIsNobody DEF TypeOK
  <2> QED BY <2>1, <2>2
<1>5. ASSUME NEW w \in Works, Raise(w) \/ Write(w) PROVE LockInv'
  <2>1. lock' = lock /\ locked' \ overran' \subseteq locked \ overran
    BY <1>5 DEF Raise, Write, Ends, Over
  <2> QED BY <2>1
<1>6. ASSUME NEW w \in Works, Release(w) PROVE LockInv'
  <2>1. /\ lock' = lock \/ (lock = w /\ lock' = None)
        /\ locked' = locked \ {w} /\ overran' = overran \ {w}
    BY <1>6 DEF Release, Over
  <2> QED BY <2>1
<1>7. ASSUME NEW r \in Replicas, Crash(r) PROVE LockInv'
  <2>1. lock' = lock /\ locked' \ overran' \subseteq locked \ overran
    BY <1>7 DEF Crash
  <2> QED BY <2>1
<1>8. ASSUME NEW w \in Works, Lose(w) \/ Compute(w) \/ Hang(w) PROVE LockInv'
  BY <1>8 DEF Lose, Compute, Hang
<1>9. ASSUME NEW c \in Calls, Hit(c) \/ Miss(c) \/ ReadBack(c) \/ GiveUp(c) PROVE LockInv'
  BY <1>9 DEF Hit, Miss, ReadBack, GiveUp
<1>10. ASSUME NEW c \in Calls, Start(c) \/ Join(c) \/ Leave(c) PROVE LockInv'
  BY <1>10 DEF Start, Join, Leave, works
<1>11. ASSUME NEW v \in toForget, Forget(v) \/ ForgetFails(v) PROVE LockInv'
  BY <1>11 DEF Forget, ForgetFails, works
<1>12. CASE Change \/ Expires
  BY <1>12 DEF Change, Expires, works
<1>13. \A w \in Works : w[1] \in Calls
  BY WorksAreOwners
<1> QED
  BY <1>1, <1>2, <1>3, <1>4, <1>5, <1>6, <1>7, <1>8, <1>9, <1>10, <1>11, <1>12, <1>13
  DEF Next, Work, vars, works

\* Of two that compute under the lock, one has outlived its lease: nobody releases, loses
\* or takes the lock of another that is within its own.
THEOREM OneComputesUnderTheLock == Spec => []AloneUnderTheLock
<1>1. Init => LockInv
  BY DEF Init, LockInv
<1>2. TypeOK /\ LockInv /\ [Next]_vars => LockInv'
  BY NextLock
<1>3. LockInv => AloneUnderTheLock
  BY DEF LockInv, AloneUnderTheLock
<1> QED BY <1>1, <1>2, <1>3, TypeCorrect, PTL DEF Spec

-----------------------------------------------------------------------------
(* The runs in flight.                                                     *)

\* A run that answers takes itself out, and none but itself.
LEMMA AnswerFlight ==
    ASSUME TypeOK, FlightInv, NEW c \in Calls, NEW value, Answer(c, value),
           stage'[<<c, "fill">>] = "idle",
           \A d \in Calls \ {c} : stage'[<<d, "fill">>] = stage[<<d, "fill">>]
    PROVE  FlightInv'
<1> USE DEF FlightInv, RegisteredWhileRunning, UnderWay
<1>1. At[c] \in Replicas
  BY FlightAssumption
<1>2. /\ \A r \in Replicas : r # At[c] => inFlight'[r] = inFlight[r]
      /\ inFlight'[At[c]] = IF inFlight[At[c]] = c THEN None ELSE inFlight[At[c]]
      /\ replaced' = replaced \ {c}
  BY <1>1 DEF Answer, Unregister, TypeOK
<1>3. ASSUME NEW r \in Replicas, inFlight'[r] # None
      PROVE  stage'[<<inFlight'[r], "fill">>] # "idle" /\ At[inFlight'[r]] = r
  <2>1. inFlight'[r] = inFlight[r] /\ inFlight[r] # c /\ inFlight[r] \in Calls
    BY <1>2, <1>3 DEF TypeOK
  <2> QED BY <1>3, <2>1
<1>4. ASSUME NEW d \in Calls, UnderWay(d)'
      PROVE  inFlight'[At[d]] = d \/ d \in replaced'
  <2>1. d # c /\ UnderWay(d) /\ At[d] \in Replicas
    BY <1>4, FlightAssumption
  <2> QED BY <1>2, <2>1
<1> QED BY <1>3, <1>4

\* A run that begins is registered, in front of the one that was.
LEMMA BeginFlight ==
    ASSUME TypeOK, FlightInv, NEW c \in Calls, Begin(c)
    PROVE  FlightInv'
<1> USE DEF FlightInv, RegisteredWhileRunning, UnderWay
<1>1. At[c] \in Replicas /\ \A d \in Calls : At[d] \in Replicas
  BY FlightAssumption
<1>2. /\ inFlight'[At[c]] = c
      /\ \A r \in Replicas : r # At[c] => inFlight'[r] = inFlight[r]
      /\ replaced' = replaced \cup ({inFlight[At[c]]} \ {None})
  BY <1>1 DEF Begin, TypeOK
<1>3. UnderWay(c)' /\ \A d \in Calls : UnderWay(d)' <=> (d = c \/ UnderWay(d))
  BY BeginCalls
<1>4. ASSUME NEW r \in Replicas, inFlight'[r] # None
      PROVE  stage'[<<inFlight'[r], "fill">>] # "idle" /\ At[inFlight'[r]] = r
  <2>1. CASE r = At[c]
    BY <1>2, <1>3, <2>1
  <2>2. CASE r # At[c]
    <3>1. inFlight'[r] = inFlight[r] /\ inFlight[r] \in Calls /\ inFlight[r] # None
      BY <1>2, <1>4, <2>2 DEF TypeOK
    <3> QED BY <1>3, <3>1
  <2> QED BY <2>1, <2>2
<1>5. ASSUME NEW d \in Calls, UnderWay(d)'
      PROVE  inFlight'[At[d]] = d \/ d \in replaced'
  <2>1. CASE d = c
    BY <1>2, <2>1
  <2>2. CASE d # c
    <3>1. inFlight[At[d]] = d \/ d \in replaced
      BY <1>3, <1>5, <2>2
    <3> QED BY <1>1, <1>2, <2>2, <3>1, NoneIsNobody
  <2> QED BY <2>1, <2>2
<1> QED BY <1>4, <1>5

\* A step of a run that goes on, or of a refresh, changes nothing to it.
LEMMA FlightGoesOn ==
    ASSUME TypeOK, FlightInv, UNCHANGED <<inFlight, replaced>>,
           \A d \in Calls : UnderWay(d)' <=> UnderWay(d)
    PROVE  FlightInv'
BY DEF FlightInv, RegisteredWhileRunning, UnderWay, TypeOK

\* A run goes on while its stage is not idle before and after.
LEMMA StillUnderWay ==
    ASSUME TypeOK, NEW w \in Works, NEW to, Goes(w, to),
           IsFill(w) => stage[w] # "idle" /\ to # "idle"
    PROVE  \A d \in Calls : UnderWay(d)' <=> UnderWay(d)
<1>1. /\ stage'[w] = to
      /\ \A v \in Works : v # w => stage'[v] = stage[v]
  BY DEF Goes, TypeOK
<1>2. \A d \in Calls : /\ <<d, "fill">> \in Works
                       /\ <<d, "fill">> = w => IsFill(w)
  BY WorksAreOwners DEF IsFill
<1> QED BY <1>1, <1>2 DEF UnderWay

\* A run or a refresh that ends leaves it.
LEMMA EndsFlight ==
    ASSUME TypeOK, FlightInv, NEW w \in Works, Ends(w) \/ Over(w), stage[w] # "idle"
    PROVE  FlightInv'
<1>1. CASE Goes(w, "release") /\ UNCHANGED calls
  BY <1>1, StillUnderWay, FlightGoesOn DEF calls
<1>2. CASE Over(w) /\ IsFill(w)
  <2>1. w[1] \in Calls /\ w = <<w[1], "fill">> /\ Answer(w[1], held[w]) /\ Goes(w, "idle")
    BY <1>2, WorksAreOwners DEF Over, IsFill
  <2>2. stage'[w] = "idle" /\ \A v \in Works : v # w => stage'[v] = stage[v]
    BY <2>1 DEF Goes, TypeOK
  <2>3. \A d \in Calls \ {w[1]} : <<d, "fill">> \in Works /\ <<d, "fill">> # w
    BY <2>1, WorksAreOwners
  <2> QED BY <2>1, <2>2, <2>3, AnswerFlight
<1>3. CASE Over(w) /\ ~IsFill(w)
  BY <1>3, StillUnderWay, FlightGoesOn DEF Over, calls
<1> QED BY <1>1, <1>2, <1>3 DEF Ends

\* Every step leaves it.
LEMMA NextFlight ==
    ASSUME TypeOK, FlightInv, [Next]_vars
    PROVE  FlightInv'
<1>1. CASE \/ Change \/ Expires \/ LeaseEnds \/ UNCHANGED vars
           \/ \E v \in toForget : Forget(v) \/ ForgetFails(v)
           \/ \E c \in Calls : Join(c)
           \/ \E w \in Works : Hang(w)
  <2>1. UNCHANGED <<stage, inFlight, replaced>>
    BY <1>1 DEF Change, Expires, LeaseEnds, Forget, ForgetFails, Join, Hang, vars, calls, works
  <2> QED BY <2>1, FlightGoesOn DEF UnderWay
<1>2. ASSUME NEW c \in Calls, Start(c) \/ Leave(c) PROVE FlightInv'
  BY <1>2, BeginFlight DEF Start, Leave
<1>3. ASSUME NEW w \in Works, Work(w) PROVE FlightInv'
  <2>0. w[1] \in Calls /\ (IsFill(w) => w = <<w[1], "fill">>)
    BY WorksAreOwners DEF IsFill
  <2>1. CASE Acquire(w) \/ Lose(w) \/ LockFails(w) \/ Compute(w)
    <3>1. UNCHANGED calls
      BY <2>1 DEF Acquire, Lose, LockFails, Compute
    <3>2. \A d \in Calls : UnderWay(d)' <=> UnderWay(d)
      BY <2>1, StillUnderWay DEF Acquire, Lose, LockFails, Compute
    <3> QED BY <3>1, <3>2, FlightGoesOn DEF calls
  <2>2. CASE Raise(w) \/ Write(w) \/ Release(w)
    BY <2>2, EndsFlight DEF Raise, Write, Release
  <2>3. CASE IsFill(w) /\ (Miss(w[1]) \/ GiveUp(w[1]))
    BY <2>0, <2>3, StillUnderWay, FlightGoesOn DEF Miss, GiveUp, calls
  <2>4. CASE IsFill(w) /\ ReadBack(w[1])
    <3>1. w = <<w[1], "fill">> /\ Goes(w, "idle") /\ Answer(w[1], entry)
      BY <2>0, <2>4 DEF ReadBack
    <3>2. stage'[w] = "idle" /\ \A v \in Works : v # w => stage'[v] = stage[v]
      BY <3>1 DEF Goes, TypeOK
    <3>3. \A d \in Calls \ {w[1]} : <<d, "fill">> \in Works /\ <<d, "fill">> # w
      BY <3>1, <2>0, WorksAreOwners
    <3> QED BY <2>0, <3>1, <3>2, <3>3, AnswerFlight
  <2>5. CASE IsFill(w) /\ Hit(w[1])
    <3> DEFINE a == <<w[1], "ahead">>
    <3>1. w = <<w[1], "fill">> /\ Answer(w[1], entry) /\ a \in Works /\ a # w
      BY <2>0, <2>5, WorksAreOwners DEF Hit
    <3>2. \/ stage' = [stage EXCEPT ![w] = "idle"]
          \/ stage' = [stage EXCEPT ![w] = "idle", ![a] = "lock"]
      BY <2>5, <3>1 DEF Hit, Goes
    <3>3. \A d \in Calls \ {w[1]} : <<d, "fill">> \in Works /\ <<d, "fill">> \notin {w, a}
      BY <3>1, <2>0, WorksAreOwners
    <3> HIDE DEF a
    <3>4. stage'[w] = "idle" /\ \A v \in Works : v \notin {w, a} => stage'[v] = stage[v]
      BY <3>1, <3>2 DEF TypeOK
    <3> QED BY <2>0, <3>1, <3>3, <3>4, AnswerFlight
  <2> QED BY <1>3, <2>1, <2>2, <2>3, <2>4, <2>5 DEF Work
<1>4. ASSUME NEW r \in Replicas, Crash(r) PROVE FlightInv'
  <2>1. \A d \in Calls : stage'[<<d, "fill">>] = IF At[d] = r THEN "idle" ELSE stage[<<d, "fill">>]
    <3>1. \A w \in Works : stage'[w] = IF At[w[1]] = r THEN "idle" ELSE stage[w]
      BY <1>4 DEF Crash
    <3>2. \A d \in Calls : <<d, "fill">> \in Works /\ <<d, "fill">>[1] = d
      BY WorksAreOwners
    <3> QED BY <3>1, <3>2
  <2>2. /\ inFlight'[r] = None
        /\ \A q \in Replicas : q # r => inFlight'[q] = inFlight[q]
        /\ replaced' = {d \in replaced : At[d] # r}
    BY <1>4 DEF Crash, TypeOK
  <2>3. ASSUME NEW q \in Replicas, inFlight'[q] # None
        PROVE  stage'[<<inFlight'[q], "fill">>] # "idle" /\ At[inFlight'[q]] = q
    BY <2>1, <2>2, <2>3 DEF FlightInv, RegisteredWhileRunning, UnderWay, TypeOK
  <2>4. ASSUME NEW d \in Calls, UnderWay(d)'
        PROVE  inFlight'[At[d]] = d \/ d \in replaced'
    <3>1. At[d] # r /\ At[d] \in Replicas /\ UnderWay(d)
      BY <2>1, <2>4, FlightAssumption DEF UnderWay
    <3> QED BY <2>2, <3>1 DEF FlightInv, RegisteredWhileRunning
  <2> QED BY <2>3, <2>4 DEF FlightInv, RegisteredWhileRunning, UnderWay
<1> QED BY <1>1, <1>2, <1>3, <1>4 DEF Next

\* A run can be joined from when it begins until it answers or another takes its place,
\* and no longer, whichever of the runs of a replica answers first.
THEOREM JoinedWhileRunning == Spec => []RegisteredWhileRunning
<1>1. Init => FlightInv
  <2>1. ASSUME Init PROVE FlightInv
    <3>1. \A c \in Calls : ~UnderWay(c)
      BY <2>1, WorksAreOwners DEF Init, UnderWay
    <3>2. \A r \in Replicas : inFlight[r] = None
      BY <2>1 DEF Init
    <3> QED BY <3>1, <3>2 DEF FlightInv, RegisteredWhileRunning
  <2> QED BY <2>1
<1>2. TypeOK /\ FlightInv /\ [Next]_vars => FlightInv'
  BY NextFlight
<1>3. FlightInv => RegisteredWhileRunning
  BY DEF FlightInv
<1> QED BY <1>1, <1>2, <1>3, TypeCorrect, PTL DEF Spec

-----------------------------------------------------------------------------
(* What is answered after a removal.                                       *)

\* A value that is not outdated at a version is not at an earlier one.
LEMMA NotOutdatedBefore ==
    ASSUME NEW value \in Values \cup {None}, NEW v \in Int, NEW u \in Int, u <= v,
           ~Outdated(value, v)
    PROVE  ~Outdated(value, u)
BY FlightAssumption DEF Outdated, Values

\* A value made late by a removal is not outdated by it.
LEMMA LateIsNotOutdated ==
    ASSUME NEW value \in Values \cup {None}, NEW v \in 0..MaxChanges, NEW u \in 0..MaxChanges,
           ~Outdated(value, u)
    PROVE  ~Outdated(Late(value, v), IF v > u THEN v ELSE u)
BY FlightAssumption DEF Outdated, Late, Values

\* A run that holds nothing outdated answers no call an outdated value.
LEMMA AnswerFresh ==
    ASSUME TypeOK, FreshInv, NEW c \in Calls, NEW value \in Values \cup {None}, Answer(c, value),
           ~Outdated(value, forgotten), UNCHANGED forgotten
    PROVE  outdated' = {} /\ \A d \in Calls : since'[d] <= forgotten'
<1>1. \A d \in Calls : since[d] \in Int /\ since[d] <= forgotten
  BY FlightAssumption DEF TypeOK, FreshInv
<1>2. forgotten \in Int /\ 0 <= forgotten
  BY FlightAssumption DEF TypeOK
<1>3. \A d \in Calls : ~Outdated(value, since[d])
  BY <1>1, <1>2, NotOutdatedBefore
<1>4. outdated = {}
  BY DEF FreshInv, FreshAfterForget
<1>5. outdated' = {}
  BY <1>3, <1>4 DEF Answer
<1>6. \A d \in Calls : since'[d] = 0 \/ since'[d] = since[d]
  BY DEF Answer, Ended
<1> QED BY <1>1, <1>2, <1>5, <1>6

\* The parts of it a step of a run or a refresh has to look at.
LEMMA WorkFresh ==
    ASSUME TypeOK, FreshInv, UNCHANGED <<origin, toForget, forgotten>>,
           ~Outdated(entry', forgotten), outdated' = {},
           \A w \in Works : ~Outdated(held'[w], forgotten),
           \A c \in Calls : since'[c] <= forgotten
    PROVE  FreshInv'
BY DEF FreshInv, FreshAfterForget

\* A run or a refresh that ends answers nothing outdated.
LEMMA EndsFresh ==
    ASSUME TypeOK, FreshInv, NEW w \in Works, Ends(w) \/ Over(w), UNCHANGED forgotten
    PROVE  /\ outdated' = {}
           /\ \A c \in Calls : since'[c] <= forgotten
           /\ \A v \in Works : ~Outdated(held'[v], forgotten)
<1>1. CASE UNCHANGED <<held, calls>>
  BY <1>1 DEF calls, FreshInv, FreshAfterForget
<1>2. CASE Over(w)
  <2>1. held' = [held EXCEPT ![w] = None]
    BY <1>2 DEF Over
  <2>2. \A v \in Works : ~Outdated(held'[v], forgotten)
    BY <2>1 DEF FreshInv, TypeOK, Outdated
  <2>3. CASE UNCHANGED calls
    BY <2>2, <2>3 DEF calls, FreshInv, FreshAfterForget
  <2>4. CASE IsFill(w)
    <3>1. w[1] \in Calls /\ Answer(w[1], held[w])
      BY <1>2, <2>4, WorksAreOwners DEF Over
    <3>2. held[w] \in Values \cup {None} /\ ~Outdated(held[w], forgotten)
      BY DEF TypeOK, FreshInv
    <3> QED BY <2>2, <3>1, <3>2, AnswerFresh
  <2> QED BY <1>2, <2>3, <2>4 DEF Over
<1> QED BY <1>1, <1>2 DEF Ends

\* Every step leaves it.
LEMMA NextFresh ==
    ASSUME TypeOK, FreshInv, [Next]_vars
    PROVE  FreshInv'
<1>0. origin \in Nat /\ forgotten \in Nat /\ toForget \subseteq Nat
  BY FlightAssumption DEF TypeOK
<1>1. CASE Change
  BY <1>0, <1>1 DEF Change, FreshInv, FreshAfterForget, calls, works
<1>2. ASSUME NEW v \in toForget, Forget(v) PROVE FreshInv'
  <2>1. v \in 0..MaxChanges /\ forgotten \in 0..MaxChanges /\ v \in Nat /\ v <= origin
    BY <1>0 DEF TypeOK, FreshInv
  <2>2. /\ origin' = origin /\ toForget' = toForget \ {v} /\ entry' = None
        /\ forgotten' = IF v > forgotten THEN v ELSE forgotten
        /\ UNCHANGED calls
    BY <1>2 DEF Forget
  <2>3. \A w \in Works : held'[w] = Late(held[w], v)
    BY <1>2 DEF Forget
  <2>4. \A w \in Works : ~Outdated(held'[w], forgotten')
    <3>1. ASSUME NEW w \in Works
          PROVE  ~Outdated(Late(held[w], v), IF v > forgotten THEN v ELSE forgotten)
      BY <2>1, LateIsNotOutdated DEF TypeOK, FreshInv
    <3> QED BY <2>2, <2>3, <3>1
  <2>5. \A c \in Calls : since'[c] <= forgotten'
    BY <1>0, <2>1, <2>2, FlightAssumption DEF calls, FreshInv, TypeOK
  <2>6. forgotten' <= origin' /\ \A u \in toForget' : u <= origin'
    BY <1>0, <2>1, <2>2 DEF FreshInv
  <2>7. ~Outdated(entry', forgotten') /\ outdated' = {}
    BY <2>2 DEF Outdated, calls, FreshInv, FreshAfterForget
  <2> QED BY <2>4, <2>5, <2>6, <2>7 DEF FreshInv, FreshAfterForget
<1>3. ASSUME NEW v \in toForget, ForgetFails(v) PROVE FreshInv'
  BY <1>0, <1>3 DEF ForgetFails, FreshInv, FreshAfterForget, calls, works
<1>4. CASE Expires
  BY <1>4 DEF Expires, FreshInv, FreshAfterForget, Outdated, calls, works
<1>5. CASE LeaseEnds
  BY <1>5 DEF LeaseEnds, FreshInv, FreshAfterForget, cached, calls
<1>6. ASSUME NEW c \in Calls, Start(c) \/ Join(c) \/ Leave(c) PROVE FreshInv'
  <2>1. /\ UNCHANGED <<cached, held, outdated>>
        /\ \A d \in Calls : since'[d] \in {since[d], forgotten}
    BY <1>6 DEF Start, Join, Leave, works, TypeOK
  <2> QED BY <1>0, <2>1 DEF FreshInv, FreshAfterForget, cached
<1>7. ASSUME NEW w \in Works, Work(w) \/ Hang(w) PROVE FreshInv'
  <2>0. w[1] \in Calls
    BY WorksAreOwners
  <2>1. CASE Acquire(w) \/ Lose(w) \/ LockFails(w) \/ Hang(w)
    BY <2>1 DEF Acquire, Lose, LockFails, Hang, FreshInv, FreshAfterForget, cached, calls
  <2>2. CASE IsFill(w) /\ (Miss(w[1]) \/ GiveUp(w[1]))
    BY <2>2 DEF Miss, GiveUp, FreshInv, FreshAfterForget, cached, calls
  <2>3. CASE IsFill(w) /\ (Hit(w[1]) \/ ReadBack(w[1]))
    <3>1. Answer(w[1], entry) /\ UNCHANGED <<cached, held>>
      BY <2>3 DEF Hit, ReadBack
    <3>2. entry \in Values \cup {None} /\ ~Outdated(entry, forgotten)
      BY DEF TypeOK, FreshInv, FreshAfterForget
    <3>3. outdated' = {} /\ \A d \in Calls : since'[d] <= forgotten
      BY <2>0, <3>1, <3>2, AnswerFresh DEF cached
    <3> QED BY <3>1, <3>2, <3>3, WorkFresh DEF cached, FreshInv
  <2>4. CASE Compute(w)
    <3>1. held' = [held EXCEPT ![w] = [version |-> origin, late |-> FALSE]]
          /\ UNCHANGED <<cached, calls>>
      BY <2>4 DEF Compute
    <3>2. ~Outdated([version |-> origin, late |-> FALSE], forgotten)
      BY <1>0 DEF Outdated, FreshInv
    <3>3. \A v \in Works : ~Outdated(held'[v], forgotten)
      BY <3>1, <3>2 DEF TypeOK, FreshInv
    <3> QED BY <3>1, <3>3, WorkFresh DEF cached, calls, FreshInv, FreshAfterForget
  <2>5. CASE Raise(w) \/ Release(w)
    <3>1. UNCHANGED cached /\ (Ends(w) \/ Over(w))
      BY <2>5 DEF Raise, Release
    <3> QED BY <3>1, EndsFresh, WorkFresh DEF cached, FreshInv, FreshAfterForget
  <2>6. CASE Write(w)
    <3>1. UNCHANGED <<origin, toForget, forgotten>> /\ Ends(w) /\ entry' \in {entry, held[w]}
      BY <2>6 DEF Write
    <3>2. ~Outdated(entry', forgotten)
      BY <3>1 DEF FreshInv, FreshAfterForget
    <3> QED BY <3>1, <3>2, EndsFresh, WorkFresh
  <2> QED BY <1>7, <2>1, <2>2, <2>3, <2>4, <2>5, <2>6 DEF Work
<1>8. ASSUME NEW r \in Replicas, Crash(r) PROVE FreshInv'
  <2>1. /\ UNCHANGED <<cached, outdated>>
        /\ \A w \in Works : held'[w] \in {held[w], None}
        /\ \A c \in Calls : since'[c] \in {since[c], 0}
    BY <1>8 DEF Crash, Ended
  <2>2. \A w \in Works : ~Outdated(held'[w], forgotten)
    BY <2>1 DEF FreshInv, Outdated
  <2>3. \A c \in Calls : since'[c] <= forgotten
    BY <1>0, <2>1 DEF FreshInv
  <2> QED BY <2>1, <2>2, <2>3, WorkFresh DEF FreshInv, FreshAfterForget, cached
<1>9. CASE UNCHANGED vars
  BY <1>9 DEF vars, cached, calls, works, FreshInv, FreshAfterForget
<1> QED BY <1>1, <1>2, <1>3, <1>4, <1>5, <1>6, <1>7, <1>8, <1>9 DEF Next

\* Once an entry is removed, no older value is answered to a call made afterwards nor left
\* in the cache, but one computed before the removal and written after it.
THEOREM NothingStaleAfterARemoval == Spec => []FreshAfterForget
<1>1. Init => FreshInv
  BY FlightAssumption DEF Init, FreshInv, FreshAfterForget, Outdated
<1>2. TypeOK /\ FreshInv /\ [Next]_vars => FreshInv'
  BY NextFresh
<1>3. FreshInv => FreshAfterForget
  BY DEF FreshInv
<1> QED BY <1>1, <1>2, <1>3, TypeCorrect, PTL DEF Spec
=============================================================================
