------------------------------- MODULE CronSlots -------------------------------
(***************************************************************************)
(* The scheduled jobs of a fleet (foundation/lib/src/cron): every replica  *)
(* walks the schedule on its own clock, takes the occurrences that are     *)
(* due, and runs one only if it is the first to mark it in Redis.          *)
(*                                                                         *)
(* Three guards stand around an occurrence: the run token of the job on    *)
(* this replica, the gate on how many run here at once, and the marker.    *)
(* The marker of an occurrence is never released and lives for the gap to  *)
(* the next one, or for the timeout of the job when that is longer. A run  *)
(* that outlives its timeout is let go of, and its body goes on.           *)
(***************************************************************************)
EXTENDS Integers, FiniteSets, FiniteSetsExt

CONSTANTS
    Jobs,
    Occurrences,    \* [Jobs -> SUBSET Nat]: the instants each job strikes
    Timeout,        \* [Jobs -> Nat]
    Replicas,
    Ahead,          \* [Replicas -> Nat]: how far each clock runs ahead of Redis's
    MaxConcurrent,  \* runs the gate lets through on one replica
    Horizon,        \* bound: the last instant of a behaviour
    MaxFaults       \* bound: replicas that die and claims that fail

CronAssumption ==
    /\ Occurrences \in [Jobs -> SUBSET Nat]
    /\ Timeout \in [Jobs -> Nat \ {0}]
    /\ Ahead \in [Replicas -> Nat]
    /\ MaxConcurrent \in Nat \ {0}
    /\ {Horizon, MaxFaults} \subseteq Nat
    \* A schedule never ends: each job strikes again after every clock is done.
    /\ \A j \in Jobs : \E s \in Occurrences[j] : \A r \in Replicas : s > Horizon + Ahead[r]

VARIABLES
    now,        \* the time of Redis
    next,       \* the occurrence each replica waits for, of each job
    token,      \* the occurrence whose run holds the job on a replica, or None
    runs,       \* occurrences under way: at the gate, claiming, running, let go
    markers,    \* when the marker of each occurrence expires
    claims,     \* when each occurrence was claimed, and by whom
    missed,     \* replicas that passed an occurrence by without trying to claim it
    spoiled,    \* occurrences a fault touched
    faults      \* faults so far

cronVars == <<now, next, token, runs, markers, claims, missed, spoiled, faults>>

None == -1
Instants == UNION {Occurrences[j] : j \in Jobs}
Phases == {"gate", "claim", "run", "letgo"}
Runs == [job : Jobs, slot : Instants, by : Replicas, phase : Phases, until : Nat]

Clock(r) == now + Ahead[r]

\* The first occurrence strictly after an instant.
NextRun(j, after) == Min({s \in Occurrences[j] : s > after})

\* Mutant of Lease: the timeout of the job.
LeaseForTheTimeout(j, s) == Timeout[j]

Lease(j, s) == Max({NextRun(j, s) - s, Timeout[j]})

Init ==
    /\ now = 0
    /\ next = [r \in Replicas |-> [j \in Jobs |-> NextRun(j, Ahead[r])]]
    /\ token = [r \in Replicas |-> [j \in Jobs |-> None]]
    /\ runs = {}
    /\ markers = [j \in Jobs |-> [s \in Occurrences[j] |-> 0]]
    /\ claims = [j \in Jobs |-> [s \in Occurrences[j] |-> {}]]
    /\ missed = [j \in Jobs |-> [s \in Occurrences[j] |-> {}]]
    /\ spoiled = {}
    /\ faults = 0

Fault == faults < MaxFaults /\ faults' = faults + 1

-----------------------------------------------------------------------------
(* The loop of a replica.                                                  *)

Due(r) == {j \in Jobs : Clock(r) >= next[r][j]}

\* Mutant of Free: an occurrence is fired whether the job is running or not.
AlwaysFree(r, j) == TRUE

Free(r, j) == token[r][j] = None

\* The occurrences replica r moves past when it takes the one it waits for.
Passed(r, j) == {s \in Occurrences[j] : next[r][j] <= s /\ s <= Clock(r)}

\* One turn: whatever is due is taken, what was slept through is skipped, and what is
\* taken is fired unless the job is still running here.
Turn(r) ==
    /\ Due(r) # {}
    /\ LET fired == {j \in Due(r) : Free(r, j)} IN
         /\ next' = [next EXCEPT ![r] = [j \in Jobs |->
                        IF j \in Due(r) THEN NextRun(j, Clock(r)) ELSE @[j]]]
         /\ token' = [token EXCEPT ![r] = [j \in Jobs |->
                        IF j \in fired THEN next[r][j] ELSE @[j]]]
         /\ runs' = runs \cup {[job |-> j, slot |-> next[r][j], by |-> r, phase |-> "gate",
                                until |-> 0] : j \in fired}
         /\ missed' = [j \in Jobs |-> [s \in Occurrences[j] |->
                        IF j \in Due(r) /\ s \in Passed(r, j) /\ (j \in fired => s # next[r][j])
                          THEN missed[j][s] \cup {r} ELSE missed[j][s]]]
    /\ UNCHANGED <<now, markers, claims, spoiled, faults>>

-----------------------------------------------------------------------------
(* One occurrence.                                                         *)

Goes(x, phase) == runs' = (runs \ {x}) \cup {[x EXCEPT !.phase = phase]}

\* The job is freed by the run that still holds it.
EndRun(x) == token' = [token EXCEPT ![x.by][x.job] = IF @ = x.slot THEN None ELSE @]

\* What the gate counts: a run that was let go has left it.
Inside(r) == {x \in runs : x.by = r /\ x.phase \in {"claim", "run"}}

Full(r) == Cardinality(Inside(r)) >= MaxConcurrent

\* A gate with room lets a waiting run through at once.
Tick ==
    /\ now < Horizon
    /\ \A x \in runs : x.phase = "gate" => Full(x.by)
    /\ now' = now + 1
    /\ UNCHANGED <<next, token, runs, markers, claims, missed, spoiled, faults>>

Enter(x) ==
    /\ x.phase = "gate" /\ ~Full(x.by)
    /\ Goes(x, "claim")
    /\ UNCHANGED <<now, next, token, markers, claims, missed, spoiled, faults>>

\* Mutant of Key: one marker for the job, whatever the occurrence.
KeyOfTheJob(j, s) == Min(Occurrences[j])

\* The marker an occurrence is claimed under: its own instant.
Key(j, s) == s

Marked(x) == markers[x.job][Key(x.job, x.slot)] > now
Mark(x) == markers' = [markers EXCEPT ![x.job][Key(x.job, x.slot)] = now + Lease(x.job, x.slot)]

\* SET NX PX took: the body is called.
Claim(x) ==
    /\ x.phase = "claim" /\ ~Marked(x)
    /\ Mark(x)
    /\ claims' = [claims EXCEPT ![x.job][x.slot] = @ \cup {<<x.by, now>>}]
    /\ runs' = (runs \ {x}) \cup {[x EXCEPT !.phase = "run", !.until = now + Timeout[x.job]]}
    /\ UNCHANGED <<now, next, token, missed, spoiled, faults>>

\* Mutant of Taken: the job is freed only by a run that called its body.
TakenKeepsTheJob(x) ==
    /\ x.phase = "claim" /\ Marked(x)
    /\ runs' = runs \ {x}
    /\ UNCHANGED <<now, next, token, markers, claims, missed, spoiled, faults>>

\* Another replica has the occurrence.
Taken(x) ==
    /\ x.phase = "claim" /\ Marked(x)
    /\ runs' = runs \ {x}
    /\ EndRun(x)
    /\ UNCHANGED <<now, next, markers, claims, missed, spoiled, faults>>

\* Redis does not answer, whether it set the marker or not: the occurrence is skipped.
ClaimFails(x) ==
    /\ x.phase = "claim"
    /\ Fault
    /\ \/ ~Marked(x) /\ Mark(x)
       \/ UNCHANGED markers
    /\ runs' = runs \ {x}
    /\ EndRun(x)
    /\ spoiled' = spoiled \cup {<<x.job, x.slot>>}
    /\ UNCHANGED <<now, next, claims, missed>>

\* The body ends, well or not, in time.
Finish(x) ==
    /\ x.phase = "run"
    /\ runs' = runs \ {x}
    /\ EndRun(x)
    /\ UNCHANGED <<now, next, markers, claims, missed, spoiled, faults>>

\* The timeout is over: the gate and the job are freed, and the body goes on.
Deadline(x) ==
    /\ x.phase = "run" /\ now >= x.until
    /\ Goes(x, "letgo")
    /\ EndRun(x)
    /\ UNCHANGED <<now, next, markers, claims, missed, spoiled, faults>>

LateFinish(x) ==
    /\ x.phase = "letgo"
    /\ runs' = runs \ {x}
    /\ UNCHANGED <<now, next, token, markers, claims, missed, spoiled, faults>>

\* The replica dies with its runs and comes back, waiting for what is to come.
Restart(r) ==
    /\ Fault
    /\ LET mine == {x \in runs : x.by = r} IN
         /\ runs' = runs \ mine
         /\ spoiled' = spoiled \cup {<<x.job, x.slot>> : x \in mine}
    /\ next' = [next EXCEPT ![r] = [j \in Jobs |-> NextRun(j, Clock(r))]]
    /\ token' = [token EXCEPT ![r] = [j \in Jobs |-> None]]
    /\ missed' = [j \in Jobs |-> [s \in Occurrences[j] |->
                    IF s \in Passed(r, j) THEN missed[j][s] \cup {r} ELSE missed[j][s]]]
    /\ UNCHANGED <<now, markers, claims>>

-----------------------------------------------------------------------------

Step(x) == Enter(x) \/ Claim(x) \/ Taken(x) \/ ClaimFails(x) \/ Finish(x)
             \/ Deadline(x) \/ LateFinish(x)

Next ==
    \/ Tick
    \/ \E r \in Replicas : Turn(r) \/ Restart(r)
    \/ \E x \in runs : Step(x)

Spec == Init /\ [][Next]_cronVars

-----------------------------------------------------------------------------
(* Properties.                                                             *)

TypeOK ==
    /\ now \in 0..Horizon
    /\ next \in [Replicas -> [Jobs -> Instants]]
    /\ token \in [Replicas -> [Jobs -> Instants \cup {None}]]
    /\ \A r \in Replicas, j \in Jobs :
         /\ next[r][j] \in Occurrences[j]
         /\ token[r][j] = None \/ \E x \in runs : x.by = r /\ x.job = j /\ x.slot = token[r][j]
    /\ runs \subseteq Runs
    /\ \A x \in runs : x.phase # "letgo" <=> token[x.by][x.job] = x.slot
    /\ DOMAIN markers = Jobs /\ DOMAIN claims = Jobs /\ DOMAIN missed = Jobs
    /\ \A j \in Jobs :
         /\ markers[j] \in [Occurrences[j] -> Nat]
         /\ claims[j] \in [Occurrences[j] -> SUBSET (Replicas \X (0..Horizon))]
         /\ missed[j] \in [Occurrences[j] -> SUBSET Replicas]
    /\ spoiled \subseteq Jobs \X Instants
    /\ faults \in 0..MaxFaults

\* "Three guards that keep one occurrence to one execution."
OneExecution ==
    \A j \in Jobs : \A s \in Occurrences[j] : Cardinality(claims[j][s]) <= 1

\* The end of the time in which an occurrence is current, on the clock that is furthest ahead.
Over(j, s) == NextRun(j, s) - Max({Ahead[r] : r \in Replicas})

\* "The next replica to reach the same one has to find it still there": the marker keeps
\* an occurrence to one execution among the replicas that reach it while it is current,
\* that is before the next one, on the clock that is furthest ahead.
OneExecutionWhileCurrent ==
    \A j \in Jobs : \A s \in Occurrences[j] :
        Cardinality({c \in claims[j][s] : c[2] < Over(j, s)}) <= 1

\* One replica runs a job twice at once only behind a run that outlived its timeout.
OverlapOnlyPastTheTimeout ==
    \A x, y \in runs : x # y /\ x.job = y.job /\ x.by = y.by => "letgo" \in {x.phase, y.phase}

\* An occurrence every replica is past ran somewhere, unless a fault touched it or each
\* replica passed it by, asleep, down, or still busy with the job, or started after it.
RunsUnlessAllMissedIt ==
    \A j \in Jobs : \A s \in Occurrences[j] :
        /\ \A r \in Replicas : next[r][j] > s
        /\ \A x \in runs : x.job = j /\ x.slot = s => x.phase \notin {"gate", "claim"}
        => \/ claims[j][s] # {}
           \/ <<j, s>> \in spoiled
           \/ \A r \in Replicas : r \in missed[j][s] \/ s <= Ahead[r]

-----------------------------------------------------------------------------
(* What the steps preserve.                                                *)

\* A replica starts an occurrence once, when it is due, and behind those before it.
Started ==
    \A x \in runs :
        /\ x.slot \in Occurrences[x.job] /\ x.slot < next[x.by][x.job] /\ x.slot <= Clock(x.by)
        /\ \A y \in runs : y.job = x.job /\ y.by = x.by /\ y.slot = x.slot => y = x

\* A marker outlives the time in which its occurrence is current, so that one claim is made in
\* it; and it was left by a claim or by a fault.
Marking ==
    \A j \in Jobs : \A s \in Occurrences[j] :
        /\ claims[j][s] # {} => markers[j][s] >= Over(j, s)
        /\ markers[j][s] > 0 => claims[j][s] # {} \/ <<j, s>> \in spoiled
        /\ \A c, d \in claims[j][s] : c[2] < Over(j, s) /\ d[2] < Over(j, s) => c = d

\* What is about to be claimed.
Asked(j, s) == \E x \in runs : x.job = j /\ x.slot = s /\ x.phase \in {"gate", "claim"}

\* An occurrence a replica has moved past since it started was claimed by someone, touched by
\* a fault or passed by, or is about to be claimed.
Walked ==
    \A r \in Replicas : \A j \in Jobs : \A s \in Occurrences[j] :
        Ahead[r] < s /\ s < next[r][j] =>
            \/ claims[j][s] # {} \/ <<j, s>> \in spoiled \/ r \in missed[j][s]
            \/ Asked(j, s)

IInv == TypeOK /\ Started /\ Marking /\ Walked
=============================================================================
