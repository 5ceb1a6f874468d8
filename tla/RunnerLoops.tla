----------------------------- MODULE RunnerLoops -----------------------------
(* The background loop of a runner: the one QueueRunner supervises, which      *)
(* carries the generation of the start it came from (foundation/lib/src/queue/ *)
(* runner/queue_runner.ts, supervised_loop.ts), and the one of TriggerRunner   *)
(* and of CronRunner, which only looks at whether the runner runs              *)
(* (trigger/trigger_runner.ts, cron/cron_runner.ts). One loop crashes and      *)
(* comes back after a delay, while start and stop are called.                  *)
EXTENDS Naturals, FiniteSets

CONSTANTS
    MaxStarts,   \* bound: loops begun, by a start or by a restart
    MaxCrashes   \* bound: loops that crash

LoopAssumption == MaxStarts \in Nat /\ MaxCrashes \in Nat

VARIABLES
    guard,       \* what a loop checks: its "generation" or the "flag" alone
    wanted,      \* whether the last call was a start
    running,     \* #running
    generation,  \* #generation
    loop,        \* per loop begun: its step and its generation
    restarts,    \* generations of the crashed loops whose delay is not over
    doubled,     \* a flag was lowered and raised between two looks of a loop
    revived,     \* a loop that crashed before a stop came back after it
    crashes

loopVars == <<guard, wanted, running, generation, loop, restarts, doubled, revived, crashes>>

Loops == 1..MaxStarts
Off == [pc |-> "off", of |-> 0]
Begun == {l \in Loops : loop[l].pc # "off"}
\* Mutant of Alive: the generation is not looked at.
AliveByTheFlag(l) == running
\* What a loop asks before each pass.
Alive(l) == running /\ (guard = "generation" => loop[l].of = generation)
Standing == {l \in Loops : loop[l].pc \in {"prepare", "pass"}}
Going == {l \in Standing : Alive(l)}

Init ==
    /\ guard \in {"generation", "flag"} /\ wanted = FALSE /\ running = FALSE
    /\ generation = 0 /\ loop = [l \in Loops |-> Off] /\ restarts = {}
    /\ doubled = FALSE /\ revived = FALSE /\ crashes = 0

\* A supervised loop ensures the topology first, which may throw.
Begin(of) ==
    /\ Cardinality(Begun) < MaxStarts
    /\ loop' = [loop EXCEPT ![Cardinality(Begun) + 1] =
                  [pc |-> IF guard = "generation" THEN "prepare" ELSE "pass", of |-> of]]

\* start does nothing on a runner that runs.
Start ==
    /\ wanted' = TRUE
    /\ IF running
       THEN UNCHANGED <<running, generation, loop, doubled>>
       ELSE /\ running' = TRUE /\ generation' = generation + 1
            /\ Begin(generation')
            /\ doubled' = (doubled \/ (guard = "flag" /\ Standing # {}))
    /\ UNCHANGED <<guard, restarts, revived, crashes>>

Stop ==
    /\ wanted /\ wanted' = FALSE /\ running' = FALSE
    /\ UNCHANGED <<guard, generation, loop, restarts, doubled, revived, crashes>>

Prepared(l) ==
    /\ loop[l].pc = "prepare" /\ loop' = [loop EXCEPT ![l].pc = "pass"]
    /\ UNCHANGED <<guard, wanted, running, generation, restarts, doubled, revived, crashes>>

\* The end of a pass, failed or not, and of the wait behind it: the loop goes on or ends.
Leave(l) ==
    /\ loop[l].pc = "pass" /\ ~Alive(l)
    /\ loop' = [loop EXCEPT ![l].pc = "ended"]
    /\ UNCHANGED <<guard, wanted, running, generation, restarts, doubled, revived, crashes>>

\* What throws out of the loop of a flag lowers it, though another loop may go by it.
Crash(l) ==
    /\ crashes < MaxCrashes /\ crashes' = crashes + 1
    /\ loop[l].pc = IF guard = "generation" THEN "prepare" ELSE "pass"
    /\ loop' = [loop EXCEPT ![l].pc = "ended"]
    /\ restarts' = restarts \union {loop[l].of}
    /\ running' = (running /\ guard = "generation")
    /\ UNCHANGED <<guard, wanted, generation, doubled, revived>>

\* The delay is over: a supervised loop comes back if its generation is the current one, a
\* loop of a flag calls start, whatever was called meanwhile.
Restart(of) ==
    /\ of \in restarts /\ restarts' = restarts \ {of}
    /\ IF guard = "generation"
       THEN /\ IF running /\ of = generation THEN Begin(of) ELSE UNCHANGED loop
            /\ UNCHANGED <<running, generation, doubled, revived>>
       ELSE IF running THEN UNCHANGED <<running, generation, loop, doubled, revived>>
       ELSE /\ running' = TRUE /\ generation' = generation + 1 /\ Begin(generation')
            /\ doubled' = (doubled \/ Standing # {}) /\ revived' = (revived \/ ~wanted)
    /\ UNCHANGED <<guard, wanted, crashes>>

Next ==
    \/ Start \/ Stop
    \/ \E l \in Loops : Prepared(l) \/ Leave(l) \/ Crash(l)
    \/ \E of \in 1..MaxStarts : Restart(of)

Spec == Init /\ [][Next]_loopVars

-----------------------------------------------------------------------------
TypeOK ==
    /\ guard \in {"generation", "flag"} /\ wanted \in BOOLEAN /\ running \in BOOLEAN
    /\ doubled \in BOOLEAN /\ revived \in BOOLEAN
    /\ generation \in 0..MaxStarts /\ restarts \subseteq 1..generation
    /\ loop \in [Loops -> [pc : {"off", "prepare", "pass", "ended"}, of : 0..generation]]
    /\ crashes \in 0..MaxCrashes

\* A runner that was started has a loop, or one about to come back; one that was stopped has
\* none that begins another pass, and a start never leaves two. The loops that look at the
\* flag alone break the last two in one way each: a stop and a start between two looks leave
\* two of them, and the restart of a crashed one does not ask whether a stop came meanwhile
\* (queue_runner.ts "a stop() followed by a start() does not end up with two of them").
LoopsFollowTheSwitch ==
    /\ wanted => Going # {} \/ restarts # {}
    /\ Cardinality(Going) > 1 => guard = "flag" /\ doubled
    /\ Going # {} /\ ~wanted => guard = "flag" /\ revived

-----------------------------------------------------------------------------
(* The inductive invariant.                                                   *)

\* The loops that have begun are the first ones, each of a start that was made.
Numbered ==
    /\ \E n \in 0..MaxStarts : Begun = 1..n /\ generation <= n
    /\ \A l \in Loops : loop[l].pc # "off" => loop[l].of # 0

\* By its generation: the runner runs when it is wanted, one loop at most stands of each
\* generation and none while that one is about to come back, and a runner that runs has a
\* loop of the current one, or will.
ByGeneration ==
    /\ running = wanted
    /\ \A k, l \in Standing : loop[k].of = loop[l].of => k = l
    /\ \A l \in Standing : loop[l].of \notin restarts
    /\ running => generation \in restarts \/ \E l \in Standing : loop[l].of = generation

\* By the flag: while it is raised a loop stands; a runner that is wanted with the flag
\* down has a restart coming; and two loops, or a flag nobody wants, come from one gap each.
ByTheFlag ==
    /\ \A l \in Standing : loop[l].pc = "pass"
    /\ running => Standing # {}
    /\ wanted => running \/ restarts # {}
    /\ running => wanted \/ revived
    /\ doubled \/ \A k, l \in Standing : k = l

IInv ==
    /\ TypeOK /\ Numbered
    /\ guard = "generation" => ByGeneration
    /\ guard = "flag" => ByTheFlag
=============================================================================
