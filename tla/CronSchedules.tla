--------------------------- MODULE CronSchedules ----------------------------
(***************************************************************************)
(* What a scheduled job is declared with, and the instants that names      *)
(* (foundation/lib/src/cron: cron.ts, schedule.ts, interval_schedule.ts,   *)
(* daily_schedule.ts, cron_expression.ts, scheduled_crons.ts, next_run.ts, *)
(* whole_minutes.ts, cron_registry.ts).                                    *)
(*                                                                         *)
(* Replicas declare the same jobs at moments of their own, before or after *)
(* their host has a clock, and their clocks differ.  What keeps one        *)
(* occurrence one is that all of them name the same instants.  The marker  *)
(* of an occurrence is CronSlots.                                          *)
(***************************************************************************)
EXTENDS Integers, FiniteSets, FiniteSetsExt

CONSTANTS
    Replicas,
    Ahead,      \* [Replicas -> how far its clock runs ahead]
    Offered,    \* the declarations a project may make: [name, schedule, timeout]
    Minute,     \* the units of a minute
    Day,        \* the minutes of a day
    Changes,    \* when the clocks of the zone go forward and back
    Horizon     \* bound: the last instant of a behaviour

Never == -1

Kinds == {"interval", "daily", "cron"}

ScheduleAssumption ==
    /\ Ahead \in [Replicas -> Nat]
    /\ {Minute, Day} \subseteq Nat \ {0} /\ Horizon \in Nat
    /\ Changes.forward \in Nat /\ Changes.back \in Nat
    /\ \A d \in Offered :
          /\ d.timeout \in Int /\ d.schedule.kind \in Kinds
          /\ d.schedule.kind = "interval" => d.schedule.every \in Int
          \* What an expression comes at is a time of day.
          /\ d.schedule.kind = "cron" => d.schedule.times \subseteq 0..(Day - 1)
    \* The calendar of the model is longer than a behaviour on the clock furthest ahead.
    /\ \A r \in Replicas : Horizon + Ahead[r] < (2 * Day - 1) * Minute

VARIABLES
    now,
    clocked,    \* the replicas whose host has filled the clock
    armed,      \* the jobs of each replica, by name
    taken       \* the occurrences each replica took, and when by its clock

scheduleVars == <<now, clocked, armed, taken>>

Clock(r) == now + Ahead[r]
Names(r) == DOMAIN armed[r]

-----------------------------------------------------------------------------
(* Calendars.                                                              *)

Instants == 0..(3 * Day * Minute)

\* UTC, or a zone whose clock is one minute ahead between its two changes.
LocalOf(zone, i) ==
    (i \div Minute) + (IF zone # "utc" /\ i >= Changes.forward /\ i < Changes.back THEN 1 ELSE 0)

\* The occurrence of a time on a day: the instant the clock of the zone first shows that time, or
\* is past it when the time does not exist that day.
OccurrenceOf(zone, day, time) ==
    Min({i \in Instants : LocalOf(zone, i) >= day * Day + time})

OfTimes(zone, times) == {OccurrenceOf(zone, d, t) : d \in 0..2, t \in times}

After(S, i) == {j \in S : j > i}

\* Mutant of NextOnTheGrid: an interval after whenever it is asked.
GridFromRegistration(after, every) == after + every

\* The first multiple of the interval strictly after an instant.
NextOnTheGrid(after, every) == ((after \div every) + 1) * every

\* The next run of a schedule: of a daily one, the earliest of its times.
NextRun(s, after) ==
    CASE s.kind = "interval" -> NextOnTheGrid(after, s.every)
      [] s.kind = "cron" -> Min(After(OfTimes(s.zone, s.times), after))
      [] s.kind = "daily" -> Min({Min(After(OfTimes(s.zone, {t}), after)) : t \in s.times})

\* Mutant of NextAfterSlot: what was slept through is owed.
NextAfterSlotOwed(s, slot, clock) == NextRun(s, slot)

\* What was slept through is skipped.
NextAfterSlot(s, slot, clock) ==
    IF s.kind # "interval" THEN NextRun(s, clock)
    ELSE slot + s.every * Max({1, ((clock - slot) \div s.every) + 1})

-----------------------------------------------------------------------------
(* Declarations.                                                           *)

WholeMinutes(d) == d > 0 /\ d % Minute = 0

\* Times that are none, or no time of day.
BadTimes(times) == times = {} \/ \E t \in times : t \notin 0..(Day - 1)

\* An expression of other than five fields, or that never comes.
BadExpression(s) == s.fields # 5 \/ s.times = {}

Zones == {"utc", "zoned"}

Refused(d) ==
    LET s == d.schedule IN
    \/ s.kind = "interval" /\ ~WholeMinutes(s.every)
    \/ s.kind = "daily" /\ BadTimes(s.times)
    \/ s.kind = "cron" /\ BadExpression(s)
    \/ s.kind # "interval" /\ s.zone \notin Zones
    \/ ~WholeMinutes(d.timeout)

Init ==
    /\ now = 0 /\ clocked = {}
    /\ armed = [r \in Replicas |-> [n \in {} |-> Never]]
    /\ taken = {}

FillTheClock(r) ==
    /\ r \notin clocked
    /\ clocked' = clocked \cup {r}
    /\ UNCHANGED <<now, armed, taken>>

\* Through the port a key that is held answers what holds it; a job of the project whose name is
\* taken is refused. A job declared before the host has a clock has no next run yet.
Declare(r, d) ==
    /\ ~Refused(d) /\ d.name \notin Names(r)
    /\ armed' = [armed EXCEPT ![r] = [n \in Names(r) \cup {d.name} |->
            IF n # d.name THEN armed[r][n]
            ELSE LET next == IF r \in clocked THEN NextRun(d.schedule, Clock(r)) ELSE Never IN
                 [schedule |-> d.schedule, next |-> next, from |-> IF next = Never THEN Never
                                                                   ELSE Clock(r)]]]
    /\ UNCHANGED <<now, clocked, taken>>

Tick ==
    /\ now < Horizon
    /\ now' = now + 1
    /\ UNCHANGED <<clocked, armed, taken>>

Anchored(r, n) ==
    IF armed[r][n].next # Never THEN armed[r][n]
    ELSE [armed[r][n] EXCEPT !.next = NextRun(armed[r][n].schedule, Clock(r)), !.from = Clock(r)]

\* A turn of the loop: each job is anchored the first time it is asked, and one that is due is
\* taken and moves on. A replica that is stalled turns late.
Turn(r) ==
    LET due == {n \in Names(r) : Clock(r) >= Anchored(r, n).next} IN
    /\ r \in clocked
    /\ armed' = [armed EXCEPT ![r] = [n \in Names(r) |->
            LET job == Anchored(r, n) IN
            IF n \in due THEN [job EXCEPT !.next = NextAfterSlot(job.schedule, job.next, Clock(r))]
            ELSE job]]
    /\ taken' = taken \cup {[by |-> r, name |-> n, slot |-> Anchored(r, n).next, at |-> Clock(r)] :
                              n \in due}
    /\ UNCHANGED <<now, clocked>>

Next ==
    \/ Tick
    \/ \E r \in Replicas : \/ FillTheClock(r) \/ Turn(r)
                           \/ \E d \in Offered : Declare(r, d)

Spec == Init /\ [][Next]_scheduleVars

-----------------------------------------------------------------------------
TypeOK ==
    /\ now \in 0..Horizon /\ clocked \subseteq Replicas /\ DOMAIN armed = Replicas
    /\ \A r \in Replicas : \A n \in Names(r) :
          armed[r][n].next \in Nat \cup {Never} /\ (r \notin clocked => armed[r][n].next = Never)
    /\ \A t \in taken : t.by \in Replicas

\* The instants a schedule names, whoever asks and whenever.
InstantsOf(s) ==
    IF s.kind = "interval" THEN {i \in Instants : i % s.every = 0} ELSE OfTimes(s.zone, s.times)

\* Whatever the moment a replica declared a job and however its clock runs, an occurrence it takes
\* is one the schedule names, each once; what it slept through is skipped and not replayed; and it
\* skips nothing else (next_run.ts: "two replicas of one deployment name two series of instants").
SameInstants ==
    /\ \A t \in taken :
          /\ t.slot \in InstantsOf(armed[t.by][t.name].schedule) /\ t.slot <= t.at
          /\ \A u \in taken : u.by = t.by /\ u.name = t.name => t = u \/ t.slot > u.at \/ u.slot > t.at
    /\ \A r \in Replicas : \A n \in Names(r) :
          LET job == armed[r][n] IN
          \A i \in InstantsOf(job.schedule) : job.from # Never /\ i > job.from /\ i < job.next =>
              \E t \in taken : t.by = r /\ t.name = n /\ t.slot <= i /\ i <= t.at

-----------------------------------------------------------------------------
(* What the steps preserve.                                                *)

Accepted == {d.schedule : d \in {e \in Offered : ~Refused(e)}}

\* The instants a schedule names, beyond the calendar too.
Named(s) == IF s.kind = "interval" THEN {i \in Nat : i % s.every = 0} ELSE OfTimes(s.zone, s.times)

\* What was taken of a job came before its next run, each at a time of its own.
Spent(r, n, next) ==
    \A t \in taken : t.by = r /\ t.name = n =>
        /\ t.slot \in Named(armed[r][n].schedule) /\ t.slot <= t.at /\ t.at <= Clock(r) /\ t.at < next
        /\ \A u \in taken : u.by = r /\ u.name = n => t = u \/ t.slot > u.at \/ u.slot > t.at

\* Between where a job was anchored and its next run there is no instant that was not taken, nor
\* slept through.
Met(r, n, from, next) ==
    \A i \in (from + 1)..(next - 1) : i \in Named(armed[r][n].schedule) =>
        \E t \in taken : t.by = r /\ t.name = n /\ t.slot <= i /\ i <= t.at

\* A job with no next run yet was never taken; one that has one keeps in step with its schedule.
InStep(r, n) ==
    LET job == armed[r][n] IN
    /\ job \in [schedule : Accepted, next : Nat \cup {Never}, from : Nat \cup {Never}]
    /\ \/ /\ job.next = Never /\ job.from = Never
          /\ \A t \in taken : ~(t.by = r /\ t.name = n)
       \/ /\ job.next \in Named(job.schedule) /\ job.from \in 0..Clock(r) /\ job.from < job.next
          /\ Spent(r, n, job.next) /\ Met(r, n, job.from, job.next)

IInv ==
    /\ TypeOK
    /\ \A t \in taken : t.by \in Replicas /\ t.name \in Names(t.by) /\ t.slot \in Nat /\ t.at \in Nat
    /\ \A r \in Replicas : \A n \in Names(r) : InStep(r, n)
=============================================================================
