----------------------------- MODULE RateLimiter -----------------------------
(* One bucket of a rate limit (foundation/lib/src/rate_limit/                  *)
(* redis_rate_limiter.ts and the script of rate_limit_commands.ts): the        *)
(* theoretical arrival time that shapes the hits, the block a refused hit      *)
(* earns, and the strikes that make the next block longer. Time is counted in  *)
(* half emission intervals, so that a slot can be half refilled.               *)
EXTENDS Integers, Sequences

CONSTANTS
    Limit,         \* hits allowed at once
    Penalty,       \* the first block
    MaxPenalty,    \* the ceiling of a block
    AskedMemory,   \* how long a declaration asks strikes to be kept
    FailOpen,      \* what an outage answers
    MaxTime        \* bound: the time the behaviour ends

RateAssumption ==
    /\ Limit \in Nat \ {0} /\ Penalty \in Nat \ {0} /\ MaxPenalty \in Nat \ {0}
    /\ AskedMemory \in Nat /\ FailOpen \in BOOLEAN /\ MaxTime \in Nat \ {0}

VARIABLES
    now,
    arrival,   \* theoretical arrival time, 0 when its key is gone
    blocked,   \* when the block ends
    strikes,   \* the strikes key and when it expires
    outcome,   \* what the check of this instant answered
    hits,      \* the times of the last hits allowed since the last block began
    blocks     \* the last two blocks, with their start, length and the strikes held then

rateVars == <<now, arrival, blocked, strikes, outcome, hits, blocks>>

Emission == 2
Window == Limit * Emission
Silent == [ok |-> FALSE, left |-> 0, retry |-> 0]
Least(a, b) == IF a <= b THEN a ELSE b
Most(a, b) == IF a >= b THEN a ELSE b
Last(n, s) == SubSeq(s, Most(1, Len(s) - n + 1), Len(s))

\* The constructor cuts the penalty to the ceiling and stretches a memory shorter than the
\* first penalty and the window.
FirstPenalty == Least(Penalty, MaxPenalty)
StrikeMemory == IF AskedMemory > FirstPenalty + Window THEN AskedMemory
                ELSE FirstPenalty + Window + 1

Init ==
    /\ now = 1 /\ arrival = 0 /\ blocked = 0
    /\ strikes = [count |-> 0, until |-> 0]
    /\ outcome = Silent
    /\ hits = <<>> /\ blocks = <<>>

Power[n \in Nat] == IF n = 0 THEN 1 ELSE 2 * Power[n - 1]
Held == IF strikes.until > now THEN strikes.count ELSE 0

\* Mutant of NextArrival: a bucket left alone for long has its whole past to spend.
ArrivalOfThePast == arrival + Emission

\* The arrival a hit moves on to, and the earliest time that would allow it.
NextArrival == Most(arrival, now) + Emission
AllowAt == NextArrival - Window

Refused ==
    /\ blocked > now
    /\ outcome' = [ok |-> FALSE, left |-> 0, retry |-> blocked - now]
    /\ UNCHANGED <<now, arrival, blocked, strikes, hits, blocks>>

\* Mutant of Strike: the block grows with the strikes and not with their power of two.
StrikeByTheCount ==
    /\ blocked <= now /\ now < AllowAt
    /\ LET count == Held + 1
           length == Least(FirstPenalty * count, MaxPenalty) IN
       /\ strikes' = [count |-> count, until |-> now + StrikeMemory]
       /\ blocked' = now + length
       /\ outcome' = [ok |-> FALSE, left |-> 0, retry |-> length]
       /\ blocks' = Last(2, Append(blocks, [from |-> now, length |-> length, held |-> Held]))
    /\ arrival' = 0 /\ hits' = <<>>
    /\ UNCHANGED now

Strike ==
    /\ blocked <= now /\ now < AllowAt
    /\ LET count == Held + 1
           length == Least(FirstPenalty * Power[count - 1], MaxPenalty) IN
       /\ strikes' = [count |-> count, until |-> now + StrikeMemory]
       /\ blocked' = now + length
       /\ outcome' = [ok |-> FALSE, left |-> 0, retry |-> length]
       /\ blocks' = Last(2, Append(blocks, [from |-> now, length |-> length, held |-> Held]))
    /\ arrival' = 0 /\ hits' = <<>>
    /\ UNCHANGED now

Allow ==
    /\ blocked <= now /\ now >= AllowAt
    /\ arrival' = NextArrival
    /\ outcome' = [ok |-> TRUE, retry |-> 0,
                   left |-> (2 * (now - AllowAt) + Emission) \div (2 * Emission)]
    /\ hits' = Last(Limit + 2, Append(hits, now))
    /\ UNCHANGED <<now, blocked, strikes, blocks>>

\* Redis does not answer: the declaration has decided what then.
Unmeasured ==
    /\ outcome' = [ok |-> FailOpen, left |-> IF FailOpen THEN Limit ELSE 0,
                   retry |-> IF FailOpen THEN 0 ELSE Window]
    /\ UNCHANGED <<now, arrival, blocked, strikes, hits, blocks>>

\* The key of the arrival outlives the arrival.
Tick ==
    /\ now < MaxTime /\ now' = now + 1
    /\ arrival' = IF arrival <= now' THEN 0 ELSE arrival
    /\ outcome' = Silent
    /\ UNCHANGED <<blocked, strikes, hits, blocks>>

Next == Refused \/ Strike \/ Allow \/ Unmeasured \/ Tick

Spec == Init /\ [][Next]_rateVars

-----------------------------------------------------------------------------
TypeOK ==
    /\ now \in 1..MaxTime /\ arrival \in 0..now + Window
    /\ blocked \in 0..now + MaxPenalty /\ strikes \in [count : Nat, until : Nat]
    /\ outcome \in [ok : BOOLEAN, left : 0..Limit, retry : Nat]
    /\ hits \in Seq(Nat) /\ \A i \in 1..Len(hits) : hits[i] <= now
    /\ blocks \in Seq([from : Nat, length : Nat, held : Nat])

\* Between two blocks no stretch of time lets more hits through than the limit and one for
\* each interval that passed, however they are spaced.
AllowanceKept ==
    \A i, j \in 1..Len(hits) :
        i <= j => j - i + 1 <= Limit + (hits[j] - hits[i]) \div Emission

\* What an allowed hit is told is left is what the next hits get at once; only a slot that
\* is half refilled or more is counted early, since the script rounds.
RemainingIsHonest ==
    outcome.ok /\ outcome.left # Limit /\ blocked <= now =>
        LET free == (now - (arrival - Window)) \div Emission IN
        outcome.left - free \in {0, 1}
        /\ (outcome.left # free => 2 * ((now - (arrival - Window)) % Emission) >= Emission)

\* A block is twice the one before up to the ceiling, unless its strikes were forgotten:
\* never before the block of a first strike is over, only under one that was doubled past
\* the memory (_outlivingThePenalty: "never shorter than the block the last one produced").
BlocksEscalate ==
    \A i \in 1..Len(blocks) - 1 :
        \/ blocks[i + 1].length = Least(2 * blocks[i].length, MaxPenalty)
        \/ /\ blocks[i + 1].held = 0
           /\ blocks[i + 1].from >= blocks[i].from + StrikeMemory
           /\ \/ blocks[i].from + StrikeMemory > blocks[i].from + blocks[i].length
              \/ blocks[i].length > FirstPenalty

-----------------------------------------------------------------------------
(* Why those hold.                                                            *)

\* The arrival, or the present once it is past, is an interval later than a hit for each
\* hit since and itself.
Paced == \A i \in 1..Len(hits) : Most(arrival, now) >= hits[i] + (Len(hits) - i + 1) * Emission

\* The strikes key is that of the last block, which was as long as its strikes had it.
Remembered ==
    IF blocks = <<>> THEN strikes = [count |-> 0, until |-> 0]
    ELSE LET last == blocks[Len(blocks)] IN
         /\ strikes = [count |-> last.held + 1, until |-> last.from + StrikeMemory]
         /\ last.length = Least(FirstPenalty * Power[last.held], MaxPenalty)

IInv == TypeOK /\ AllowanceKept /\ RemainingIsHonest /\ BlocksEscalate /\ Paced /\ Remembered
=============================================================================
