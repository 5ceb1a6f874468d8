----------------------------- MODULE Audiences -----------------------------
(* The memberships of one member in the audiences of one name, per feature    *)
(* (audience/lib). A question goes through a cached row that is found under a *)
(* generation (runtime/valkery.ts); a process trusts the generation it read   *)
(* last. A change of one member drops its entry, a change of a whole audience *)
(* moves the generation on (core/declaration.ts). Neither the entry nor the   *)
(* generation has the feature in its key.                                     *)
EXTENDS Integers

CONSTANTS
    Features,          \* features that declare the name
    Replicas,          \* processes; each handles one call at a time
    MaxCalls,          \* bound: calls
    MaxNow,            \* bound: milliseconds the clock moves
    MaxAudienceFaults  \* bound: calls of Redis or of the table that fail

AudienceAssumption ==
    MaxCalls \in Nat /\ MaxNow \in Nat /\ MaxAudienceFaults \in Nat

VARIABLES
    member,      \* per feature: the row of the member
    lapsed,      \* whether the "short" memberships have expired
    entry,       \* per generation: the cached row, or "miss"
    generation,  \* the generation Redis holds
    local,       \* per process: the generation it trusts, or Unread
    asked,       \* per process: its call
    now, calls,
    tainted,     \* generations whose entry may differ from the row, for a reason the code accepts
    audienceFaults

audienceVars == <<member, lapsed, entry, generation, local, asked, now, calls, tainted, audienceFaults>>

Unread == -1
Last == MaxNow + MaxCalls
Rows == {"none", "short", "long"}
Counts(row) == row = "long" \/ (row = "short" /\ ~lapsed)
NoCall == [pc |-> "idle", op |-> "has", of |-> CHOOSE f \in Features : TRUE, at |-> 0, row |-> "none",
           due |-> "any", answer |-> "none"]

\* The row that was cached before the behaviour begins, if any, is that of every feature.
Init ==
    /\ member \in [Features -> Rows] /\ lapsed = FALSE
    /\ \E cached \in {"miss"} \union {row \in Rows : \A f \in Features : member[f] = row} :
          entry = [g \in 0..Last |-> IF g = 0 THEN cached ELSE "miss"]
    /\ generation = 0
    /\ local = [r \in Replicas |-> Unread] /\ asked = [r \in Replicas |-> NoCall]
    /\ now = 0 /\ calls = 0 /\ tainted = {} /\ audienceFaults = 0

Fault == audienceFaults < MaxAudienceFaults /\ audienceFaults' = audienceFaults + 1
May(ok) == IF ok THEN UNCHANGED audienceFaults ELSE Fault
Resting(r) == asked[r].pc = "idle"
To(r, pc) == asked' = [asked EXCEPT ![r].pc = pc]
Ends(r) == asked' = [asked EXCEPT ![r] = NoCall]
Writing(f) == \E r \in Replicas : ~Resting(r) /\ asked[r].op # "has" /\ asked[r].of = f
Truth(f) == IF Counts(member[f]) THEN "in" ELSE "out"

\* The right answer of a question is known as long as nothing changes the audience meanwhile.
Unsure(f) == [r \in Replicas |-> IF asked[r].of = f THEN [asked[r] EXCEPT !.due = "any"] ELSE asked[r]]

Begin(r, op, f) ==
    /\ Resting(r) /\ calls < MaxCalls /\ calls' = calls + 1
    /\ asked' = [(IF op = "has" THEN asked ELSE Unsure(f)) EXCEPT ![r] =
                   [NoCall EXCEPT !.op = op, !.of = f, !.pc = CASE op = "has" -> "generation"
                                     [] op = "ttl" -> "look" [] OTHER -> "row",
                                  !.due = IF Writing(f) THEN "any" ELSE Truth(f)]]
    /\ UNCHANGED <<member, lapsed, entry, generation, local, now, tainted, audienceFaults>>

\* currentGeneration: a fresh local read, or Redis, where a read that fails is a missing
\* generation.
Generation(r, ok) ==
    /\ asked[r].pc = "generation" /\ (ok \/ local[r] = Unread) /\ May(ok)
    /\ LET g == IF local[r] # Unread THEN local[r] ELSE IF ok THEN generation ELSE 0 IN
       /\ local' = [local EXCEPT ![r] = g]
       /\ asked' = [asked EXCEPT ![r].at = g, ![r].pc =
                      CASE asked[r].op = "has" -> "entry"
                        [] asked[r].op \in {"clear", "addMany"} -> "bump"
                        [] OTHER -> "drop"]
    /\ UNCHANGED <<member, lapsed, entry, generation, now, calls, tainted>>

\* The two seconds a process trusts a generation for are over.
Distrust(r) ==
    /\ local[r] # Unread /\ local' = [local EXCEPT ![r] = Unread]
    /\ UNCHANGED <<member, lapsed, entry, generation, asked, now, calls, tainted, audienceFaults>>

Said(r, row) ==
    asked' = [asked EXCEPT ![r].pc = "answered", ![r].answer = IF Counts(row) THEN "in" ELSE "out"]

Entry(r, ok) ==
    /\ asked[r].pc = "entry" /\ May(ok)
    /\ LET row == entry[asked[r].at] IN
       IF ok /\ row # "miss" THEN Said(r, row) ELSE To(r, "load")
    /\ UNCHANGED <<member, lapsed, entry, generation, local, now, calls, tainted>>

\* A table that cannot be read answers that nobody belongs.
Load(r, ok) ==
    /\ asked[r].pc = "load" /\ May(ok)
    /\ asked' = IF ok THEN [asked EXCEPT ![r].pc = "fill", ![r].row = member[asked[r].of]]
                      ELSE [asked EXCEPT ![r].pc = "answered", ![r].answer = "out", ![r].due = "any"]
    /\ UNCHANGED <<member, lapsed, entry, generation, local, now, calls, tainted>>

\* A row the table no longer holds taints the entry it fills.
Fill(r, ok) ==
    /\ asked[r].pc = "fill" /\ May(ok) /\ Said(r, asked[r].row)
    /\ LET g == asked[r].at IN
       /\ entry' = [entry EXCEPT ![g] = IF ok THEN asked[r].row ELSE @]
       /\ tainted' = IF asked[r].row # member[asked[r].of] THEN tainted \union {g} ELSE tainted
    /\ UNCHANGED <<member, lapsed, generation, local, now, calls>>

Answer(r) ==
    /\ asked[r].pc = "answered" /\ Ends(r)
    /\ UNCHANGED <<member, lapsed, entry, generation, local, now, calls, tainted, audienceFaults>>

After(op, row) ==
    CASE op = "addShort" -> "short" [] op \in {"addLong", "addMany"} -> "long"
      [] op \in {"remove", "clear"} -> "none"
      [] op = "ttl" -> IF row = "none" THEN "none" ELSE "long"

\* retimeMembership looks for a live row before it moves the expiry of one.
Look(r, ok) ==
    /\ asked[r].pc = "look" /\ May(ok)
    /\ IF ok THEN To(r, IF Counts(member[asked[r].of]) THEN "row" ELSE "generation") ELSE Ends(r)
    /\ UNCHANGED <<member, lapsed, entry, generation, local, now, calls, tainted>>

\* Every change but a bulk one goes on to the cache whether or not the table took it; a bulk
\* one stops at the first chunk that fails, and this member may have been in an earlier one.
Write(r, took, ok) ==
    /\ asked[r].pc = "row" /\ May(ok) /\ (ok => took)
    /\ took => ok \/ asked[r].op = "addMany"
    /\ LET f == asked[r].of IN
       /\ asked[r].op = "addShort" => ~lapsed
       /\ member' = [member EXCEPT ![f] = IF took THEN After(asked[r].op, @) ELSE @]
       /\ asked' = [Unsure(f) EXCEPT ![r] = IF ok \/ asked[r].op # "addMany"
                                            THEN [@ EXCEPT !.pc = "generation"] ELSE NoCall]
    /\ tainted' = IF took /\ ~ok THEN tainted \union {generation} ELSE tainted
    /\ UNCHANGED <<lapsed, entry, generation, local, now, calls>>

\* forgetMembership, under the generation this process trusts: one that is behind leaves the
\* entry the others read.
Drop(r, ok) ==
    /\ asked[r].pc = "drop" /\ May(ok) /\ Ends(r)
    /\ entry' = [entry EXCEPT ![asked[r].at] = IF ok THEN "miss" ELSE @]
    /\ tainted' = IF ok /\ asked[r].at = generation THEN tainted ELSE tainted \union {generation}
    /\ UNCHANGED <<member, lapsed, generation, local, now, calls>>

\* Mutant of Bump: the next generation is trusted here and not written to Redis.
BumpHere(r, ok) ==
    /\ asked[r].pc = "bump" /\ May(ok) /\ Ends(r)
    /\ LET next == IF now > asked[r].at THEN now ELSE asked[r].at + 1 IN
       /\ next <= Last
       /\ generation' = generation
       /\ local' = [local EXCEPT ![r] = next]
       /\ tainted' = IF ok /\ next > generation THEN tainted
                     ELSE tainted \union {IF ok THEN next ELSE generation}
    /\ UNCHANGED <<member, lapsed, entry, now, calls>>

\* forgetAudience: the next generation is past the clock and past the one it trusts. One that
\* is not past the one Redis holds makes older entries reachable.
Bump(r, ok) ==
    /\ asked[r].pc = "bump" /\ May(ok) /\ Ends(r)
    /\ LET next == IF now > asked[r].at THEN now ELSE asked[r].at + 1 IN
       /\ next <= Last
       /\ generation' = IF ok THEN next ELSE generation
       /\ local' = [local EXCEPT ![r] = next]
       /\ tainted' = IF ok /\ next > generation THEN tainted
                     ELSE tainted \union {IF ok THEN next ELSE generation}
    /\ UNCHANGED <<member, lapsed, entry, now, calls>>

Expire(g) ==
    /\ entry[g] # "miss" /\ entry' = [entry EXCEPT ![g] = "miss"]
    /\ UNCHANGED <<member, lapsed, generation, local, asked, now, calls, tainted, audienceFaults>>

Lapse ==
    /\ ~lapsed /\ lapsed' = TRUE
    /\ asked' = [r \in Replicas |-> [asked[r] EXCEPT !.due = IF asked[r].op = "has" THEN "any" ELSE @]]
    /\ UNCHANGED <<member, entry, generation, local, now, calls, tainted, audienceFaults>>

Tick ==
    /\ now < MaxNow /\ now' = now + 1
    /\ UNCHANGED <<member, lapsed, entry, generation, local, asked, calls, tainted, audienceFaults>>

Ops == {"has", "addShort", "addLong", "addMany", "remove", "clear", "ttl"}

Next ==
    \/ \E r \in Replicas :
        \/ \E op \in Ops, f \in Features : Begin(r, op, f)
        \/ Distrust(r) \/ Answer(r)
        \/ \E ok \in BOOLEAN : Generation(r, ok) \/ Entry(r, ok) \/ Load(r, ok) \/ Fill(r, ok)
                               \/ Look(r, ok) \/ Drop(r, ok) \/ Bump(r, ok)
        \/ \E took, ok \in BOOLEAN : Write(r, took, ok)
    \/ (\E g \in 0..Last : Expire(g)) \/ Lapse \/ Tick

Spec == Init /\ [][Next]_audienceVars

-----------------------------------------------------------------------------
TypeOK ==
    /\ member \in [Features -> Rows] /\ lapsed \in BOOLEAN
    /\ entry \in [0..Last -> Rows \union {"miss"}] /\ generation \in 0..Last
    /\ local \in [Replicas -> {Unread} \union 0..Last] /\ now \in 0..MaxNow /\ calls \in 0..MaxCalls
    /\ \A r \in Replicas :
        /\ asked[r].pc \in {"idle", "generation", "entry", "load", "fill", "answered", "look", "row", "drop", "bump"}
        /\ asked[r].op \in Ops /\ asked[r].of \in Features /\ asked[r].at \in 0..Last
        /\ asked[r].row \in Rows /\ asked[r].due \in {"any", "in", "out"}
        /\ asked[r].answer \in {"none", "in", "out"}
    /\ tainted \subseteq 0..Last /\ audienceFaults \in 0..MaxAudienceFaults

\* What a declaration says of two features with one name: what has() answers one of them is
\* read from its own rows, whatever is done under the other (core/declaration.ts Audience,
\* runtime/valkery.ts entryOf). The questions of a feature nobody has changed are enough.
FeaturesKeptApart ==
    \A r \in Replicas : asked[r].answer = "in"
        => member[asked[r].of] # "none" \/ asked[r].due # "out"

\* has() answers what the table says whenever nothing changed the audience while it asked.
\* Exceptions: it read under a generation another process has moved on from, within the two
\* seconds a process trusts one; or the entry was left, or put back, by a change that was
\* behind in the same way, by a call of Redis that failed, by a bulk change that failed, or
\* by a load that raced a change (runtime/valkery.ts, core/declaration.ts).
AnswersTheTable ==
    \A r \in Replicas : asked[r].pc = "answered"
        => \/ asked[r].answer = asked[r].due \/ asked[r].due = "any"
           \/ asked[r].at # generation \/ asked[r].at \in tainted
=============================================================================
