------------------------------ MODULE HookChain ------------------------------
(* A hook and those who subscribed to it (foundation/lib/src/hook): handlers   *)
(* that run inside the emission, in order, and may refuse it, and background   *)
(* handlers behind a queue. A handler may answer at once or later, throw, never*)
(* answer, or emit the hook it is on; emissions overlap whenever one waits.    *)
EXTENDS Naturals, FiniteSets

CONSTANTS
    Inline,          \* how many handlers run inside the emission
    Background,      \* how many run later, none or the queue they declare
    MaxEmissions,    \* bound: emissions, those of handlers included
    MaxTries,        \* runs the queue gives a job
    MaxHookFaults    \* bound: pushes and background runs that fail

HookAssumption ==
    {Inline, Background, MaxEmissions, MaxHookFaults} \subseteq Nat /\ MaxTries \in Nat \ {0}

VARIABLES
    emission,   \* per emission: its step, the handler it is at, the last answer, what it ran
    job,        \* per emission, its payload on the queue: its state, the next handler, its tries
    ran,        \* per emission and background handler, how often it ran to its end
    hookFaults

hookVars == <<emission, job, ran, hookFaults>>

Emissions == 1..MaxEmissions
Fault == hookFaults < MaxHookFaults /\ hookFaults' = hookFaults + 1
May(ok) == IF ok THEN UNCHANGED hookFaults ELSE Fault
Unused == [pc |-> "off", at |-> 1, last |-> "fallback", answers |-> {}, gaveUp |-> FALSE,
           nested |-> FALSE]
NoJob == [state |-> "none", next |-> 1, tries |-> 0]

Init ==
    /\ emission = [e \in Emissions |-> Unused] /\ job = [e \in Emissions |-> NoJob]
    /\ ran = [e \in Emissions |-> [b \in 1..Background |-> 0]] /\ hookFaults = 0

Emitted == {e \in Emissions : emission[e].pc # "off"}
Fresh == Cardinality(Emitted) + 1

\* A hook nobody subscribed to answers its fallback without anything else.
Opened == [Unused EXCEPT !.pc = IF Inline + Background = 0 THEN "ended"
                                ELSE IF Inline = 0 THEN "enqueue" ELSE "chain"]
\* An emission a handler makes before it awaits anything: no handler runs, though what follows
\* the chain does.
Reentered == [Unused EXCEPT !.pc = "enqueue", !.nested = TRUE]

\* Mutant of Answered: a refusal stops the chain and not what follows it.
AnsweredLast(e, answer) ==
    [emission[e] EXCEPT !.answers = @ \union {<<emission[e].at, answer>>},
                        !.last = IF answer = "throw" THEN @ ELSE answer,
                        !.at = @ + 1,
                        !.pc = IF answer = "refuse" THEN "enqueue"
                               ELSE IF answer = "throw" THEN "raised"
                               ELSE IF emission[e].at = Inline THEN "enqueue" ELSE "chain"]

\* A refusal ends the chain and leaves the queue alone; the last acceptance ends it too.
Answered(e, answer) ==
    [emission[e] EXCEPT !.answers = @ \union {<<emission[e].at, answer>>},
                        !.last = IF answer = "throw" THEN @ ELSE answer,
                        !.at = @ + 1,
                        !.pc = IF answer = "refuse" THEN "ended"
                               ELSE IF answer = "throw" THEN "raised"
                               ELSE IF emission[e].at = Inline THEN "enqueue" ELSE "chain"]

-----------------------------------------------------------------------------
Emit ==
    /\ Fresh \in Emissions /\ emission' = [emission EXCEPT ![Fresh] = Opened]
    /\ UNCHANGED <<job, ran, hookFaults>>

\* Calls the next handler. While it is on the stack the chain knows an emission for its own.
Call(e, answer, emits) ==
    /\ emission[e].pc = "chain" /\ (emits => Fresh \in Emissions)
    /\ LET called == IF answer = "later" THEN [emission[e] EXCEPT !.pc = "wait"]
                     ELSE Answered(e, answer)
       IN  emission' = [d \in Emissions |-> IF d = e THEN called
                                            ELSE IF emits /\ d = Fresh THEN Reentered ELSE emission[d]]
    /\ UNCHANGED <<job, ran, hookFaults>>

\* Once it has awaited something, an emission of its own is like anybody's: Emit.
Settle(e, answer) ==
    /\ emission[e].pc = "wait" /\ answer # "later"
    /\ emission' = [emission EXCEPT ![e] = Answered(e, answer)]
    /\ UNCHANGED <<job, ran, hookFaults>>

\* A handler that did not answer in time is given up on, with every handler behind it.
GiveUp(e) ==
    /\ emission[e].pc = "wait"
    /\ emission' = [emission EXCEPT ![e].pc = "enqueue", ![e].gaveUp = TRUE]
    /\ UNCHANGED <<job, ran, hookFaults>>

\* What nobody refused is handed to the queue; a push that fails is logged and swallowed.
Enqueue(e, ok) ==
    /\ emission[e].pc = "enqueue" /\ May(ok)
    /\ emission' = [emission EXCEPT ![e].pc = "ended"]
    /\ job' = IF Background = 0 THEN job
              ELSE [job EXCEPT ![e].state = IF ok THEN "queued" ELSE "lost"]
    /\ UNCHANGED ran

\* The body of the queue calls the background handlers in turn, from the first on each try.
Run(e, ok) ==
    /\ job[e].state = "queued" /\ May(ok)
    /\ LET next == job[e].next  tries == job[e].tries + 1
       IN  job' = [job EXCEPT ![e] =
               IF ok THEN [state |-> IF next = Background THEN "done" ELSE "queued",
                           next |-> next + 1, tries |-> job[e].tries]
               ELSE [state |-> IF tries = MaxTries THEN "dead" ELSE "queued",
                     next |-> 1, tries |-> tries]]
    /\ ran' = IF ok THEN [ran EXCEPT ![e][job[e].next] = @ + 1] ELSE ran
    /\ UNCHANGED emission

Next ==
    \/ Emit
    \/ \E e \in Emissions, answer \in {"accept", "refuse", "throw", "later"}, yes \in BOOLEAN :
        Call(e, answer, yes) \/ Settle(e, answer) \/ GiveUp(e) \/ Enqueue(e, yes) \/ Run(e, yes)

Spec == Init /\ [][Next]_hookVars

-----------------------------------------------------------------------------
Answers == {"accept", "refuse", "throw"}
EmissionStates ==
    [pc: {"off", "chain", "wait", "enqueue", "ended", "raised"}, at: 1..(Inline + 1),
     last: {"fallback", "accept", "refuse"}, answers: SUBSET ((1..Inline) \X Answers),
     gaveUp: BOOLEAN, nested: BOOLEAN]
JobStates == [state: {"none", "queued", "lost", "done", "dead"}, next: 1..(Background + 1),
              tries: 0..MaxTries]

TypeOK ==
    /\ emission \in [Emissions -> EmissionStates] /\ job \in [Emissions -> JobStates]
    /\ ran \in [Emissions -> [1..Background -> Nat]]
    /\ hookFaults \in 0..MaxHookFaults

\* Background work is queued for an emission every handler accepted, and for no other but one
\* that gave up on a handler or was made by a handler of this hook; one that was refused or
\* raised queues none; none runs twice unless a try failed, and a job done ran them all
\* (hook.ts "a sign-up that was rejected must not send its welcome mail").
NothingBehindARefusal ==
    \A e \in Emissions :
        LET accepted == {i \in 1..Inline : <<i, "accept">> \in emission[e].answers}
        IN  /\ job[e].state # "none" =>
                 accepted = 1..Inline \/ emission[e].gaveUp \/ (emission[e].nested /\ accepted = {})
            /\ \A i \in 1..Inline : <<i, "refuse">> \in emission[e].answers =>
                 job[e].state = "none" /\ emission[e].at = i + 1 /\ accepted = 1..(i - 1)
            /\ emission[e].pc = "ended" /\ Background > 0 =>
                 (job[e].state = "none") = (emission[e].last = "refuse")
            /\ \A b \in 1..Background :
                 /\ ran[e][b] <= job[e].tries + 1
                 /\ job[e].state = "done" => ran[e][b] >= 1

\* Why that holds. Emissions are numbered in the order they are made.
Numbered == \E n \in 0..MaxEmissions : Emitted = 1..n

\* A chain goes on past acceptances alone, and is followed by the queue when none refused.
Accepted(n) == {<<i, "accept">> : i \in 1..n}
Unrefused(m) ==
    \/ m.answers = Accepted(Inline)
    \/ m.gaveUp /\ m.answers = Accepted(m.at - 1)
    \/ m.nested /\ m.answers = {}
Follows(m, j) ==
    /\ m.pc \in {"chain", "wait"} => m.at <= Inline /\ m.answers = Accepted(m.at - 1)
    /\ m.pc \in {"chain", "wait", "enqueue"} => m.last # "refuse"
    /\ m.pc = "enqueue" => Unrefused(m)
    /\ m.pc = "ended" =>
         IF m.last # "refuse" THEN Unrefused(m) /\ (Background > 0 => j.state # "none")
         ELSE m.at > 1 /\ m.answers = Accepted(m.at - 2) \union {<<m.at - 1, "refuse">>}
    /\ m.pc \in {"off", "raised"} => \A i \in 1..Inline : <<i, "refuse">> \notin m.answers
    /\ j.state # "none" => m.pc = "ended" /\ m.last # "refuse"
Followed == \A e \in Emissions : Follows(emission[e], job[e])

\* A try calls a handler once, from the first.
Works(j, times) ==
    /\ j.state \in {"none", "lost"} => j.next = 1 /\ j.tries = 0
    /\ j.state = "queued" => j.next <= Background /\ j.tries < MaxTries
    /\ j.state = "done" => j.next = Background + 1
    /\ \A b \in 1..Background : /\ times[b] <= j.tries + (IF b < j.next THEN 1 ELSE 0)
                                /\ b < j.next => times[b] >= 1
Worked == \A e \in Emissions : Works(job[e], ran[e])

IInv == TypeOK /\ Numbered /\ Followed /\ Worked
=============================================================================
