--------------------------- MODULE RemoteConfigs ---------------------------
(* One configuration of remote_configs/lib: a row of a value and an expiry,   *)
(* read through a shared cache; set, ttl and delete change the row and then   *)
(* drop the cached one (core/declaration.ts, db/values.ts,                    *)
(* runtime/valkery.ts).                                                       *)
EXTENDS Integers

CONSTANTS
    Writers,         \* calls of set, ttl and delete
    Readers,         \* calls of get
    MaxConfigFaults  \* bound: calls of the table or of Redis that fail

ConfigAssumption == MaxConfigFaults \in Nat

VARIABLES
    row,       \* [value, lives]: the call that set the value, or NoRow; "short" rows expire
    over,      \* whether the time the short rows live for is over
    held,      \* the cached row, or Miss
    writing,   \* per call of a writer: its operation, step, and the answer it gave
    reading,   \* per call of get: its step and its row
    last,      \* what the last call that answered Ok left: the call that set it, or "none"
    muddled,   \* whether two changes overlapped, the table refused a removal, or it took a
               \* set that answered a failure
    accepted,  \* whether the cached row may differ from the table for a reason the code accepts
    configFaults

configVars == <<row, over, held, writing, reading, last, muddled, accepted, configFaults>>

NoRow == [value |-> "none", lives |-> "long"]
Miss == [value |-> "miss", lives |-> "long"]
Lives(r) == r.value # "none" /\ (r.lives = "long" \/ ~over)

Init ==
    /\ row = NoRow /\ over = FALSE /\ held = Miss
    /\ writing = [w \in Writers |-> [pc |-> "idle", op |-> "set", lives |-> "long", answer |-> "none"]]
    /\ reading = [r \in Readers |-> [pc |-> "idle", row |-> NoRow, answer |-> "none"]]
    /\ last = "none" /\ muddled = FALSE /\ accepted = FALSE /\ configFaults = 0

Fault == configFaults < MaxConfigFaults /\ configFaults' = configFaults + 1
May(ok) == IF ok THEN UNCHANGED configFaults ELSE Fault
Refused(w) == [writing EXCEPT ![w].pc = "done", ![w].answer = "failure"]

Start(w, op, lives) ==
    /\ writing[w].pc = "idle"
    /\ writing' = [writing EXCEPT ![w] = [pc |-> IF op = "ttl" THEN "read" ELSE "write", op |-> op,
                                          lives |-> lives, answer |-> "none"]]
    /\ muddled' = (muddled \/ \E v \in Writers : writing[v].pc \notin {"idle", "done"})
    /\ UNCHANGED <<row, over, held, reading, last, accepted, configFaults>>

\* retimeValue looks for a row, expired or not, before it moves the expiry of one.
Look(w) ==
    /\ writing[w].pc = "read"
    /\ writing' = IF row.value = "none" THEN Refused(w) ELSE [writing EXCEPT ![w].pc = "write"]
    /\ UNCHANGED <<row, over, held, reading, last, muddled, accepted, configFaults>>

\* A write the table took and did not answer is answered as a failure, and the cached row
\* stays: what it says may differ from the table from here on.
Unheard(took, ok) == accepted' = (accepted \/ (took /\ ~ok /\ held # Miss))

Store(w, took, ok) ==
    /\ writing[w].pc = "write" /\ writing[w].op = "set" /\ May(ok) /\ (ok => took)
    /\ writing[w].lives = "short" => ~over
    /\ row' = IF took THEN [value |-> w, lives |-> writing[w].lives] ELSE row
    /\ writing' = IF ok THEN [writing EXCEPT ![w].pc = "forget"] ELSE Refused(w)
    /\ Unheard(took, ok) /\ muddled' = (muddled \/ (took /\ ~ok))
    /\ UNCHANGED <<over, held, reading, last>>

Retime(w, took, ok) ==
    /\ writing[w].pc = "write" /\ writing[w].op = "ttl" /\ May(ok)
    /\ writing[w].lives = "short" => ~over
    /\ took => row.value # "none"
    /\ ok => (took <=> row.value # "none")
    /\ row' = IF took THEN [row EXCEPT !.lives = writing[w].lives] ELSE row
    /\ writing' = IF ok /\ took THEN [writing EXCEPT ![w].pc = "forget"] ELSE Refused(w)
    /\ Unheard(took, ok)
    /\ UNCHANGED <<over, held, reading, last, muddled>>

\* delete looks at no answer of the table: a removal it refused is answered as one it made.
Drop(w, ok) ==
    /\ writing[w].pc = "write" /\ writing[w].op = "delete" /\ May(ok)
    /\ row' = IF ok THEN NoRow ELSE row
    /\ writing' = [writing EXCEPT ![w].pc = "forget"] /\ muddled' = (muddled \/ ~ok)
    /\ UNCHANGED <<over, held, reading, last, accepted>>

\* Mutant of Forget: the entry stays.
ForgetNothing(w, ok) ==
    /\ writing[w].pc = "forget" /\ May(ok)
    /\ writing' = [writing EXCEPT ![w].pc = "done", ![w].answer = "ok"]
    /\ held' = held
    /\ accepted' = ~ok
    /\ last' = CASE writing[w].op = "set" -> w [] writing[w].op = "delete" -> "none" [] OTHER -> last
    /\ UNCHANGED <<row, over, reading, muddled>>

Forget(w, ok) ==
    /\ writing[w].pc = "forget" /\ May(ok)
    /\ writing' = [writing EXCEPT ![w].pc = "done", ![w].answer = "ok"]
    /\ held' = IF ok THEN Miss ELSE held
    /\ accepted' = ~ok
    /\ last' = CASE writing[w].op = "set" -> w [] writing[w].op = "delete" -> "none" [] OTHER -> last
    /\ UNCHANGED <<row, over, reading, muddled>>

\* get answers a cached row, judging its expiry itself, or loads one and caches it.
Value(r) == IF Lives(r) THEN r.value ELSE "none"
Get(r) ==
    /\ reading[r].pc = "idle"
    /\ reading' = [reading EXCEPT ![r] = IF held = Miss THEN [@ EXCEPT !.pc = "load"]
                                         ELSE [@ EXCEPT !.pc = "done", !.answer = Value(held)]]
    /\ UNCHANGED <<row, over, held, writing, last, muddled, accepted, configFaults>>

Load(r, ok) ==
    /\ reading[r].pc = "load" /\ May(ok)
    /\ reading' = [reading EXCEPT ![r] = IF ok THEN [@ EXCEPT !.pc = "fill", !.row = row]
                                         ELSE [@ EXCEPT !.pc = "done", !.answer = "none"]]
    /\ UNCHANGED <<row, over, held, writing, last, muddled, accepted>>

Fill(r) ==
    /\ reading[r].pc = "fill" /\ held' = reading[r].row /\ accepted' = (reading[r].row # row)
    /\ reading' = [reading EXCEPT ![r].pc = "done", ![r].answer = Value(reading[r].row)]
    /\ UNCHANGED <<row, over, writing, last, muddled, configFaults>>

Expire ==
    /\ held # Miss /\ held' = Miss /\ accepted' = FALSE
    /\ UNCHANGED <<row, over, writing, reading, last, muddled, configFaults>>

Lapse ==
    /\ ~over /\ over' = TRUE
    /\ UNCHANGED <<row, held, writing, reading, last, muddled, accepted, configFaults>>

Next ==
    \/ \E w \in Writers :
        \/ \E op \in {"set", "ttl", "delete"}, lives \in {"short", "long"} : Start(w, op, lives)
        \/ Look(w)
        \/ \E ok \in BOOLEAN :
            \/ \E took \in BOOLEAN : Store(w, took, ok) \/ Retime(w, took, ok)
            \/ Drop(w, ok) \/ Forget(w, ok)
    \/ \E r \in Readers : Get(r) \/ Fill(r) \/ \E ok \in BOOLEAN : Load(r, ok)
    \/ Expire \/ Lapse

Spec == Init /\ [][Next]_configVars

-----------------------------------------------------------------------------
Kept == [value : Writers \union {"none"}, lives : {"short", "long"}]
TypeOK ==
    /\ row \in Kept /\ over \in BOOLEAN /\ held \in Kept \union {Miss}
    /\ writing \in [Writers -> [pc : {"idle", "read", "write", "forget", "done"}, op : {"set", "ttl", "delete"},
                                lives : {"short", "long"}, answer : {"none", "ok", "failure"}]]
    /\ reading \in [Readers -> [pc : {"idle", "load", "fill", "done"}, row : Kept,
                                answer : Writers \union {"none"}]]
    /\ last \in Writers \union {"none"} /\ muddled \in BOOLEAN /\ accepted \in BOOLEAN /\ configFaults \in 0..MaxConfigFaults

\* Once every change has been answered, what get answers from the cache is what the table
\* has, and what the table has is what the calls that answered Ok left there. Exceptions: a
\* load that a change overtook; a Redis that failed; a removal the table refused, which is
\* answered Ok all the same; a set or ttl the table took and did not answer, which is answered
\* as a failure and leaves the cached row until it expires; changes that overlapped, where
\* the last to be answered need not be the last to be written (core/declaration.ts,
\* db/values.ts).
AnswersWhatWasLeft ==
    (\A w \in Writers : writing[w].pc \in {"idle", "done"})
    => (held \in {Miss, row} \/ accepted) /\ (row.value = last \/ muddled)
=============================================================================
