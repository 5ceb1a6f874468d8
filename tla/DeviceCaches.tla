----------------------------- MODULE DeviceCaches -----------------------------
(* The devices of one account, listed, shown, checked and thrown out over     *)
(* what is remembered of them (auth/lib/src/devices: devices.ts,              *)
(* repository.ts, valkery.ts): the whole list, each device, and the hardware  *)
(* each was recorded with, which a request is checked against. A change of a  *)
(* row drops the three at once, when the row is written; a reading puts back  *)
(* what it read before.                                                       *)
EXTENDS Naturals, FiniteSets

CONSTANTS
    Devices,
    Ops,               \* what the calls do
    Calls,             \* calls that are under way together
    MaxBegun,          \* bound: calls
    MaxDeviceFaults    \* bound: writes refused, deletes of Redis lost, calls that die

Operations == {"list", "get", "verify", "register", "origin", "kick", "kickAll"}

DeviceCachesAssumption == Ops \subseteq Operations /\ MaxBegun \in Nat /\ MaxDeviceFaults \in Nat

VARIABLES
    row,        \* per device: the hardware recorded, and how often the row was written
    cache,      \* what is remembered: the list, each device, the hardware of each
    call,       \* per call: what it does, where it is, what it read
    tainted,    \* entries that may differ from the rows, for a reason the code accepts
    begun, deviceFaults

deviceVars == <<row, cache, call, tainted, begun, deviceFaults>>

Hardware == {"a", "b"}
Absent == [hw |-> "none", seen |-> 0]
Rows == {Absent} \union [hw : Hardware, seen : 1..(MaxBegun + 1)]
List == <<"list">>
One(d) == <<"one", d>>
Hw(d) == <<"hardware", d>>
EntriesOf(d) == {List, One(d), Hw(d)}
Entries == UNION {EntriesOf(d) : d \in Devices}
Present == {d \in Devices : row[d] # Absent}

\* What an entry is of: all the rows, one row, or its hardware.
Told(e, rows) == CASE e[1] = "list" -> rows
                   [] e[1] = "one" -> [d \in Devices |-> IF d = e[2] THEN rows[d] ELSE Absent]
                   [] OTHER -> [d \in Devices |-> IF d = e[2] THEN [rows[d] EXCEPT !.seen = 0] ELSE Absent]
Nothing == [d \in Devices |-> Absent]
Missing == [kept |-> FALSE, value |-> Nothing]
Kept(value) == [kept |-> TRUE, value |-> value]

Idle == [op |-> "none", of |-> CHOOSE d \in Devices : TRUE, pc |-> "idle", got |-> Nothing,
         shown |-> "none", todo |-> {}, owed |-> {}, due |-> "any", blamed |-> FALSE, answer |-> "none"]

Init ==
    /\ row \in [Devices -> {Absent, [hw |-> "a", seen |-> 1]}]
    /\ \E kept \in SUBSET {"list", "one", "hardware"} :
          cache = [e \in Entries |-> IF e[1] \in kept /\ (e[1] = "list" \/ row[e[2]] # Absent)
                                     THEN Kept(Told(e, row)) ELSE Missing]
    /\ call = [c \in Calls |-> Idle]
    /\ tainted = {} /\ begun = 0 /\ deviceFaults = 0

Fault == deviceFaults < MaxDeviceFaults /\ deviceFaults' = deviceFaults + 1
Unsettled(d) == \E c \in Calls : call[c].pc = "invalidate" /\ call[c].of = d
EntryOf(c) == CASE call[c].op \in {"list", "kickAll"} -> List
                [] call[c].op = "get" -> One(call[c].of)
                [] OTHER -> Hw(call[c].of)
To(c, pc) == call' = [call EXCEPT ![c].pc = pc]

\* A check begins with the hardware the request shows, and is sure of its answer for as long as
\* the row does not change; a throwing out of all owes those that are settled when it begins.
Begin(c, op, d, shown) ==
    /\ call[c].pc = "idle" /\ begun < MaxBegun /\ begun' = begun + 1
    /\ call' = [call EXCEPT ![c] =
          [Idle EXCEPT !.op = op, !.of = d, !.shown = shown,
             !.pc = CASE op \in {"list", "get", "verify", "kickAll"} -> "cached"
                      [] op = "origin" -> "write" [] OTHER -> "known",
             !.owed = IF op = "kickAll" THEN {x \in Present : ~Unsettled(x)} ELSE {},
             !.due = IF op # "verify" \/ Unsettled(d) THEN "any"
                     ELSE IF row[d].hw = shown THEN "ok" ELSE "refused"]]
    /\ UNCHANGED <<row, cache, tainted, deviceFaults>>

\* What is said once the entry, or the row, has been read.
Say(c, value, blamed) ==
    LET op == call[c].op IN
    call' = [call EXCEPT ![c] =
       [@ EXCEPT !.blamed = blamed,
          !.pc = IF op = "kickAll" THEN "next" ELSE IF op = "verify" THEN "done" ELSE "idle",
          !.todo = IF op = "kickAll" THEN {d \in Devices : value[d] # Absent} ELSE {},
          !.answer = IF op # "verify" THEN "none"
                     ELSE IF value[call[c].of].hw = call[c].shown THEN "ok" ELSE "refused"]]

Cached(c) ==
    /\ call[c].pc = "cached"
    /\ IF cache[EntryOf(c)].kept THEN Say(c, cache[EntryOf(c)].value, EntryOf(c) \in tainted)
                                 ELSE To(c, "read")
    /\ UNCHANGED <<row, cache, tainted, begun, deviceFaults>>

\* A device that has no row is not remembered; the list is, whatever it holds.
Read(c) ==
    LET value == Told(EntryOf(c), row) IN
    /\ call[c].pc = "read"
    /\ IF value = Nothing /\ EntryOf(c) # List
       THEN Say(c, value, FALSE)
       ELSE call' = [call EXCEPT ![c].pc = "fill", ![c].got = value]
    /\ UNCHANGED <<row, cache, tainted, begun, deviceFaults>>

\* What was read is remembered over a change that was made meanwhile.
Fill(c) ==
    LET e == EntryOf(c) IN
    /\ call[c].pc = "fill"
    /\ cache' = [cache EXCEPT ![e] = Kept(call[c].got)]
    /\ tainted' = IF call[c].got = Told(e, row) THEN tainted ELSE tainted \union {e}
    /\ Say(c, call[c].got, FALSE)
    /\ UNCHANGED <<row, begun, deviceFaults>>

\* kick and register look the row up; a device the account never used is not thrown out.
Known(c) ==
    /\ call[c].pc = "known"
    /\ To(c, IF call[c].op = "register" \/ row[call[c].of] # Absent THEN "write"
             ELSE IF call[c].op = "kickAll" THEN "next" ELSE "idle")
    /\ UNCHANGED <<row, cache, tainted, begun, deviceFaults>>

\* The row after a removal, a registration (which renews a row that is there) and a note of
\* where a request came from.
Written(c) ==
    LET d == call[c].of IN
    CASE call[c].op \in {"kick", "kickAll"} -> Absent
      [] row[d] # Absent -> [row[d] EXCEPT !.seen = @ + 1]
      [] call[c].op = "register" -> [hw |-> call[c].shown, seen |-> 1]
      [] OTHER -> Absent

\* What the other calls count on changes with the row.
Shaken(d, hw) ==
    [c \in Calls |-> [call[c] EXCEPT
       !.due = IF call[c].of = d /\ hw # row[d].hw THEN "any" ELSE @,
       !.owed = IF hw = "none" THEN @ \ {d} ELSE @]]

\* A write that touched no row ends the call; so does one that was refused, but for a
\* registration, which takes any answer for a yes.
Write(c, ok) ==
    LET d == call[c].of
        new == IF ok THEN Written(c) ELSE row[d]
        goes == call[c].op = "register" \/ (ok /\ row[d] # Absent)
    IN /\ call[c].pc = "write" /\ (IF ok THEN UNCHANGED deviceFaults ELSE Fault)
       /\ row' = [row EXCEPT ![d] = new]
       /\ call' = [Shaken(d, new.hw) EXCEPT ![c] =
             [@ EXCEPT !.blamed = @ \/ ~ok,
                       !.pc = IF goes THEN "invalidate"
                               ELSE IF call[c].op = "kickAll" THEN "next" ELSE "idle"]]
       /\ UNCHANGED <<cache, tainted, begun>>

\* Mutant of KickNext: the device that was looked at first is the only one.
KickFirst(c) ==
    /\ call[c].pc = "next"
    /\ IF call[c].todo = {} THEN To(c, "done")
       ELSE \E d \in call[c].todo :
              call' = [call EXCEPT ![c].pc = "known", ![c].of = d, ![c].todo = {}]
    /\ UNCHANGED <<row, cache, tainted, begun, deviceFaults>>

\* Mutant of Invalidate: the device is forgotten and the list it belongs to is not.
InvalidateOne(c, lost) ==
    LET d == call[c].of IN
    /\ call[c].pc = "invalidate" /\ lost \subseteq EntriesOf(d)
    /\ IF lost = {} THEN UNCHANGED deviceFaults ELSE Fault
    /\ cache' = [e \in Entries |-> IF e \in EntriesOf(d) \ (lost \union {List}) THEN Missing ELSE cache[e]]
    /\ tainted' = tainted \union lost
    /\ To(c, IF call[c].op = "kickAll" THEN "next" ELSE "idle")
    /\ UNCHANGED <<row, begun>>

\* The three entries are dropped at once; Redis may lose any of them.
Invalidate(c, lost) ==
    LET d == call[c].of IN
    /\ call[c].pc = "invalidate" /\ lost \subseteq EntriesOf(d)
    /\ IF lost = {} THEN UNCHANGED deviceFaults ELSE Fault
    /\ cache' = [e \in Entries |-> IF e \in EntriesOf(d) \ lost THEN Missing ELSE cache[e]]
    /\ tainted' = tainted \union lost
    /\ To(c, IF call[c].op = "kickAll" THEN "next" ELSE "idle")
    /\ UNCHANGED <<row, begun>>

\* kickAll throws out what was listed, one after the other.
KickNext(c) ==
    /\ call[c].pc = "next"
    /\ IF call[c].todo = {} THEN To(c, "done")
       ELSE \E d \in call[c].todo :
              call' = [call EXCEPT ![c].pc = "known", ![c].of = d, ![c].todo = @ \ {d}]
    /\ UNCHANGED <<row, cache, tainted, begun, deviceFaults>>

\* A device that is not the one recorded is signed out of the session it shows.
End(c) ==
    /\ call[c].pc = "done" /\ call' = [call EXCEPT ![c] = Idle]
    /\ UNCHANGED <<row, cache, tainted, begun, deviceFaults>>

\* A process that dies leaves what it has not dropped.
Die(c) ==
    /\ call[c].pc \notin {"idle", "done"} /\ Fault
    /\ tainted' = IF call[c].pc = "invalidate" THEN tainted \union EntriesOf(call[c].of) ELSE tainted
    /\ call' = [call EXCEPT ![c] = Idle]
    /\ UNCHANGED <<row, cache, begun>>

Expire(e) ==
    /\ cache[e].kept /\ cache' = [cache EXCEPT ![e] = Missing]
    /\ tainted' = tainted \ {e}
    /\ UNCHANGED <<row, call, begun, deviceFaults>>

Next ==
    \/ \E c \in Calls :
        \/ \E op \in Ops \intersect {"list", "kickAll"} : Begin(c, op, Idle.of, "none")
        \/ \E op \in Ops \intersect {"get", "kick", "origin"}, d \in Devices : Begin(c, op, d, "none")
        \/ \E op \in Ops \intersect {"verify", "register"}, d \in Devices, hw \in Hardware : Begin(c, op, d, hw)
        \/ Cached(c) \/ Read(c) \/ Fill(c) \/ Known(c) \/ KickNext(c) \/ End(c) \/ Die(c)
        \/ \E ok \in BOOLEAN : Write(c, ok)
        \/ \E lost \in SUBSET EntriesOf(call[c].of) : Invalidate(c, lost)
    \/ \E e \in Entries : Expire(e)

Spec == Init /\ [][Next]_deviceVars

-----------------------------------------------------------------------------
TypeOK ==
    /\ row \in [Devices -> Rows] /\ DOMAIN cache = Entries
    /\ \A c \in Calls :
        /\ call[c].of \in Devices /\ call[c].todo \subseteq Devices /\ call[c].owed \subseteq Devices
        /\ call[c].pc \in {"idle", "cached", "read", "fill", "known", "write", "invalidate", "next", "done"}
        /\ call[c].due \in {"any", "ok", "refused"} /\ call[c].answer \in {"none", "ok", "refused"}
    /\ tainted \subseteq Entries /\ begun \in 0..MaxBegun /\ deviceFaults \in 0..MaxDeviceFaults

\* What is remembered of a device is what its row says, once the calls that wrote it have
\* dropped it. Exceptions: an entry put back by a reading from before the change, a delete
\* Redis lost, and what a process that died had still to drop (devices/valkery.ts).
RememberedAsRecorded ==
    \A e \in Entries : cache[e].kept /\ e \notin tainted
        => \/ cache[e].value = Told(e, row)
           \/ \E d \in Devices : e \in EntriesOf(d) /\ Unsettled(d)

\* A request is signed out for its device only when the device is not, or was not all the
\* while, the one it shows, and passes only when it is; but for hardware remembered from
\* before a change (devices.ts verify).
CheckedAsRecorded ==
    \A c \in Calls : call[c].pc = "done" /\ call[c].op = "verify"
        => call[c].answer = call[c].due \/ call[c].due = "any" \/ call[c].blamed

\* "Throws out every device of this account" (devices.ts kickAll): every device it had, with
\* its sign-in over, when the call began is gone when it ends, but for a list remembered from
\* before a change and a removal that was refused.
EveryDeviceThrownOut ==
    \A c \in Calls : call[c].pc = "done" /\ call[c].op = "kickAll"
        => call[c].owed = {} \/ call[c].blamed
=============================================================================
