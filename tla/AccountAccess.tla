---------------------------- MODULE AccountAccess ----------------------------
(* One session of one account on one device: the refreshes and recoveries   *)
(* that renew it (auth/lib/src/session.ts), racing the operations that take  *)
(* access away: a ban and its lifting (bans.ts), a sign-out (revocation.ts)  *)
(* and a kick of the device (devices/devices.ts). An answer is remembered    *)
(* for a retry and found again through a KeyIndex; the hardware of a device  *)
(* is read through a cache.                                                  *)
EXTENDS Naturals, FiniteSets

CONSTANTS Calls, MaxOps, MaxAccessFaults

AccessAssumption == MaxOps \in Nat /\ MaxAccessFaults \in Nat

VARIABLES
    ban,         \* a standing row of account_bans
    alive,       \* GoTrue still renews the session
    device,      \* the row of account_devices
    hardware,    \* the device:hw entry
    memory,      \* the refresh-idem entry of this session
    index,       \* the entry is a member of the session:idem:index set
    refresh,     \* per call: step, what remains to remember, how it ended
    revoker,     \* the operation under way: its name and step
    kicker,      \* the step of the kick
    ops,         \* operations begun
    taken,       \* what the operations that ended have taken away
    excuse,      \* races that have happened: see the properties
    accessFaults

accessVars == <<ban, alive, device, hardware, memory, index, refresh, revoker, kicker, ops,
                taken, excuse, accessFaults>>

Fault == accessFaults < MaxAccessFaults /\ accessFaults' = accessFaults + 1
NoCall == [pc |-> "idle", todo |-> {}, under |-> {}, by |-> "none"]
NoOp == [op |-> "none", pc |-> "idle"]

Init ==
    /\ ban = FALSE /\ alive = TRUE /\ device = TRUE
    /\ hardware = FALSE /\ memory = FALSE /\ index = FALSE
    /\ refresh = [c \in Calls |-> NoCall]
    /\ revoker = NoOp /\ kicker = "idle" /\ ops = 0
    /\ taken = {} /\ excuse = {} /\ accessFaults = 0

Goto(c, pc) == refresh' = [refresh EXCEPT ![c].pc = pc]
Answer(c, by) == refresh' = [refresh EXCEPT ![c].pc = "done", ![c].by = by, ![c].todo = {}]
RefreshKeeps == UNCHANGED <<ban, device, revoker, kicker, ops, taken>>

\* What has been taken is noted when the call begins. A remembered answer is given again
\* without a check.
Refresh(c) ==
    /\ refresh[c].pc = "idle"
    /\ refresh' = [refresh EXCEPT ![c].pc = IF memory THEN "done" ELSE "rotate",
                                  ![c].by = IF memory THEN "memory" ELSE @,
                                  ![c].under = taken]
    /\ RefreshKeeps /\ UNCHANGED <<alive, hardware, memory, index, excuse, accessFaults>>

Rotate(c) ==
    /\ refresh[c].pc = "rotate"
    /\ IF alive THEN Goto(c, "ban") ELSE Answer(c, "refused")
    /\ RefreshKeeps /\ UNCHANGED <<alive, hardware, memory, index, excuse, accessFaults>>

\* stillAllowed reads the ban first. A ban being renewed is missing for a while.
CheckBan(c) ==
    /\ refresh[c].pc = "ban"
    /\ Goto(c, IF ban THEN "revoke" ELSE "device")
    /\ excuse' = IF ~ban /\ "banned" \in taken THEN excuse \union {"renewal"} ELSE excuse
    /\ RefreshKeeps /\ UNCHANGED <<alive, hardware, memory, index, accessFaults>>

CheckDevice(c) ==
    /\ refresh[c].pc = "device"
    /\ IF hardware
       THEN refresh' = [refresh EXCEPT ![c].pc = "remember", ![c].todo = {"entry", "index"}]
       ELSE Goto(c, IF device THEN "fill" ELSE "revoke")
    /\ RefreshKeeps /\ UNCHANGED <<alive, hardware, memory, index, excuse, accessFaults>>

Fill(c) ==
    /\ refresh[c].pc = "fill"
    /\ hardware' = TRUE
    /\ refresh' = [refresh EXCEPT ![c].pc = "remember", ![c].todo = {"entry", "index"}]
    /\ RefreshKeeps /\ UNCHANGED <<alive, memory, index, excuse, accessFaults>>

\* The answer and its index are written at once, in either order, and by the end the
\* origin of the device is, which drops its entries. What Redis refuses is only logged.
Remember(c, what, ok) ==
    LET last == refresh[c].todo = {what} IN
    /\ refresh[c].pc = "remember" /\ what \in refresh[c].todo
    /\ IF ok THEN UNCHANGED accessFaults ELSE Fault
    /\ excuse' = IF what = "index" /\ ~ok THEN excuse \union {"unindexed"} ELSE excuse
    /\ memory' = (memory \/ (what = "entry" /\ ok))
    /\ index' = (index \/ (what = "index" /\ ok))
    /\ hardware' = (hardware /\ ~(last /\ device))
    /\ IF last THEN Answer(c, "renewal")
               ELSE refresh' = [refresh EXCEPT ![c].todo = @ \ {what}]
    /\ RefreshKeeps /\ UNCHANGED alive

\* A session that may not go on: GoTrue logs every one of the account out and the
\* caches go, with the index of an answer another call has yet to remember.
Revoke(c, ok) ==
    /\ refresh[c].pc = "revoke"
    /\ IF ok THEN alive' = FALSE /\ UNCHANGED accessFaults ELSE UNCHANGED alive /\ Fault
    /\ hardware' = FALSE /\ memory' = (memory /\ ~index) /\ index' = FALSE
    /\ Answer(c, "refused")
    /\ excuse' = IF \E other \in Calls : refresh[other].pc = "remember" /\ refresh[other].todo = {"entry"}
                 THEN excuse \union {"underWay"} ELSE excuse
    /\ RefreshKeeps

RevokerKeeps == UNCHANGED <<device, refresh, kicker>>

\* lay deletes the row before it inserts the new one, lift deletes it, a sign-out
\* goes to GoTrue. A lift that is refused says so; the others go on.
Begin(op, ok) ==
    /\ revoker.pc = "idle" /\ ops < MaxOps
    /\ ops' = ops + 1
    /\ IF ok THEN UNCHANGED accessFaults ELSE Fault
    /\ revoker' = [op |-> op, pc |-> CASE op = "lay" -> "insert" [] op = "lift" -> "idle"
                                      [] OTHER -> "invalidate"]
    /\ ban' = (ban /\ (op = "signOut" \/ ~ok))
    /\ alive' = (alive /\ (op # "signOut" \/ ~ok))
    /\ taken' = IF op = "lift" /\ ok THEN taken \ {"banned"} ELSE taken
    /\ excuse' = excuse \union {e \in {"renewal", "unrevoked"} :
                    \/ e = "renewal" /\ op = "lift" /\ ok /\ "banned" \in taken
                    \/ e = "unrevoked" /\ op = "signOut" /\ ~ok}
    /\ RevokerKeeps /\ UNCHANGED <<hardware, memory, index>>

\* What the insert answers is read as a boolean, and every Result is one that is true: the
\* ban there was is gone, the new one was refused, and lay goes on to answer that it is laid.
Insert(ok) ==
    /\ revoker.pc = "insert"
    /\ IF ok THEN UNCHANGED accessFaults ELSE Fault
    /\ ban' = (ban \/ ok)
    /\ revoker' = [revoker EXCEPT !.pc = "invalidate"]
    /\ excuse' = IF ok THEN excuse ELSE excuse \union {"unlaid"}
    /\ RevokerKeeps /\ UNCHANGED <<alive, hardware, memory, index, ops, taken>>

\* Mutant of Invalidate: the remembered answers stay.
InvalidateTheDevices(ok) ==
    /\ revoker.pc = "invalidate" /\ ok /\ UNCHANGED accessFaults
    /\ revoker' = [revoker EXCEPT !.pc = "forget"]
    /\ memory' = memory
    /\ hardware' = FALSE
    /\ excuse' = IF \E c \in Calls : refresh[c].pc \in {"ban", "device", "fill", "remember"}
                 THEN excuse \union {"underWay"} ELSE excuse
    /\ RevokerKeeps /\ UNCHANGED <<ban, alive, index, ops, taken>>

\* AccountRevocation.caches: SessionIdempotence.invalidate reads the index and deletes
\* the entries it names, then the index; the entries of the devices go. An index that does
\* not answer reads as empty and an entry that is not dropped is only logged.
Invalidate(ok) ==
    /\ revoker.pc = "invalidate"
    /\ IF ok THEN UNCHANGED accessFaults ELSE Fault
    /\ revoker' = [revoker EXCEPT !.pc = "forget"]
    /\ memory' = (memory /\ ~(index /\ ok))
    /\ hardware' = (hardware /\ ~ok)
    /\ excuse' = excuse \union {e \in {"underWay", "undropped"} :
                    \/ e = "undropped" /\ ~ok
                    \/ e = "underWay" /\ \E c \in Calls :
                          refresh[c].pc \in {"ban", "device", "fill", "remember"}}
    /\ RevokerKeeps /\ UNCHANGED <<ban, alive, index, ops, taken>>

Forget ==
    /\ revoker.pc = "forget"
    /\ index' = FALSE
    /\ revoker' = NoOp
    /\ taken' = taken \union {IF revoker.op = "lay" THEN "banned" ELSE "signedOut"}
    /\ RevokerKeeps /\ UNCHANGED <<ban, alive, hardware, memory, ops, excuse, accessFaults>>

\* kick: the row is found and removed, then the entries of the device dropped. The
\* remembered answers are left.
Remove ==
    /\ kicker = "idle" /\ kicker' = "invalidate" /\ device' = FALSE
    /\ UNCHANGED <<ban, alive, hardware, memory, index, refresh, revoker, ops, taken, excuse, accessFaults>>

Kick(ok) ==
    /\ kicker = "invalidate" /\ kicker' = "done" /\ hardware' = (hardware /\ ~ok)
    /\ IF ok THEN UNCHANGED accessFaults ELSE Fault
    /\ taken' = taken \union {"kicked"}
    /\ excuse' = excuse \union {e \in {"filling", "unkicked"} :
                    \/ e = "unkicked" /\ ~ok
                    \/ e = "filling" /\ \E c \in Calls : refresh[c].pc = "fill"}
    /\ UNCHANGED <<ban, alive, device, memory, index, refresh, revoker, ops>>

\* The ttl of an entry runs out.
Expire ==
    /\ \/ memory /\ memory' = FALSE /\ UNCHANGED hardware
       \/ hardware /\ hardware' = FALSE /\ UNCHANGED memory
    /\ UNCHANGED <<ban, alive, device, index, refresh, revoker, kicker, ops, taken, excuse, accessFaults>>

Next ==
    \/ \E c \in Calls :
        \/ Refresh(c) \/ Rotate(c) \/ CheckBan(c) \/ CheckDevice(c) \/ Fill(c)
        \/ \E what \in {"entry", "index"}, ok \in BOOLEAN : Remember(c, what, ok)
        \/ \E ok \in BOOLEAN : Revoke(c, ok)
    \/ \E ok \in BOOLEAN :
        \/ \E op \in {"lay", "lift", "signOut"} : Begin(op, ok)
        \/ Insert(ok) \/ Invalidate(ok) \/ Kick(ok)
    \/ Forget \/ Remove \/ Expire

Spec == Init /\ [][Next]_accessVars

-----------------------------------------------------------------------------
TypeOK ==
    /\ {ban, alive, device, hardware, memory, index} \subseteq BOOLEAN
    /\ \A c \in Calls :
        /\ refresh[c].pc \in {"idle", "rotate", "ban", "device", "fill", "remember",
                              "revoke", "done"}
        /\ refresh[c].todo \subseteq {"entry", "index"}
        /\ refresh[c].under \subseteq {"banned", "signedOut", "kicked"}
        /\ refresh[c].by \in {"none", "memory", "renewal", "refused"}
        /\ refresh[c].pc = "done" => refresh[c].by # "none"
    /\ revoker.pc \in {"idle", "insert", "invalidate", "forget"} /\ ops \in 0..MaxOps
    /\ kicker \in {"idle", "invalidate", "done"}
    /\ taken \subseteq {"banned", "signedOut", "kicked"} /\ accessFaults \in 0..MaxAccessFaults

Renewed(c) == refresh[c].by \in {"memory", "renewal"}

\* What leaves a remembered answer out of the index, or in the cache, when it is dropped: a
\* door that was said to be shut and stood open is one of them.
Slips == {"underWay", "unindexed", "undropped", "unrevoked", "unlaid"}

\* A refresh that begins once a ban was laid or the account signed out gives no tokens,
\* unless a call that was past its checks remembered its answer around the revocation,
\* the answer was not indexed or not dropped, GoTrue refused the sign-out, or the ban was
\* being renewed or lifted or was refused by its table, which lay does not see (bans.ts lay,
\* session.ts invalidate: "so a revoked session is not handed back").
RevokedIsRefused ==
    \A c \in Calls :
        /\ "signedOut" \in refresh[c].under /\ refresh[c].by = "renewal" => "unrevoked" \in excuse
        /\ "signedOut" \in refresh[c].under /\ refresh[c].by = "memory"
           => excuse \intersect Slips # {}
        /\ "banned" \in refresh[c].under /\ Renewed(c)
           => excuse \intersect (Slips \union {"renewal"}) # {}

\* A refresh that begins once its device was kicked gives no new tokens, unless another
\* had read the row and was about to remember it when the kick dropped the entry, or the
\* entry was not dropped (devices.ts hardwareOf, kick).
KickedIsRefused ==
    \A c \in Calls :
        "kicked" \in refresh[c].under /\ refresh[c].by = "renewal"
        => excuse \intersect {"filling", "unkicked"} # {}
=============================================================================
