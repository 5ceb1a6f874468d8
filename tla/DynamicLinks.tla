---------------------------- MODULE DynamicLinks ---------------------------
(* The links of one declaration of dynamic_links/lib: create draws a slug     *)
(* until the table takes one, createMany writes a chunk at once and falls     *)
(* back to create, revoke removes the row and then the cached answer, and a   *)
(* resolution answers from the cache or fills it, absences included           *)
(* (core/declaration.ts, runtime/resolve.ts, runtime/valkery.ts).             *)
EXTENDS Integers, FiniteSets

CONSTANTS
    Items,         \* items a link is created for
    Slugs,         \* slugs that are drawn
    MaxDraws,      \* MAX_SLUG_ATTEMPTS
    MaxAsks,       \* bound: resolutions and revocations
    MaxLinkFaults  \* bound: calls of the table or of Redis that fail

LinkAssumption == MaxDraws \in Nat \ {0} /\ MaxAsks \in Nat /\ MaxLinkFaults \in Nat

VARIABLES
    link,        \* per slug: the item its row was written for, or "none"
    cached,      \* per slug: the cached row, "none" when an absence is cached, or "miss"
    item,        \* per item: the step of its creation, its draws, and the links written for it
    remembering, \* <<slug, item>> rows create writes to the cache in the background
    asker,       \* the resolution under way, of one slug or of many
    revoker,     \* the revocation under way
    asks,
    accepted,    \* slugs whose cached row may differ from the table for a reason the code accepts
    linkFaults

linkVars == <<link, cached, item, remembering, asker, revoker, asks, accepted, linkFaults>>

Init ==
    /\ link = [s \in Slugs |-> "none"] /\ cached = [s \in Slugs |-> "miss"]
    /\ item = [i \in Items |-> [pc |-> "idle", draws |-> 0, slug |-> "none", links |-> 0]]
    /\ remembering = {} /\ asks = 0 /\ accepted = {} /\ linkFaults = 0
    /\ asker = [pc |-> "idle", slugs |-> {}, missing |-> {}, rows |-> link]
    /\ revoker = [pc |-> "idle", slug |-> "none"]

Fault == linkFaults < MaxLinkFaults /\ linkFaults' = linkFaults + 1
May(ok) == IF ok THEN UNCHANGED linkFaults ELSE Fault
\* An absence somebody cached stays when a link takes the slug.
Written(ss) == accepted' = accepted \union {s \in ss : cached[s] = "none"}

Create(i) ==
    /\ item[i].pc = "idle" /\ item' = [item EXCEPT ![i].pc = "draw"]
    /\ UNCHANGED <<link, cached, remembering, asker, revoker, asks, accepted, linkFaults>>

CreateMany(is) ==
    /\ \A i \in Items : item[i].pc # "chunk"
    /\ is # {} /\ \A i \in is : item[i].pc = "idle"
    /\ item' = [i \in Items |-> IF i \in is THEN [item[i] EXCEPT !.pc = "chunk"] ELSE item[i]]
    /\ UNCHANGED <<link, cached, remembering, asker, revoker, asks, accepted, linkFaults>>

\* #createOne: a slug the table has is drawn again, up to a bound. A table that does not
\* answer may have written the row, and is not asked again.
Taken(i, s) ==
    /\ item[i].pc = "draw" /\ link[s] # "none"
    /\ item' = [item EXCEPT ![i].draws = @ + 1,
                            ![i].pc = IF item[i].draws + 1 = MaxDraws THEN "conflict" ELSE "draw"]
    /\ UNCHANGED <<link, cached, remembering, asker, revoker, asks, accepted, linkFaults>>

Insert(i, s) ==
    /\ item[i].pc = "draw" /\ link[s] = "none"
    /\ link' = [link EXCEPT ![s] = i] /\ Written({s})
    /\ item' = [item EXCEPT ![i] = [@ EXCEPT !.pc = "made", !.slug = s, !.links = @ + 1]]
    /\ remembering' = remembering \union {<<s, i>>}
    /\ UNCHANGED <<cached, asker, revoker, asks, linkFaults>>

Unanswered(i, s, wrote) ==
    /\ item[i].pc = "draw" /\ Fault /\ (wrote => link[s] = "none")
    /\ item' = [item EXCEPT ![i].pc = "backend", ![i].links = IF wrote THEN @ + 1 ELSE @]
    /\ link' = [link EXCEPT ![s] = IF wrote THEN i ELSE @]
    /\ Written(IF wrote THEN {s} ELSE {})
    /\ UNCHANGED <<cached, remembering, asker, revoker, asks>>

\* #createChunk: one insert for the chunk, written whole or not at all.
Chunk == {i \in Items : item[i].pc = "chunk"}
Chunked(pc, wrote) ==
    item' = [i \in Items |-> IF i \notin Chunk THEN item[i]
                             ELSE [item[i] EXCEPT !.pc = pc, !.links = @ + (IF wrote THEN 1 ELSE 0)]]
Drawn == {f \in [Chunk -> Slugs] : Chunk # {}}

InsertChunk(f, answered) ==
    /\ \A i \in Chunk : link[f[i]] = "none" /\ \A j \in Chunk : f[i] = f[j] => i = j
    /\ May(answered)
    /\ link' = [s \in Slugs |-> IF \E i \in Chunk : f[i] = s THEN CHOOSE i \in Chunk : f[i] = s ELSE link[s]]
    /\ Written({f[i] : i \in Chunk})
    /\ item' = [i \in Items |-> IF i \notin Chunk THEN item[i]
                                ELSE [item[i] EXCEPT !.pc = IF answered THEN "written" ELSE "backend",
                                                     !.slug = f[i], !.links = @ + 1]]
    /\ UNCHANGED <<cached, remembering, asker, revoker, asks>>

ChunkTaken(f) ==
    /\ \E i \in Chunk : link[f[i]] # "none" \/ \E j \in Chunk \ {i} : f[i] = f[j]
    /\ Chunked("draw", FALSE)
    /\ UNCHANGED <<link, cached, remembering, asker, revoker, asks, accepted, linkFaults>>

ChunkRefused ==
    /\ Chunk # {} /\ Fault /\ Chunked("backend", FALSE)
    /\ UNCHANGED <<link, cached, remembering, asker, revoker, asks, accepted>>

\* The chunk is read back for its rows: one that fails throws out of createMany, with the
\* links written.
ReadBack(i, ok) ==
    /\ item[i].pc = "written" /\ May(ok)
    /\ item' = [item EXCEPT ![i].pc = IF ~ok THEN "threw" ELSE IF link[item[i].slug] = i THEN "made" ELSE "backend"]
    /\ UNCHANGED <<link, cached, remembering, asker, revoker, asks, accepted>>

\* What is cached is what the table has, or the reason why it is not is written down.
Caches(s, row) ==
    /\ cached' = [cached EXCEPT ![s] = row]
    /\ accepted' = IF row = link[s] THEN accepted \ {s} ELSE accepted \union {s}

\* rememberLink, not awaited: it may be lost, or land past a revocation.
Remember(s, i, ok) ==
    /\ <<s, i>> \in remembering /\ May(ok) /\ remembering' = remembering \ {<<s, i>>}
    /\ IF ok THEN Caches(s, i) ELSE UNCHANGED <<cached, accepted>>
    /\ UNCHANGED <<link, item, asker, revoker, asks>>

Revoke(s) ==
    /\ revoker.pc = "idle" /\ asks < MaxAsks /\ asks' = asks + 1 /\ link[s] # "none"
    /\ revoker' = [pc |-> "delete", slug |-> s]
    /\ UNCHANGED <<link, cached, item, remembering, asker, accepted, linkFaults>>

\* A removal the table took and did not answer is answered as a failure, and the cached row
\* stays with no link behind it.
Delete(took, ok) ==
    /\ revoker.pc = "delete" /\ May(ok) /\ (ok => took)
    /\ link' = [link EXCEPT ![revoker.slug] = IF took THEN "none" ELSE @]
    /\ revoker' = [revoker EXCEPT !.pc = IF ok THEN "forget" ELSE "idle"]
    /\ accepted' = accepted \union {s \in {revoker.slug} : took /\ ~ok /\ cached[s] # "miss"}
    /\ UNCHANGED <<cached, item, remembering, asker, asks>>

\* Mutant of Forget: the entry stays.
ForgetNothing(ok) ==
    /\ revoker.pc = "forget" /\ May(ok) /\ revoker' = [revoker EXCEPT !.pc = "idle"]
    /\ cached' = [cached EXCEPT ![revoker.slug] = @]
    /\ accepted' = IF ok THEN accepted \ {revoker.slug} ELSE accepted \union {revoker.slug}
    /\ UNCHANGED <<link, item, remembering, asker, asks>>

Forget(ok) ==
    /\ revoker.pc = "forget" /\ May(ok) /\ revoker' = [revoker EXCEPT !.pc = "idle"]
    /\ cached' = [cached EXCEPT ![revoker.slug] = IF ok THEN "miss" ELSE @]
    /\ accepted' = IF ok THEN accepted \ {revoker.slug} ELSE accepted \union {revoker.slug}
    /\ UNCHANGED <<link, item, remembering, asker, asks>>

\* resolveLink asks for one slug, resolveMany for several; what is cached answers, the rest
\* is loaded and cached.
Resolve(ss) ==
    /\ asker.pc = "idle" /\ asks < MaxAsks /\ asks' = asks + 1 /\ ss # {}
    /\ asker' = [asker EXCEPT !.pc = "load", !.slugs = ss, !.missing = {s \in ss : cached[s] = "miss"}]
    /\ UNCHANGED <<link, cached, item, remembering, revoker, accepted, linkFaults>>

Load(ok) ==
    /\ asker.pc = "load" /\ asker.missing # {} /\ May(ok)
    /\ asker' = [asker EXCEPT !.pc = IF ok THEN "fill" ELSE "idle", !.rows = IF ok THEN link ELSE @]
    /\ UNCHANGED <<link, cached, item, remembering, revoker, asks, accepted>>

Fill(s) ==
    /\ asker.pc = "fill" /\ s \in asker.missing /\ Caches(s, asker.rows[s])
    /\ asker' = [asker EXCEPT !.missing = @ \ {s}]
    /\ UNCHANGED <<link, item, remembering, revoker, asks, linkFaults>>

Resolved ==
    /\ asker.pc \in {"load", "fill"} /\ asker.missing = {} /\ asker' = [asker EXCEPT !.pc = "idle"]
    /\ UNCHANGED <<link, cached, item, remembering, revoker, asks, accepted, linkFaults>>

Expire(s) ==
    /\ cached[s] # "miss" /\ cached' = [cached EXCEPT ![s] = "miss"] /\ accepted' = accepted \ {s}
    /\ UNCHANGED <<link, item, remembering, asker, revoker, asks, linkFaults>>

Next ==
    \/ \E i \in Items :
        \/ Create(i)
        \/ \E s \in Slugs : Taken(i, s) \/ Insert(i, s) \/ \E b \in BOOLEAN : Unanswered(i, s, b) \/ Remember(s, i, b)
        \/ \E ok \in BOOLEAN : ReadBack(i, ok)
    \/ \E is \in SUBSET Items : CreateMany(is)
    \/ \E f \in Drawn : ChunkTaken(f) \/ \E answered \in BOOLEAN : InsertChunk(f, answered)
    \/ ChunkRefused
    \/ \E s \in Slugs : Revoke(s) \/ Fill(s) \/ Expire(s)
    \/ \E ss \in SUBSET Slugs : Resolve(ss)
    \/ (\E ok \in BOOLEAN : Forget(ok) \/ Load(ok) \/ \E took \in BOOLEAN : Delete(took, ok)) \/ Resolved

Spec == Init /\ [][Next]_linkVars

-----------------------------------------------------------------------------
Rows == Items \union {"none"}
TypeOK ==
    /\ link \in [Slugs -> Rows] /\ cached \in [Slugs -> Rows \union {"miss"}]
    /\ \A i \in Items :
        /\ item[i].pc \in {"idle", "draw", "chunk", "written", "made", "conflict", "backend", "threw"}
        /\ item[i].draws \in 0..MaxDraws /\ item[i].links \in Nat
        /\ item[i].slug \in Slugs \union {"none"}
    /\ remembering \subseteq Slugs \X Items /\ accepted \subseteq Slugs
    /\ asker.pc \in {"idle", "load", "fill"} /\ asker.missing \subseteq asker.slugs
    /\ revoker.pc \in {"idle", "delete", "forget"} /\ asks \in 0..MaxAsks /\ linkFaults \in 0..MaxLinkFaults

\* What a resolution would answer from the cache is what the table has. Exceptions, until the
\* entry expires: a removal whose entry is still to be dropped, or could not be; a removal the
\* table took and did not answer, after which nobody drops the entry; an entry put back by a
\* load, or by the remembering of create, that a removal overtook; an absence that was cached
\* before a link took the slug, which only create's remembering corrects
\* (core/declaration.ts, runtime/valkery.ts).
StaleForAReason ==
    \A s \in Slugs : cached[s] \in {"miss", link[s]}
        \/ s \in accepted \/ (revoker.pc = "forget" /\ revoker.slug = s)

\* An item leaves one link at most, whatever was drawn, refused or left unanswered, in a
\* chunk and past it, and none when the answer is that every slug was taken
\* (core/declaration.ts #createOne, #createChunk).
OneLinkPerItem ==
    \A i \in Items :
        /\ item[i].links <= 1 /\ (item[i].pc = "conflict" => item[i].links = 0)
        /\ item[i].pc = "made" => item[i].links = 1
=============================================================================
