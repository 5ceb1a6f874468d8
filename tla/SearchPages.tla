---------------------------- MODULE SearchPages ----------------------------
(* What one index of search/lib keeps of its answers: pages by the plan that  *)
(* was asked for, previews by document. A search takes both from the cache or *)
(* makes them of the cluster and of the table; the drain of the outbox writes *)
(* the cluster and drops what it made stale (core/search_index.ts,            *)
(* core/valkery.ts, core/valkery_key.ts, transport/opensearch.ts). What the   *)
(* line of the outbox goes through is SearchOutbox, and how the calls of a    *)
(* fleet share one computation ValkeryFlight. A row is where its document is, *)
(* a plan where to look.                                                      *)
EXTENDS Integers, Sequences, SequencesExt

CONSTANTS
    Documents,       \* 1..n, in the order the cluster ranks them
    Searchers,       \* what answers one search after another
    Plans,           \* the places a search looks at; <<>> is everywhere
    From,            \* how many hits a search skips
    PageSize,
    MaxMoves,        \* bound: changes of the table
    MaxSearchFaults  \* bound: calls of the cluster, the table or Redis that fail

SearchPagesAssumption ==
    /\ {PageSize, MaxMoves, MaxSearchFaults} \subseteq Nat /\ Documents \subseteq Nat
    /\ From \subseteq Nat /\ \A p \in Plans : p \in Seq(Nat)

Gone == <<0>>
Miss == <<1>>
Places == Plans \ {<<>>}
Requests == [near : Plans, from : From]

VARIABLES
    place,         \* the row of each document, or Gone
    queued,        \* the operation each waits for in the outbox, or "none"
    index,         \* the documents the cluster was written
    shown,         \* those its searches see
    pages,         \* what the cache keeps under a key: [items, of, excused], or Miss
    previews,      \* what it keeps of a document, or Miss
    search,        \* the call each searcher is at
    drain,         \* the drain
    overlooked,    \* documents whose last request a drain took for the one before
    stale,         \* documents whose preview was kept or left though it was not their row
    moves, searchFaults

searchPagesVars == <<place, queued, index, shown, pages, previews, search, drain, overlooked, stale,
                     moves, searchFaults>>
tableVars == <<place, queued, overlooked, moves>>

\* stableKey: lists of scalars that hold the same are the same, in whichever order, so
\* that two plans may share a page; `of` is the one that made it.
KeyOf(r) == <<SortSeq(r.near, <), r.from>>
Keys == {KeyOf(r) : r \in Requests}

NoRequest == [near |-> Gone, from |-> 0]
NoPage == [items |-> <<>>, of |-> NoRequest, excused |-> FALSE]
NoSearch == [pc |-> "out", of |-> NoRequest, hits |-> <<>>,
             got |-> [d \in Documents |-> Miss], owed |-> {}, excused |-> FALSE]
NoDrain == [pc |-> "idle", erase |-> {}, rebuild |-> {}, read |-> [d \in Documents |-> Gone],
            handled |-> {}, just |-> {}, owed |-> {}, again |-> {}]

Init ==
    /\ place = [d \in Documents |-> Gone] /\ queued = [d \in Documents |-> "none"]
    /\ index = place /\ shown = place
    /\ pages = [k \in Keys |-> NoPage] /\ previews = [d \in Documents |-> Miss]
    /\ search = [s \in Searchers |-> NoSearch] /\ drain = NoDrain
    /\ overlooked = {} /\ stale = {} /\ moves = 0 /\ searchFaults = 0

May(ok) == IF ok THEN UNCHANGED searchFaults
           ELSE searchFaults < MaxSearchFaults /\ searchFaults' = searchFaults + 1

-----------------------------------------------------------------------------
(* The project and its table.                                              *)

\* The trigger of the table queues what it changed, in the transaction of the change.
Write(d, to) ==
    /\ moves < MaxMoves /\ moves' = moves + 1
    /\ to # place[d] /\ place' = [place EXCEPT ![d] = to]
    /\ queued' = [queued EXCEPT ![d] = IF to = Gone THEN "delete" ELSE "index"]
    /\ drain' = IF d \in drain.erase \cup drain.rebuild THEN [drain EXCEPT !.again = @ \cup {d}]
                ELSE drain
    /\ UNCHANGED <<overlooked, index, shown, pages, previews, search, stale, searchFaults>>

-----------------------------------------------------------------------------
(* A search.                                                               *)

On(s, with) == search' = [search EXCEPT ![s] = with]
Quiet == UNCHANGED <<tableVars, index, shown, drain>>

\* A kept page is the answer, and may be made anew ahead of its end; a failed read is a miss.
Search(s, r, ok, early) ==
    LET kept == pages[KeyOf(r)] IN
    /\ search[s].pc = "out" /\ May(ok) /\ (early => ok /\ kept # NoPage)
    /\ IF ok /\ kept # NoPage
         THEN On(s, IF early THEN [NoSearch EXCEPT !.of = r, !.pc = "ask"] ELSE NoSearch)
         ELSE On(s, [NoSearch EXCEPT !.of = r, !.pc = "ask"])
    /\ UNCHANGED <<pages, previews, stale>> /\ Quiet

Found(at, plan) == SelectSeq(SetToSortSeq(Documents, <),
                             LAMBDA d : at[d] # Gone /\ plan \in {<<>>, at[d]})
\* One more than the page holds is asked for.
HitsOf(at, r) == LET all == Found(at, r.near) IN
    SubSeq(all, r.from + 1, IF Len(all) < r.from + PageSize + 1 THEN Len(all)
                            ELSE r.from + PageSize + 1)

\* The failure is thrown out of the computation, so nothing is kept of it.
Failed(s) == On(s, NoSearch)

\* Mutant of AskTheCluster: a cluster that does not answer has found nothing.
AskTheClusterOrNothing(s, ok) ==
    LET hits == IF ok THEN HitsOf(shown, search[s].of) ELSE <<>> IN
    /\ search[s].pc = "ask" /\ May(ok)
    /\ On(s, [search[s] EXCEPT !.pc = IF hits = <<>> THEN "store" ELSE "look",
                               !.hits = hits, !.excused = shown # index])
    /\ UNCHANGED <<pages, previews, stale>> /\ Quiet

AskTheCluster(s, ok) ==
    LET hits == HitsOf(shown, search[s].of) IN
    /\ search[s].pc = "ask" /\ May(ok)
    /\ IF ok THEN On(s, [search[s] EXCEPT !.pc = IF hits = <<>> THEN "store" ELSE "look",
                                          !.hits = hits, !.excused = shown # index])
       ELSE Failed(s)
    /\ UNCHANGED <<pages, previews, stale>> /\ Quiet

\* Previews still there when the pages are dropped already.
Leaving == IF drain.owed = {"previews"} THEN drain.just ELSE {}

\* One mget for every hit; a failed one is a miss of each.
Look(s, ok) ==
    LET hits == ToSet(search[s].hits)
        got == [d \in Documents |-> IF ok /\ d \in hits THEN previews[d] ELSE Miss] IN
    /\ search[s].pc = "look" /\ May(ok)
    /\ On(s, [search[s] EXCEPT !.got = got,
                               !.pc = IF \E d \in hits : got[d] = Miss THEN "read" ELSE "store",
                               !.excused = @ \/ \E d \in hits \cap (stale \cup Leaving) : got[d] # Miss])
    /\ UNCHANGED <<pages, previews, stale>> /\ Quiet

\* The rows of the others in one read; a row that is gone is left out.
ReadRows(s, ok) ==
    LET missing == {d \in ToSet(search[s].hits) : search[s].got[d] = Miss}
        there == {d \in missing : place[d] # Gone} IN
    /\ search[s].pc = "read" /\ May(ok)
    /\ IF ok THEN On(s, [search[s] EXCEPT !.owed = there, !.pc = IF there = {} THEN "store" ELSE "keep",
                           !.got = [d \in Documents |-> IF d \in there THEN place[d] ELSE @[d]]])
       ELSE Failed(s)
    /\ UNCHANGED <<pages, previews, stale>> /\ Quiet

Keep(s, d, ok) ==
    /\ search[s].pc = "keep" /\ d \in search[s].owed /\ May(ok)
    /\ previews' = IF ok THEN [previews EXCEPT ![d] = search[s].got[d]] ELSE previews
    /\ stale' = IF ~ok THEN stale
                ELSE IF search[s].got[d] # place[d] THEN stale \cup {d} ELSE stale \ {d}
    /\ On(s, [search[s] EXCEPT !.owed = @ \ {d}, !.pc = IF search[s].owed = {d} THEN "store" ELSE @])
    /\ UNCHANGED pages /\ Quiet

\* The page, in the order of the hits and without those that have no row.
ItemsOf(hits, got) ==
    LET shownOf == SelectSeq(hits, LAMBDA d : got[d] \notin {Miss, Gone})
        held == SubSeq(shownOf, 1, IF Len(shownOf) < PageSize THEN Len(shownOf) ELSE PageSize)
    IN [i \in DOMAIN held |-> <<held[i], got[held[i]]>>]

Store(s, ok) ==
    LET r == search[s].of IN
    /\ search[s].pc = "store" /\ May(ok)
    /\ pages' = IF ok THEN [pages EXCEPT ![KeyOf(r)] =
                              [items |-> ItemsOf(search[s].hits, search[s].got), of |-> r,
                               excused |-> search[s].excused]]
                ELSE pages
    /\ On(s, NoSearch)
    /\ UNCHANGED <<previews, stale>> /\ Quiet

-----------------------------------------------------------------------------
(* The drain and the cluster.                                              *)

Draining(with) == drain' = with
Still == UNCHANGED <<place, queued, overlooked, moves, search>>

Claim ==
    LET of(op) == {d \in Documents : queued[d] = op} IN
    /\ drain.pc = "idle" /\ of("delete") \cup of("index") # {}
    /\ Draining([NoDrain EXCEPT !.pc = "erase", !.erase = of("delete"), !.rebuild = of("index")])
    /\ Still /\ UNCHANGED <<index, shown, pages, previews, stale, searchFaults>>

\* A bulk call is answered line by line; or it is applied and its answer lost.
Bulk(ds, to, applied, ok, next(_)) ==
    LET answered == IF ok THEN applied ELSE {} IN
    /\ applied \subseteq ds /\ May(ok /\ applied = ds)
    /\ index' = [d \in Documents |-> IF d \in applied THEN to[d] ELSE index[d]]
    /\ Draining(next(answered))

\* What was answered is to be dropped from the cache before what follows.
Dropping(answered, then) ==
    [drain EXCEPT !.pc = then, !.just = answered, !.handled = @ \cup answered,
                  !.owed = IF answered = {} THEN {} ELSE {"previews", "pages"}]

\* Mutant of Erase: only what the drain builds makes the cache stale.
EraseQuietly(applied, ok) ==
    /\ drain.pc = "erase"
    /\ Bulk(drain.erase, [d \in Documents |-> Gone], applied, ok,
            LAMBDA a : [drain EXCEPT !.pc = "read", !.handled = @ \cup a])
    /\ Still /\ UNCHANGED <<shown, pages, previews, stale>>

Erase(applied, ok) ==
    /\ drain.pc = "erase"
    /\ Bulk(drain.erase, [d \in Documents |-> Gone], applied, ok, LAMBDA a : Dropping(a, "read"))
    /\ Still /\ UNCHANGED <<shown, pages, previews, stale>>

\* The rows as they are now; a read that raises ends the drain.
Read(ok) ==
    /\ drain.pc = "read" /\ drain.owed = {} /\ May(ok)
    /\ Draining(IF ok THEN [drain EXCEPT !.pc = "index", !.read = place, !.just = {}] ELSE NoDrain)
    /\ Still /\ UNCHANGED <<index, shown, pages, previews, stale>>

Index(applied, ok) ==
    /\ drain.pc = "index"
    /\ Bulk({d \in drain.rebuild : drain.read[d] # Gone}, drain.read, applied, ok,
            LAMBDA a : [drain EXCEPT !.pc = "remove", !.just = a])
    /\ Still /\ UNCHANGED <<shown, pages, previews, stale>>

\* What has no row any more is taken out, and both answers are dropped together.
TakeOut(applied, ok) ==
    /\ drain.pc = "remove"
    /\ Bulk({d \in drain.rebuild : drain.read[d] = Gone}, [d \in Documents |-> Gone], applied, ok,
            LAMBDA a : [Dropping(drain.just \cup a, "settle") EXCEPT !.read = NoDrain.read])
    /\ Still /\ UNCHANGED <<shown, pages, previews, stale>>

Dropped(part) == [drain EXCEPT !.owed = @ \ {part}, !.just = IF drain.owed = {part} THEN {} ELSE @]

DropPreviews(ok) ==
    /\ "previews" \in drain.owed /\ May(ok)
    /\ previews' = [d \in Documents |-> IF ok /\ d \in drain.just THEN Miss ELSE previews[d]]
    /\ stale' = IF ok THEN stale \ drain.just ELSE stale \cup drain.just
    /\ Draining(Dropped("previews"))
    /\ Still /\ UNCHANGED <<index, shown, pages>>

\* A search on its way keeps what it makes when the pages are gone.
DropPages(ok) ==
    /\ "pages" \in drain.owed /\ May(ok)
    /\ pages' = [k \in Keys |-> IF ok \/ pages[k] = NoPage THEN NoPage
                                ELSE [pages[k] EXCEPT !.excused = TRUE]]
    /\ search' = [s \in Searchers |-> [search[s] EXCEPT !.excused = search[s].pc # "out"]]
    /\ Draining(Dropped("pages"))
    /\ UNCHANGED <<tableVars, index, shown, previews, stale>>

\* What was taken leaves the line by its name, what was asked meanwhile with it.
Settle(ok) ==
    /\ drain.pc = "settle" /\ drain.owed = {} /\ May(ok)
    /\ queued' = [d \in Documents |-> IF ok /\ d \in drain.handled THEN "none" ELSE queued[d]]
    /\ overlooked' = IF ok THEN (overlooked \ drain.handled) \cup (drain.handled \cap drain.again)
                     ELSE overlooked
    /\ Draining(NoDrain)
    /\ UNCHANGED <<place, moves, index, shown, pages, previews, search, stale>>

\* The cluster shows what it was written a while after.
Refresh ==
    /\ shown # index /\ shown' = index
    /\ UNCHANGED <<tableVars, index, pages, previews, search, drain, stale, searchFaults>>

Expire(k) ==
    /\ pages[k] # NoPage /\ pages' = [pages EXCEPT ![k] = NoPage]
    /\ UNCHANGED <<tableVars, index, shown, previews, search, drain, stale, searchFaults>>

Searching(s) ==
    \/ \E r \in Requests, ok, early \in BOOLEAN : Search(s, r, ok, early)
    \/ \E ok \in BOOLEAN : AskTheCluster(s, ok) \/ Look(s, ok) \/ ReadRows(s, ok) \/ Store(s, ok)
    \/ \E d \in Documents, ok \in BOOLEAN : Keep(s, d, ok)

Drains ==
    \/ Claim
    \/ \E applied \in SUBSET Documents, ok \in BOOLEAN :
          Erase(applied, ok) \/ Index(applied, ok) \/ TakeOut(applied, ok)
    \/ \E ok \in BOOLEAN : Read(ok) \/ DropPreviews(ok) \/ DropPages(ok) \/ Settle(ok)

Next ==
    \/ \E d \in Documents, to \in Places \cup {Gone} : Write(d, to)
    \/ \E s \in Searchers : Searching(s)
    \/ Drains \/ Refresh \/ \E k \in Keys : Expire(k)

Spec == Init /\ [][Next]_searchPagesVars

-----------------------------------------------------------------------------
TypeOK ==
    /\ place \in [Documents -> Places \cup {Gone}]
    /\ queued \in [Documents -> {"none", "index", "delete"}]
    /\ {index, shown} \subseteq [Documents -> Places \cup {Gone}]
    /\ previews \in [Documents -> Places \cup {Miss}]
    /\ \A k \in Keys : Len(pages[k].items) <= PageSize
    /\ \A s \in Searchers : search[s].owed \subseteq ToSet(search[s].hits)
    /\ drain.just \subseteq drain.handled \cup drain.rebuild /\ drain.owed \subseteq {"previews", "pages"}
    /\ overlooked \cup stale \subseteq Documents
    /\ moves \in 0..MaxMoves /\ searchFaults \in 0..MaxSearchFaults

Waiting(d) == queued[d] # "none" \/ d \in drain.erase \cup drain.rebuild

(* A preview that is kept is the row, once the outbox is through with the     *)
(* document: but for one read before and kept after its change was dropped,   *)
(* a drop that failed, and a change the drain took for the one before.        *)
PreviewsTellTheRow ==
    \A d \in Documents \ (stale \cup overlooked) :
        ~Waiting(d) => previews[d] \in {Miss, place[d]}

(* A page that is kept lists what the cluster was written, once the outbox is *)
(* empty: but for one asked before the cluster showed it, one on its way when *)
(* the pages were dropped, and a drop that failed. No outage is kept.         *)
PagesTellTheCluster ==
    (overlooked = {} /\ \A d \in Documents : ~Waiting(d)) =>
        \A k \in Keys : LET page == pages[k] IN
            page # NoPage /\ ~page.excused =>
                page.items = ItemsOf(HitsOf(index, page.of), place)
=============================================================================
