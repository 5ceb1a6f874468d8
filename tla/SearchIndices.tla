--------------------------- MODULE SearchIndices ---------------------------
(* The boot of search/lib: each process makes the cluster hold the index it   *)
(* declares, says in a row what the cluster was told, and lists the tables    *)
(* that feed it (db/indices.ts, transport/opensearch.ts). Deployments that    *)
(* declare the index otherwise may boot at the same time. An analysis is the  *)
(* sequence of its filters, a mapping the type of each field.                 *)
EXTENDS Integers, Sequences, SequencesExt

CONSTANTS
    Processes,
    ConfigOf,        \* [Processes -> [settings, fields, sources]]
    MaxBoots,        \* bound: boots
    MaxIndexFaults   \* bound: calls that fail and processes that die

SearchIndicesAssumption == {MaxBoots, MaxIndexFaults} \subseteq Nat

VARIABLES
    held,          \* the index: [there, open, settings, fields]
    told,          \* its row of __search_indices__: digests of settings and fields, or NoRow
    sources,       \* its rows of __search_sources__
    sync,          \* per process: the step it is at and what it read
    boots, indexFaults,
    partly,        \* whether a boot ended between the first thing the cluster took and its row
    leftClosed,    \* whether an open was refused, the answer of a close was lost, or the process
                   \* that was to open died
    overlapped,    \* whether two boots overlapped
    unlisted,      \* whether the table refused or a boot died before its sources were listed
    lastListed     \* the last process whose sources were listed

indexVars == <<held, told, sources, sync, boots, indexFaults, partly, leftClosed, overlapped,
               unlisted, lastListed>>

\* A digest: lists of scalars are sorted before they are hashed.
Digest(settings) == SortSeq(settings, <)
\* Mutant of DigestOf: only the fields are compared.
DigestOfTheFields(p) == [settings |-> <<>>, fields |-> ConfigOf[p].fields]
DigestOf(p) == [settings |-> Digest(ConfigOf[p].settings), fields |-> ConfigOf[p].fields]

NoRow == [settings |-> <<0>>, fields |-> <<>>]
NoIndex == [there |-> FALSE, open |-> FALSE, settings |-> <<>>, fields |-> <<>>]
Idle == [pc |-> "out", found |-> NoRow, listed |-> {}, wrote |-> FALSE]

Init ==
    /\ held = NoIndex /\ told = NoRow /\ sources = {}
    /\ sync = [p \in Processes |-> Idle] /\ boots = 0 /\ indexFaults = 0
    /\ partly = FALSE /\ leftClosed = FALSE /\ overlapped = FALSE /\ unlisted = FALSE
    /\ lastListed = "none"

May(ok) == IF ok THEN UNCHANGED indexFaults
           ELSE indexFaults < MaxIndexFaults /\ indexFaults' = indexFaults + 1
At(p, pc) == sync[p].pc = pc
Go(p, pc) == sync' = [sync EXCEPT ![p].pc = pc]
Cluster == UNCHANGED <<told, sources, boots, overlapped, unlisted, lastListed>>

Boot(p) ==
    /\ At(p, "out") /\ boots < MaxBoots /\ boots' = boots + 1
    /\ Go(p, "read")
    /\ overlapped' = (overlapped \/ \E q \in Processes : ~At(q, "out"))
    /\ UNCHANGED <<held, told, sources, indexFaults, partly, leftClosed, unlisted, lastListed>>

\* A read that raises ends the boot.
Read(p, ok) ==
    /\ At(p, "read") /\ May(ok)
    /\ sync' = [sync EXCEPT ![p] =
                  IF ~ok THEN Idle
                  ELSE [Idle EXCEPT !.found = told, !.pc = IF told = DigestOf(p) THEN "list" ELSE "exists"]]
    /\ unlisted' = (unlisted \/ ~ok)
    /\ UNCHANGED <<held, told, sources, boots, partly, leftClosed, overlapped, lastListed>>

\* Mutant of Refused: the row says what the cluster was asked for.
RefusedAndRecorded(p, took) == sync' = [sync EXCEPT ![p].pc = "record"] /\ UNCHANGED partly

\* A cluster that refused, or whose answer was lost, is left recorded as it was, whatever it
\* took before, or of the call itself (took).
Refused(p, took) ==
    sync' = [sync EXCEPT ![p].pc = "list"] /\ partly' = (partly \/ sync[p].wrote \/ took)

Exists(p, ok) ==
    /\ At(p, "exists") /\ May(ok)
    /\ IF ok THEN Go(p, IF held.there THEN "close" ELSE "create") /\ UNCHANGED partly
             ELSE Refused(p, FALSE)
    /\ Cluster /\ UNCHANGED <<held, leftClosed>>

\* Of each call that writes to the cluster: whether it was taken, and whether that was heard.
\* An index another process created meanwhile is refused.
Create(p, took, ok) ==
    LET made == took /\ ~held.there IN
    /\ At(p, "create") /\ (ok => took) /\ May(ok)
    /\ held' = IF made THEN [there |-> TRUE, open |-> TRUE, settings |-> ConfigOf[p].settings,
                             fields |-> ConfigOf[p].fields] ELSE held
    /\ IF made /\ ok THEN sync' = [sync EXCEPT ![p].pc = "record", ![p].wrote = TRUE] /\ UNCHANGED partly
       ELSE Refused(p, made)
    /\ Cluster /\ UNCHANGED leftClosed

\* Every declaration has an analysis, so every index that differs is closed. The close is outside
\* the try that opens: an index closed without an answer is left so.
Close(p, took, ok) ==
    /\ At(p, "close") /\ (ok => took) /\ May(ok)
    /\ held' = IF took THEN [held EXCEPT !.open = FALSE] ELSE held
    /\ leftClosed' = (leftClosed \/ (took /\ ~ok))
    /\ IF ok THEN Go(p, "put") /\ UNCHANGED partly ELSE Refused(p, FALSE)
    /\ Cluster

\* Mutant of Put: a refusal leaves the index closed.
PutOrLeave(p, took, ok) ==
    LET takes == took /\ ~held.open IN
    /\ At(p, "put") /\ (ok => took) /\ May(ok)
    /\ held' = IF takes THEN [held EXCEPT !.settings = ConfigOf[p].settings] ELSE held
    /\ sync' = [sync EXCEPT ![p].pc = IF takes /\ ok THEN "open" ELSE "list", ![p].wrote = @ \/ (takes /\ ok)]
    /\ partly' = (partly \/ (takes /\ ~ok))
    /\ Cluster /\ UNCHANGED leftClosed

\* The analysis is refused by an index that another process opened; either way it is opened.
Put(p, took, ok) ==
    LET takes == took /\ ~held.open IN
    /\ At(p, "put") /\ (ok => took) /\ May(ok)
    /\ held' = IF takes THEN [held EXCEPT !.settings = ConfigOf[p].settings] ELSE held
    /\ sync' = [sync EXCEPT ![p].pc = IF takes /\ ok THEN "open" ELSE "reopen", ![p].wrote = @ \/ (takes /\ ok)]
    /\ partly' = (partly \/ (takes /\ ~ok))
    /\ Cluster /\ UNCHANGED leftClosed

Open(p, took, ok) ==
    /\ sync[p].pc \in {"open", "reopen"} /\ (ok => took) /\ May(ok)
    /\ held' = [held EXCEPT !.open = @ \/ took]
    /\ leftClosed' = (leftClosed \/ ~took)
    /\ IF ok /\ At(p, "open") THEN Go(p, "map") /\ UNCHANGED partly ELSE Refused(p, FALSE)
    /\ Cluster

\* A mapping is added to; a field it retypes refuses the whole.
Map(p, took, ok) ==
    LET wanted == ConfigOf[p].fields
        both == DOMAIN wanted \cap DOMAIN held.fields
        takes == took /\ \A f \in both : wanted[f] = held.fields[f] IN
    /\ At(p, "map") /\ (ok => took) /\ May(ok)
    /\ held' = IF takes THEN [held EXCEPT !.fields = [f \in DOMAIN wanted \cup DOMAIN @ |->
                                              IF f \in DOMAIN wanted THEN wanted[f] ELSE @[f]]]
               ELSE held
    /\ IF takes /\ ok THEN Go(p, "record") /\ UNCHANGED partly ELSE Refused(p, takes)
    /\ Cluster /\ UNCHANGED leftClosed

\* An insert when no row was found, which conflicts with one written meanwhile, or an
\* update; what the table answers is not looked at.
Record(p, ok) ==
    LET lands == ok /\ (sync[p].found = NoRow => told = NoRow) IN
    /\ At(p, "record") /\ May(ok)
    /\ told' = IF lands THEN DigestOf(p) ELSE told
    /\ partly' = (partly \/ ~lands)
    /\ sync' = [sync EXCEPT ![p].pc = "list", ![p].wrote = FALSE]
    /\ UNCHANGED <<held, sources, boots, leftClosed, overlapped, unlisted, lastListed>>

-----------------------------------------------------------------------------
(* The tables that feed the index.                                         *)

Table == UNCHANGED <<held, told, boots, partly, leftClosed, overlapped>>

ListSources(p, ok) ==
    /\ At(p, "list") /\ May(ok)
    /\ sync' = [sync EXCEPT ![p] = IF ok THEN [Idle EXCEPT !.pc = "add", !.listed = sources] ELSE Idle]
    /\ unlisted' = (unlisted \/ ~ok)
    /\ UNCHANGED <<sources, lastListed>> /\ Table

\* One insert of what was missing, which fails whole on a pair another process added.
AddSources(p, ok) ==
    LET added == ConfigOf[p].sources \ sync[p].listed
        lands == ok /\ added \cap sources = {} IN
    /\ At(p, "add") /\ May(ok)
    /\ sources' = IF lands THEN sources \cup added ELSE sources
    /\ unlisted' = (unlisted \/ ~lands)
    /\ sync' = [sync EXCEPT ![p].pc = "drop", ![p].listed = @ \ ConfigOf[p].sources]
    /\ UNCHANGED lastListed /\ Table

\* Mutant of DropSource: what is no longer read stays listed.
DropNoSource(p, s, ok) ==
    /\ At(p, "drop") /\ s \in sync[p].listed /\ May(ok)
    /\ sync' = [sync EXCEPT ![p].listed = @ \ {s}]
    /\ UNCHANGED <<sources, unlisted, lastListed>> /\ Table

DropSource(p, s, ok) ==
    /\ At(p, "drop") /\ s \in sync[p].listed /\ May(ok)
    /\ sources' = IF ok THEN sources \ {s} ELSE sources
    /\ unlisted' = (unlisted \/ ~ok)
    /\ sync' = [sync EXCEPT ![p].listed = @ \ {s}]
    /\ UNCHANGED lastListed /\ Table

Listed(p) ==
    /\ At(p, "drop") /\ sync[p].listed = {} /\ lastListed' = p
    /\ sync' = [sync EXCEPT ![p] = Idle]
    /\ UNCHANGED <<sources, unlisted, indexFaults>> /\ Table

Die(p) ==
    /\ ~At(p, "out") /\ May(FALSE)
    /\ sync' = [sync EXCEPT ![p] = Idle]
    /\ partly' = (partly \/ sync[p].wrote \/ At(p, "record"))
    /\ leftClosed' = (leftClosed \/ sync[p].pc \in {"put", "open", "reopen"})
    /\ unlisted' = TRUE
    /\ UNCHANGED <<held, told, sources, boots, overlapped, lastListed>>

Step(p) ==
    \/ Boot(p) \/ Listed(p) \/ Die(p)
    \/ \E ok \in BOOLEAN :
         \/ Read(p, ok) \/ Exists(p, ok) \/ Record(p, ok) \/ ListSources(p, ok) \/ AddSources(p, ok)
         \/ \E took \in BOOLEAN : \/ Create(p, took, ok) \/ Close(p, took, ok) \/ Put(p, took, ok)
                                  \/ Open(p, took, ok) \/ Map(p, took, ok)
         \/ \E s \in sync[p].listed : DropSource(p, s, ok)

Next == \E p \in Processes : Step(p)

Spec == Init /\ [][Next]_indexVars

-----------------------------------------------------------------------------
TypeOK ==
    /\ held.open => held.there
    /\ told \in {NoRow} \cup {DigestOf(p) : p \in Processes}
    /\ sources \subseteq UNION {ConfigOf[p].sources : p \in Processes}
    /\ \A p \in Processes : sync[p].listed # {} => sync[p].pc \in {"add", "drop"}
    /\ {partly, leftClosed, overlapped, unlisted} \subseteq BOOLEAN
    /\ lastListed \in Processes \cup {"none"} /\ boots \in 0..MaxBoots /\ indexFaults \in 0..MaxIndexFaults

AtRest == \A p \in Processes : At(p, "out")

(* The row says what the cluster holds, unless boots overlapped or one ended  *)
(* between the first thing the cluster took, heard of or not, and the row.    *)
RowTellsTheCluster ==
    (AtRest /\ told # NoRow /\ ~partly /\ ~overlapped) =>
        /\ held.there /\ Digest(held.settings) = told.settings
        /\ \A f \in DOMAIN told.fields : f \in DOMAIN held.fields /\ held.fields[f] = told.fields[f]

(* An index that was closed is opened again, but for an open the cluster      *)
(* refused, a close whose answer was lost and a process that died; boots that *)
(* overlap leave none closed.                                                 *)
OpenedAgain == AtRest /\ held.there /\ ~leftClosed => held.open

(* The tables listed are those the process that listed last declares, unless  *)
(* boots overlapped or a write was lost.                                      *)
SourcesAsDeclared ==
    (AtRest /\ lastListed # "none" /\ ~overlapped /\ ~unlisted) =>
        sources = ConfigOf[lastListed].sources

-----------------------------------------------------------------------------
(* What the steps preserve.                                                *)

Steps == {"out", "read", "exists", "create", "close", "put", "open", "reopen", "map", "record",
          "list", "add", "drop"}

Tables == UNION {ConfigOf[p].sources : p \in Processes}
Rows == {NoRow} \cup {DigestOf(p) : p \in Processes}
Syncs == [pc : Steps, found : Rows, listed : SUBSET Tables, wrote : BOOLEAN]

\* Past asking for it, and creating it, a boot is about an index that is there.
Typed ==
    /\ DOMAIN held = {"there", "open", "settings", "fields"}
    /\ sync \in [Processes -> Syncs]
    /\ \A p \in Processes :
          sync[p].pc \in {"close", "put", "open", "reopen", "map", "record"} => held.there

\* Boots that did not overlap are one at a time.
OneBoot == ~overlapped => \A p, q \in Processes : p # q => At(p, "out") \/ At(q, "out")

\* The fields of a row are among those of the index.
Covers(row) == \A f \in DOMAIN row.fields : f \in DOMAIN held.fields /\ held.fields[f] = row.fields[f]

\* What a boot writes of the analysis is its own, and of the fields all when it comes to the row;
\* the row tells the rest.
Writing ==
    ~partly /\ ~overlapped =>
        /\ told # NoRow => held.there /\ Covers(told)
        /\ \A p \in Processes : sync[p].wrote <=> sync[p].pc \in {"open", "map", "record"}
        /\ \A p \in Processes : sync[p].wrote =>
              held.settings = ConfigOf[p].settings /\ (At(p, "record") => Covers(DigestOf(p)))
        /\ (\A p \in Processes : ~sync[p].wrote) /\ told # NoRow =>
              Digest(held.settings) = told.settings

\* Who closed the index is about to open it.
Closed ==
    held.there /\ ~held.open /\ ~leftClosed => \E p \in Processes : sync[p].pc \in {"put", "open", "reopen"}

\* What a boot adds to and drops from is what was listed when it looked.
Listing ==
    ~overlapped /\ ~unlisted =>
        /\ \A p \in Processes : At(p, "add") => sync[p].listed = sources
        /\ \A p \in Processes : At(p, "drop") =>
              /\ sources = ConfigOf[p].sources \cup sync[p].listed
              /\ sync[p].listed \cap ConfigOf[p].sources = {}
        /\ (lastListed # "none" /\ \A p \in Processes : ~At(p, "drop")) =>
              sources = ConfigOf[lastListed].sources

IInv == TypeOK /\ Typed /\ OneBoot /\ Writing /\ Closed /\ Listing
=============================================================================
