----------------------------- MODULE MCServices ------------------------------
(* The services that share no state with one another. A behaviour is one of   *)
(* one of them, chosen in its first state: since no two ever run, they take   *)
(* the same variables, a name that two of them have the same one, and a state *)
(* is as small as that of one. Those that are proved have constants of their  *)
(* own, and are instantiated by the modules that prove them; of the others    *)
(* there are small instances here.                                            *)
EXTENDS Integers, Sequences, FiniteSets, TLC

CONSTANTS
    c1, c2,
    Which,           \* the services a run is of
    Skew,            \* how far ahead the clock of a replica that schedules is
    \* StorageFiles
    StoredPaths, FolderPaths, StorageCalls, ClearedPage, MaxPages, MaxStorageFaults,
    \* OneTimeCodes
    CodeCalls, CodeKind, CodeTokens, Attempts, MaxCodeFaults,
    \* RateLimiter
    HitLimit, FirstBlock, LongestBlock, StrikesAsked, OpenOnOutage, RateHorizon,
    \* CronSlots
    CronJobs, Strikes, TimeLimit, CronReplicas, CronAhead, GateWidth, MaxCronFaults,
    CronHorizon,
    \* CronSchedules
    ClockHosts, HostAhead, Declarations, UnitsOfMinute, MinutesOfDay, ZoneChanges,
    ScheduleHorizon,
    \* RealtimeCatchUp
    CatchUpEntities, CatchUpWriters, CatchUpLag, CatchUpRetention, CatchUpHorizon,
    CatchUpEvents, CatchUpCalls,
    \* RealtimeChannels
    GrantAccounts, GrantProcesses, GrantListen, GrantRequests, GrantPageSize, MaxGrantBegun,
    MaxGrantFaults,
    \* SignIns
    SignInCalls, GuessLimit, DeviceTokens, MaxAttempts, MaxSignInFaults,
    \* PasswordReset
    Confirms, Completes, MaxSends, MaxResetFaults,
    \* Credentials
    ChangeCalls, ChangeKind, ChangeDevices, MaxSessions, MaxCredentialFaults,
    \* HookChain
    Inline, Background, MaxEmissions, MaxTries, MaxHookFaults,
    \* OwnedRows
    OrderKeys, Users, MaxInFlight,
    \* EventLog
    MaxSent, BatchLimit, MaxLogFaults,
    \* SignUp
    SignUpCalls, SignUpDoor, SignUpRole, MaxIds, MaxSignUpFaults,
    \* SearchIndices
    IndexProcesses, IndexConfig, IndexBoots, MaxRefusals,
    \* TriggerSources
    SourceProcesses, SourceTargets, SourceTables, SourceBoots, SourceChanges, SourceFaults,
    \* RealtimeChannels
    OpenAccounts, OpenProcesses, OpenListen, OpenRequests, OpenPageSize, MaxOpenBegun,
    MaxOpenFaults

VARIABLES
    service,   \* the one the behaviour is of
    v1, v2, v3, v4, v5, v6, v7, v8, v9, v10, v11, v12, v13, v14, v15, v16, v17

\* Two calls, messages, replicas, writers or items that only differ in their names.
Pair == {c1, c2}
Symmetry == Permutations(Pair)

KindOfCall == [start |-> "start", resend |-> "resend", first |-> "verify", second |-> "verify"]
DoorOfCall == [typed |-> "email", vouched |-> "social", other |-> "social"]
RoleOfCall == [typed |-> "user", vouched |-> "user", other |-> "staff"]

\* Who knows the password changes it while a reset of it is completed.
ChangeOf == [known |-> "update", forgotten |-> "reset"]

\* Two access tokens of an account, one of which outlives the other.
LifetimeOf == [x |-> 2, y |-> 1]

\* "brief" strikes every four units and is given one; "long" is given more than its gap.
TimeoutOf == [brief |-> 1, long |-> 3]
OccurrencesOf == [brief |-> {4, 8}, long |-> {2, 4, 6, 8}]
AheadOf == [one |-> 0, other |-> Skew]

\* Two deployments: both observe the rows of "t", only the newer a column of it; the rows of "u"
\* it keys otherwise than the older.
Target == [method |-> "update", table |-> "t", field |-> "none", observe |-> {}, from |-> "any",
           to |-> "any", key |-> "none", name |-> "none"]
TargetsOf == [old |-> {Target, [Target EXCEPT !.method = "delete"],
                       [Target EXCEPT !.method = "insert", !.table = "u"]},
              new |-> {Target, [Target EXCEPT !.method = "field", !.field = "status", !.to = "b"],
                       [Target EXCEPT !.method = "insert", !.table = "u", !.key = "code"]}]

\* Processes that declare a channel alike, otherwise, or not at all.
ListenOf == [one |-> "authenticated", same |-> "authenticated", open |-> "public",
             half |-> "absent"]
NobodyListens == [p \in {} |-> "public"]

\* Two intervals of one name, one of them no whole number of minutes, and two calendars.
Offer(name, schedule) == [name |-> name, schedule |-> schedule, timeout |-> 2]
OfferedSchedules ==
    {Offer("i", [kind |-> "interval", every |-> 4]), Offer("i", [kind |-> "interval", every |-> 3]),
     Offer("d", [kind |-> "daily", zone |-> "zoned", times |-> {1, 2}]),
     Offer("d", [kind |-> "cron", zone |-> "utc", times |-> {3}, fields |-> 5])}

\* When the clocks of the zone go forward and back.
ChangesOf == [forward |-> 3, back |-> 9]
HostAheadOf == [ahead |-> 1]

\* Deployments that declare the index with the filters in another order, another analysis,
\* or a field of another type.
IndexOf == [old |-> [settings |-> <<1, 2>>, fields |-> [n |-> "text"], sources |-> {"t"}],
            new |-> [settings |-> <<1, 3>>, fields |-> [n |-> "text", m |-> "keyword"],
                     sources |-> {"t", "u"}],
            other |-> [settings |-> <<2, 1>>, fields |-> [n |-> "keyword"], sources |-> {"u"}]]

\* Visits of the link that is listed and of another.
LinkOfVisit == [first |-> "l", second |-> "l", third |-> "m"]

\* A replica whose clock is right, and one that is ahead.
ClockOf == [exact |-> 0, ahead |-> 1]

\* A name that holds a pattern, and one in another where only the separator keeps them apart.
NestedEntries == {<<<<"*">>, <<"b", "/", "x">>>>, <<<<"*", "/", "b">>, <<"x">>>>}

Counting == INSTANCE CountingServices_proofs
Writing == INSTANCE WritingServices_proofs
Access == INSTANCE AccountAccess WITH Calls <- Pair, MaxOps <- 2, MaxAccessFaults <- 1,
    ban <- v3, alive <- v5, device <- v1, hardware <- v6, memory <- v8, index <- v7,
    refresh <- v9, revoker <- v4, kicker <- v10, ops <- v11, taken <- v2, excuse <- v12,
    accessFaults <- v13
Audience == INSTANCE Audiences WITH Features <- {"feature"}, Replicas <- Pair,
    MaxCalls <- 2, MaxNow <- 1, MaxAudienceFaults <- 1, member <- v3, lapsed <- v5,
    entry <- v6, generation <- v7, local <- v8, asked <- v9, now <- v1, calls <- v2,
    tainted <- v4, audienceFaults <- v10
Links == INSTANCE DynamicLinks WITH Items <- Pair, Slugs <- {"x", "y"}, MaxDraws <- 2,
    MaxAsks <- 1, MaxLinkFaults <- 2, link <- v1, cached <- v3, item <- v5,
    remembering <- v6, asker <- v7, revoker <- v4, asks <- v8, accepted <- v2,
    linkFaults <- v9
Configs == INSTANCE RemoteConfigs WITH Writers <- Pair, Readers <- {"reader"},
    MaxConfigFaults <- 1, row <- v1, over <- v3, held <- v4, writing <- v5, reading <- v6,
    last <- v7, muddled <- v8, accepted <- v2, configFaults <- v9
Entry == INSTANCE IndexedEntries WITH Entries <- DOMAIN LifetimeOf, Direct <- {"x"},
    Lifetime <- LifetimeOf, RoleLife <- 2, MaxChanges <- 1, MaxTime <- 1,
    MaxIndexFaults <- 1, cache <- v5, clock <- v9, truth <- v10, entry <- v6, index <- v7,
    mark <- v1, reader <- v11, revoker <- v4, late <- v2, lost <- v3, indexFaults <- v8
Pages == INSTANCE SearchPages WITH Documents <- {1}, Searchers <- {"s"}, Plans <- {<<1, 2>>,
    <<2, 1>>}, From <- {0}, PageSize <- 1, MaxMoves <- 2, MaxSearchFaults <- 1, place <- v1,
    queued <- v2, index <- v7, shown <- v3, pages <- v4, previews <- v5, search <- v6,
    drain <- v8, overlooked <- v9, stale <- v10, moves <- v11, searchFaults <- v12
Keys == INSTANCE ValkeryEntries WITH Hosts <- DOMAIN ClockOf, ClockAhead <- ClockOf,
    Entries <- NestedEntries, OfWorkers <- {<<<<"a">>, <<"b">>>>, <<<<"a">>, <<"b",
    "c">>>>}, Ttls <- {1, 2}, Spread <- 1, MaxDraw <- 1, MaxInstant <- 2, MaxWrites <- 2,
    MaxValkeryFaults <- 1, store <- v1, ttl <- v3, sweep <- v4, instant <- v5, writes <- v6,
    valkeryFaults <- v7, late <- v2, strayed <- v8
Listing == INSTANCE AudiencePages WITH Names <- 1..5, Limits <- {2, 3}, ScanMultiplier <- 2,
    MaxChanges <- 1, MaxListFaults <- 1, row <- v1, limit <- v3, cursor <- v5, page <- v8,
    scanned <- v9, met <- v6, walk <- v2, stayed <- v10, cut <- v11, held <- v4,
    changes <- v7, listFaults <- v12
Device == INSTANCE DeviceCaches WITH Devices <- {1}, Ops <- {"list", "get", "verify",
    "register", "origin", "kick", "kickAll"}, Calls <- Pair, MaxBegun <- 2,
    MaxDeviceFaults <- 1, row <- v1, cache <- v5, call <- v2, tainted <- v4, begun <- v3,
    deviceFaults <- v6
AllDevices == INSTANCE DeviceCaches WITH Devices <- 1..2, Ops <- {"register", "kickAll"},
    Calls <- Pair, MaxBegun <- 2, MaxDeviceFaults <- 0, row <- v1, cache <- v5, call <- v2,
    tainted <- v4, begun <- v3, deviceFaults <- v6
Visit == INSTANCE LinkStatistics WITH Visits <- DOMAIN LinkOfVisit, LinkOf <- LinkOfVisit,
    Listed <- "l", PageSize <- 1, MaxGroups <- 2, MaxVisitFaults <- 1, links <- v4,
    waiting <- v1, groups <- v5, rows <- v3, handed <- v6, refused <- v7, gone <- v8,
    again <- v9, walk <- v2, visitFaults <- v10

ASSUME ServicesAssumption ==
    /\ Counting!Codes!CodeAssumption
    /\ Access!AccessAssumption
    /\ Writing!Reset!ResetAssumption
    /\ Counting!Rate!RateAssumption
    /\ Counting!Storage!StorageAssumption
    /\ Audience!AudienceAssumption
    /\ Links!LinkAssumption
    /\ Configs!ConfigAssumption
    /\ Writing!Events!LogAssumption
    /\ Writing!SignUps!SignUpAssumption
    /\ Entry!EntryAssumption
    /\ Writing!Hooks!HookAssumption
    /\ Counting!Cron!CronAssumption
    /\ Writing!Rows!OwnedAssumption
    /\ Counting!SignIn!SignInAssumption
    /\ Writing!Declared!SourceAssumption
    /\ Writing!Openness!ChannelAssumption
    /\ Counting!Grants!ChannelAssumption
    /\ Counting!Missed!CatchUpAssumption
    /\ Counting!Schedules!ScheduleAssumption
    /\ Pages!SearchPagesAssumption
    /\ Writing!Indices!SearchIndicesAssumption
    /\ Keys!ValkeryEntriesAssumption
    /\ Listing!AudiencePagesAssumption
    /\ Device!DeviceCachesAssumption
    /\ AllDevices!DeviceCachesAssumption
    /\ Writing!Credential!CredentialsAssumption
    /\ Visit!LinkStatisticsAssumption

\* What the behaviour has no use for is empty.
Unused == "unused"

Init ==
    /\ service \in Which
    /\ \/ /\ service = "codes" /\ Counting!Codes!Init
          /\ v12 = Unused /\ v13 = Unused /\ v14 = Unused /\ v15 = Unused /\ v16 = Unused
          /\ v17 = Unused
       \/ /\ service = "access" /\ Access!Init
          /\ v14 = Unused /\ v15 = Unused /\ v16 = Unused /\ v17 = Unused
       \/ /\ service = "reset" /\ Writing!Reset!Init
          /\ v11 = Unused /\ v12 = Unused /\ v13 = Unused /\ v14 = Unused /\ v15 = Unused
          /\ v16 = Unused /\ v17 = Unused
       \/ /\ service = "rate" /\ Counting!Rate!Init
          /\ v8 = Unused /\ v9 = Unused /\ v10 = Unused /\ v11 = Unused /\ v12 = Unused
          /\ v13 = Unused /\ v14 = Unused /\ v15 = Unused /\ v16 = Unused /\ v17 = Unused
       \/ /\ service = "storage" /\ Counting!Storage!Init
          /\ v7 = Unused /\ v8 = Unused /\ v9 = Unused /\ v10 = Unused /\ v11 = Unused
          /\ v12 = Unused /\ v13 = Unused /\ v14 = Unused /\ v15 = Unused /\ v16 = Unused
          /\ v17 = Unused
       \/ /\ service = "audience" /\ Audience!Init
          /\ v11 = Unused /\ v12 = Unused /\ v13 = Unused /\ v14 = Unused /\ v15 = Unused
          /\ v16 = Unused /\ v17 = Unused
       \/ /\ service = "links" /\ Links!Init
          /\ v10 = Unused /\ v11 = Unused /\ v12 = Unused /\ v13 = Unused /\ v14 = Unused
          /\ v15 = Unused /\ v16 = Unused /\ v17 = Unused
       \/ /\ service = "configs" /\ Configs!Init
          /\ v10 = Unused /\ v11 = Unused /\ v12 = Unused /\ v13 = Unused /\ v14 = Unused
          /\ v15 = Unused /\ v16 = Unused /\ v17 = Unused
       \/ /\ service = "events" /\ Writing!Events!Init
          /\ v10 = Unused /\ v11 = Unused /\ v12 = Unused /\ v13 = Unused /\ v14 = Unused
          /\ v15 = Unused /\ v16 = Unused /\ v17 = Unused
       \/ /\ service = "signUp" /\ Writing!SignUps!Init
          /\ v11 = Unused /\ v12 = Unused /\ v13 = Unused /\ v14 = Unused /\ v15 = Unused
          /\ v16 = Unused /\ v17 = Unused
       \/ /\ service = "entries" /\ Entry!Init
          /\ v12 = Unused /\ v13 = Unused /\ v14 = Unused /\ v15 = Unused /\ v16 = Unused
          /\ v17 = Unused
       \/ /\ service = "hook" /\ Writing!Hooks!Init
          /\ v5 = Unused /\ v6 = Unused /\ v7 = Unused /\ v8 = Unused /\ v9 = Unused
          /\ v10 = Unused /\ v11 = Unused /\ v12 = Unused /\ v13 = Unused /\ v14 = Unused
          /\ v15 = Unused /\ v16 = Unused /\ v17 = Unused
       \/ /\ service = "cron" /\ Counting!Cron!Init
          /\ v10 = Unused /\ v11 = Unused /\ v12 = Unused /\ v13 = Unused /\ v14 = Unused
          /\ v15 = Unused /\ v16 = Unused /\ v17 = Unused
       \/ /\ service = "rows" /\ Writing!Rows!Init
          /\ v4 = Unused /\ v5 = Unused /\ v6 = Unused /\ v7 = Unused /\ v8 = Unused
          /\ v9 = Unused /\ v10 = Unused /\ v11 = Unused /\ v12 = Unused /\ v13 = Unused
          /\ v14 = Unused /\ v15 = Unused /\ v16 = Unused /\ v17 = Unused
       \/ /\ service = "signIns" /\ Counting!SignIn!Init
       \/ /\ service = "sources" /\ Writing!Declared!Init
          /\ v13 = Unused /\ v14 = Unused /\ v15 = Unused /\ v16 = Unused /\ v17 = Unused
       \/ /\ service = "openness" /\ Writing!Openness!Init
          /\ v12 = Unused /\ v13 = Unused /\ v14 = Unused /\ v15 = Unused /\ v16 = Unused
          /\ v17 = Unused
       \/ /\ service = "grants" /\ Counting!Grants!Init
          /\ v12 = Unused /\ v13 = Unused /\ v14 = Unused /\ v15 = Unused /\ v16 = Unused
          /\ v17 = Unused
       \/ /\ service = "catchUp" /\ Counting!Missed!Init
          /\ v8 = Unused /\ v9 = Unused /\ v10 = Unused /\ v11 = Unused /\ v12 = Unused
          /\ v13 = Unused /\ v14 = Unused /\ v15 = Unused /\ v16 = Unused /\ v17 = Unused
       \/ /\ service = "schedules" /\ Counting!Schedules!Init
          /\ v5 = Unused /\ v6 = Unused /\ v7 = Unused /\ v8 = Unused /\ v9 = Unused
          /\ v10 = Unused /\ v11 = Unused /\ v12 = Unused /\ v13 = Unused /\ v14 = Unused
          /\ v15 = Unused /\ v16 = Unused /\ v17 = Unused
       \/ /\ service = "pages" /\ Pages!Init
          /\ v13 = Unused /\ v14 = Unused /\ v15 = Unused /\ v16 = Unused /\ v17 = Unused
       \/ /\ service = "indices" /\ Writing!Indices!Init
          /\ v12 = Unused /\ v13 = Unused /\ v14 = Unused /\ v15 = Unused /\ v16 = Unused
          /\ v17 = Unused
       \/ /\ service = "keys" /\ Keys!Init
          /\ v9 = Unused /\ v10 = Unused /\ v11 = Unused /\ v12 = Unused /\ v13 = Unused
          /\ v14 = Unused /\ v15 = Unused /\ v16 = Unused /\ v17 = Unused
       \/ /\ service = "listing" /\ Listing!Init
          /\ v13 = Unused /\ v14 = Unused /\ v15 = Unused /\ v16 = Unused /\ v17 = Unused
       \/ /\ service = "devices" /\ Device!Init
          /\ v7 = Unused /\ v8 = Unused /\ v9 = Unused /\ v10 = Unused /\ v11 = Unused
          /\ v12 = Unused /\ v13 = Unused /\ v14 = Unused /\ v15 = Unused /\ v16 = Unused
          /\ v17 = Unused
       \/ /\ service = "allDevices" /\ AllDevices!Init
          /\ v7 = Unused /\ v8 = Unused /\ v9 = Unused /\ v10 = Unused /\ v11 = Unused
          /\ v12 = Unused /\ v13 = Unused /\ v14 = Unused /\ v15 = Unused /\ v16 = Unused
          /\ v17 = Unused
       \/ /\ service = "credentials" /\ Writing!Credential!Init
          /\ v10 = Unused /\ v11 = Unused /\ v12 = Unused /\ v13 = Unused /\ v14 = Unused
          /\ v15 = Unused /\ v16 = Unused /\ v17 = Unused
       \/ /\ service = "visits" /\ Visit!Init
          /\ v11 = Unused /\ v12 = Unused /\ v13 = Unused /\ v14 = Unused /\ v15 = Unused
          /\ v16 = Unused /\ v17 = Unused

\* A step of one; the others have no state of their own.
Of(name, rest) == service = name /\ UNCHANGED <<service, rest>>

Next ==
    \/ Of("codes", <<v12, v13, v14, v15, v16, v17>>) /\ Counting!Codes!Next
    \/ Of("access", <<v14, v15, v16, v17>>) /\ Access!Next
    \/ Of("reset", <<v11, v12, v13, v14, v15, v16, v17>>) /\ Writing!Reset!Next
    \/ Of("rate", <<v8, v9, v10, v11, v12, v13, v14, v15, v16, v17>>) /\ Counting!Rate!Next
    \/ /\ Of("storage", <<v7, v8, v9, v10, v11, v12, v13, v14, v15, v16, v17>>)
       /\ Counting!Storage!Next
    \/ Of("audience", <<v11, v12, v13, v14, v15, v16, v17>>) /\ Audience!Next
    \/ Of("links", <<v10, v11, v12, v13, v14, v15, v16, v17>>) /\ Links!Next
    \/ Of("configs", <<v10, v11, v12, v13, v14, v15, v16, v17>>) /\ Configs!Next
    \/ Of("events", <<v10, v11, v12, v13, v14, v15, v16, v17>>) /\ Writing!Events!Next
    \/ Of("signUp", <<v11, v12, v13, v14, v15, v16, v17>>) /\ Writing!SignUps!Next
    \/ Of("entries", <<v12, v13, v14, v15, v16, v17>>) /\ Entry!Next
    \/ /\ Of("hook", <<v5, v6, v7, v8, v9, v10, v11, v12, v13, v14, v15, v16, v17>>)
       /\ Writing!Hooks!Next
    \/ Of("cron", <<v10, v11, v12, v13, v14, v15, v16, v17>>) /\ Counting!Cron!Next
    \/ /\ Of("rows", <<v4, v5, v6, v7, v8, v9, v10, v11, v12, v13, v14, v15, v16, v17>>)
       /\ Writing!Rows!Next
    \/ Of("signIns", <<>>) /\ Counting!SignIn!Next
    \/ Of("sources", <<v13, v14, v15, v16, v17>>) /\ Writing!Declared!Next
    \/ Of("openness", <<v12, v13, v14, v15, v16, v17>>) /\ Writing!Openness!Next
    \/ Of("grants", <<v12, v13, v14, v15, v16, v17>>) /\ Counting!Grants!Next
    \/ /\ Of("catchUp", <<v8, v9, v10, v11, v12, v13, v14, v15, v16, v17>>)
       /\ Counting!Missed!Next
    \/ /\ Of("schedules", <<v5, v6, v7, v8, v9, v10, v11, v12, v13, v14, v15, v16, v17>>)
       /\ Counting!Schedules!Next
    \/ Of("pages", <<v13, v14, v15, v16, v17>>) /\ Pages!Next
    \/ Of("indices", <<v12, v13, v14, v15, v16, v17>>) /\ Writing!Indices!Next
    \/ Of("keys", <<v9, v10, v11, v12, v13, v14, v15, v16, v17>>) /\ Keys!Next
    \/ Of("listing", <<v13, v14, v15, v16, v17>>) /\ Listing!Next
    \/ Of("devices", <<v7, v8, v9, v10, v11, v12, v13, v14, v15, v16, v17>>) /\ Device!Next
    \/ /\ Of("allDevices", <<v7, v8, v9, v10, v11, v12, v13, v14, v15, v16, v17>>)
       /\ AllDevices!Next
    \/ /\ Of("credentials", <<v10, v11, v12, v13, v14, v15, v16, v17>>)
       /\ Writing!Credential!Next
    \/ Of("visits", <<v11, v12, v13, v14, v15, v16, v17>>) /\ Visit!Next

vars == <<service, v1, v2, v3, v4, v5, v6, v7, v8, v9, v10, v11, v12, v13, v14, v15, v16,
    v17>>
Spec == Init /\ [][Next]_vars

-----------------------------------------------------------------------------
(* The type invariant of each.                                                *)
TypeOK ==
    /\ service = "codes" => Counting!Codes!TypeOK
    /\ service = "access" => Access!TypeOK
    /\ service = "reset" => Writing!Reset!TypeOK
    /\ service = "rate" => Counting!Rate!TypeOK
    /\ service = "storage" => Counting!Storage!TypeOK
    /\ service = "audience" => Audience!TypeOK
    /\ service = "links" => Links!TypeOK
    /\ service = "configs" => Configs!TypeOK
    /\ service = "events" => Writing!Events!TypeOK
    /\ service = "signUp" => Writing!SignUps!TypeOK
    /\ service = "entries" => Entry!TypeOK
    /\ service = "hook" => Writing!Hooks!TypeOK
    /\ service = "cron" => Counting!Cron!TypeOK
    /\ service = "rows" => Writing!Rows!TypeOK
    /\ service = "signIns" => Counting!SignIn!TypeOK
    /\ service = "sources" => Writing!Declared!TypeOK
    /\ service = "openness" => Writing!Openness!TypeOK
    /\ service = "grants" => Counting!Grants!TypeOK
    /\ service = "catchUp" => Counting!Missed!TypeOK
    /\ service = "schedules" => Counting!Schedules!TypeOK
    /\ service = "pages" => Pages!TypeOK
    /\ service = "indices" => Writing!Indices!TypeOK
    /\ service = "keys" => Keys!TypeOK
    /\ service = "listing" => Listing!TypeOK
    /\ service = "devices" => Device!TypeOK
    /\ service = "allDevices" => AllDevices!TypeOK
    /\ service = "credentials" => Writing!Credential!TypeOK
    /\ service = "visits" => Visit!TypeOK

(* A pending token is worth one session and a bounded number of guesses, and  *)
(* a challenge that was answered is answered again only past a resend that    *)
(* lost the row it was to replace (auth: sign_in/otp.ts, pending_token.ts).   *)
ChallengeAnsweredOnce ==
    service = "codes" => /\ Counting!Codes!TokenSpentOnce
                         /\ Counting!Codes!SecondSessionOnlyPastALostReplace

(* No session a sign-in opened at GoTrue outlives it without an owner, but    *)
(* for a refused logout or a process that died; no sign-up leaves half a      *)
(* person, but by what it did not look at or could not undo (auth:            *)
(* sign_in/runner.ts, sign_up/runner.ts).                                     *)
NothingLeftHalf ==
    /\ service = "codes" => Counting!Codes!NoSessionLeftOpen
    /\ service = "signIns" => Counting!SignIn!NoSessionAstray
    /\ service = "signUp" => Writing!SignUps!NobodyLeftHalf
    /\ service = "credentials" => Writing!Credential!ProofsAreClosed

(* A refresh that begins after a ban, a sign-out or the removal of its device *)
(* renews nothing, but for the races the model names, and what was cached of  *)
(* an account before it changed is gone after, but for what the set of its    *)
(* names missed (auth: session.ts, bans.ts, revocation.ts, devices.ts,        *)
(* identity.ts; foundation: redis/key_index.ts, identity_revocation.ts); an   *)
(* entry of a cache is answered until its writer dated it over and no longer  *)
(* than clocks differ, and a sweep takes its own (foundation: valkery). A     *)
(* device is checked against what was recorded of it, and throwing all out    *)
(* leaves none, but by what was remembered from before a change (auth:        *)
(* devices). No session outlives the password it was opened with, but by the  *)
(* device it signs in from again (auth: password.ts, identifier.ts).          *)
AccessTakenIsRefused ==
    /\ service = "access" => Access!RevokedIsRefused /\ Access!KickedIsRefused
    /\ service = "entries" => Entry!StaleOnlyPastTheIndex
    /\ service = "keys" => Keys!SpentIsGone /\ Keys!SweepsTakeTheirOwn
    /\ service = "devices" => Device!CheckedAsRecorded /\ Device!EveryDeviceThrownOut
    /\ service = "allDevices" => AllDevices!EveryDeviceThrownOut
    /\ service = "credentials" => Writing!Credential!OldSessionsGo

(* One proof of ownership changes one password (auth: reset_password.ts).     *)
OneChangePerProof == service = "reset" => Writing!Reset!OneChangePerProof

(* A bucket lets no more through than its limit, what it says remains is      *)
(* there to be used, and a block doubles the one before unless the strikes    *)
(* behind it were forgotten; a recipient is guessed at as often as its limit  *)
(* has it, and by what was asked already when it was reached (foundation:     *)
(* rate_limit; auth: sign_in/runner.ts).                                      *)
LimitsHold ==
    /\ service = "rate" => /\ Counting!Rate!AllowanceKept
                           /\ Counting!Rate!RemainingIsHonest
                           /\ Counting!Rate!BlocksEscalate
    /\ service = "signIns" => Counting!SignIn!GuessesBounded

(* The row of a path and the bytes of both buckets agree at rest; a clearing  *)
(* that answers Ok emptied its folder, and starts over only past a page of    *)
(* the rows of other folders (storage: runtime/resource.ts, core/storage.ts). *)
StorageAgrees ==
    service = "storage" => /\ Counting!Storage!RowsAndBytesAgree
                           /\ Counting!Storage!ClearEmptiesTheFolder

(* What a cache answers is what its table has, whenever nothing changed it    *)
(* meanwhile: a membership, the link of a slug, a configuration, a device, a  *)
(* preview and a page once the outbox is drained; a walk through the pages of *)
(* an audience leaves out nobody who stayed but for the rest of a short read,  *)
(* and one through the visits of a link no row, but for those dated alike; a  *)
(* visit that left its queue is one row, but for a group that was refused or  *)
(* handed over again (audience, dynamic_links, remote_configs:                *)
(* runtime/valkery.ts and core/declaration.ts of each; audience:              *)
(* db/members.ts; dynamic_links: db/statistics.ts; auth: devices/valkery.ts;  *)
(* search: core/search_index.ts, core/valkery.ts).                            *)
CachesTellTheTable ==
    /\ service = "audience" => Audience!AnswersTheTable
    /\ service = "links" => Links!StaleForAReason /\ Links!OneLinkPerItem
    /\ service = "configs" => Configs!AnswersWhatWasLeft
    /\ service = "pages" => Pages!PreviewsTellTheRow /\ Pages!PagesTellTheCluster
    /\ service = "listing" => Listing!WalkMeetsWhoStayed /\ Listing!WindowLeavesOnlyTheRest
    /\ service = "devices" => Device!RememberedAsRecorded
    /\ service = "allDevices" => AllDevices!RememberedAsRecorded
    /\ service = "visits" => Visit!VisitsCountedOnce /\ Visit!WalkMeetsTheRows

(* An emission is in the log once, in the order it was sent, when its caller  *)
(* is told so, and none waits for ever (realtime: transport/event_log.ts).    *)
EmissionsKept == service = "events" => Writing!Events!EmissionsKept

(* The background of a hook is queued for what every handler accepted, and    *)
(* for no other but an emission that gave up on one or came from within one   *)
(* (foundation: hook.ts, hook_channel.ts).                                    *)
NothingBehindARefusal == service = "hook" => Writing!Hooks!NothingBehindARefusal

(* An occurrence is executed once while it is current, a job overlaps itself  *)
(* only behind a run past its timeout, and an occurrence nobody executed was  *)
(* missed by every replica or touched by a fault; every replica names the     *)
(* instants its schedule names (foundation: cron).                            *)
OccurrencesRunOnce ==
    /\ service = "cron" => /\ Counting!Cron!OneExecutionWhileCurrent
                           /\ Counting!Cron!OverlapOnlyPastTheTimeout
                           /\ Counting!Cron!RunsUnlessAllMissedIt
    /\ service = "schedules" => Counting!Schedules!SameInstants

(* "The three guards that keep one occurrence to one execution", said of the  *)
(* timer, the marker and the token: with clocks that agree and no fault, no   *)
(* occurrence is claimed twice (foundation: cron).                            *)
OneExecution == service = "cron" => Counting!Cron!OneExecution

(* A row of an owned table stays with its caller: no other sees it, takes it  *)
(* or gives one away but by a query compiled while the table was open to it,  *)
(* an upsert that conflicts, or a payload of a worker that names an owner     *)
(* (foundation: database/query, database/capability.ts).                      *)
RowsKeepTheirOwner == [][service = "rows" => Writing!Rows!RowsKept]_vars

(* The device token a client keeps is the one its row holds, but for what two *)
(* sign-ins do to one another, a write nobody looked at and an answer that    *)
(* never came (auth: devices/devices.ts, devices/repository.ts).              *)
DeviceTokenKnown == service = "signIns" => Counting!SignIn!DeviceTokenKnown

(* A change that a running process declared is logged and handed to what it   *)
(* was owed to, under the key that process declares, but for a source that    *)
(* another deployment took away or re-keyed, a write that failed unnoticed,   *)
(* and a process that drains what it does not declare (foundation:            *)
(* trigger_sources.ts, trigger_match.ts, 01_trigger.sql). The row of an index *)
(* says what the cluster holds, its tables are those it declares and it is    *)
(* open, but for boots that overlapped, died or lost a write (search:         *)
(* db/indices.ts, transport/opensearch.ts).                                   *)
DeclaredChangesArrive ==
    /\ service = "sources" => /\ Writing!Declared!DeclaredChangesArrive
                              /\ Writing!Declared!UnderItsKey
    /\ service = "indices" => /\ Writing!Indices!RowTellsTheCluster
                              /\ Writing!Indices!OpenedAgain
                              /\ Writing!Indices!SourcesAsDeclared

(* A channel is heard as the processes that run declare it and by who was     *)
(* granted it, a request about a grant answers what is so, a listing leaves   *)
(* out nobody who stayed, and a client that was away holds the rows there     *)
(* are, but for a transaction longer than the lag or overtaken, a row that    *)
(* appeared and changed meanwhile, and a log cleaned before its first cursor  *)
(* (realtime: db/channels.ts, db/grants.ts, realtime.sql).                    *)
ChannelsHeardAsDeclared ==
    /\ service = "openness" => Writing!Openness!HeardAsDeclared
    /\ service = "grants" => /\ Counting!Grants!GrantsAsAnswered
                             /\ Counting!Grants!WalkSeesWhoStayed
    /\ service = "catchUp" => Counting!Missed!RowsCaughtUp
=============================================================================
