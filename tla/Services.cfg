\* Two of what calls; every behaviour may come to an end.
SPECIFICATION Spec
CONSTANTS
    c1 = c1
    c2 = c2
    Which = {"codes", "access", "reset", "rate", "storage", "audience", "links", "configs",
             "events", "signUp", "entries", "hook", "cron", "rows", "signIns", "sources", "openness",
             "grants", "catchUp", "schedules", "pages", "indices", "keys", "listing", "devices",
             "allDevices", "credentials", "visits"}
    Skew = 1
    ClockHosts = {"ahead"}
    HostAhead <- HostAheadOf
    Declarations <- OfferedSchedules
    UnitsOfMinute = 2
    MinutesOfDay = 4
    ZoneChanges <- ChangesOf
    ScheduleHorizon = 10
    IndexProcesses = {"old", "new", "other"}
    IndexConfig <- IndexOf
    IndexBoots = 2
    MaxRefusals = 2
    SourceProcesses = {"old", "new"}
    SourceTargets <- TargetsOf
    SourceTables = {"t", "u"}
    SourceBoots = 2
    SourceChanges = 2
    SourceFaults = 1
    OpenAccounts = {1}
    OpenProcesses = {"one", "same", "open", "half"}
    OpenListen <- ListenOf
    OpenRequests = {c1}
    OpenPageSize = 1
    MaxOpenBegun = 1
    MaxOpenFaults = 1
    GrantAccounts = {1, 2}
    GrantProcesses = {}
    GrantListen <- NobodyListens
    GrantRequests = {c1, c2}
    GrantPageSize = 1
    MaxGrantBegun = 2
    MaxGrantFaults = 1
    CatchUpEntities = {"x"}
    CatchUpWriters = {c1, c2}
    CatchUpLag = 2
    CatchUpRetention = 2
    CatchUpHorizon = 4
    CatchUpEvents = 3
    CatchUpCalls = 2
    CronJobs = {"brief", "long"}
    Strikes <- OccurrencesOf
    TimeLimit <- TimeoutOf
    CronReplicas = {"one", "other"}
    CronAhead <- AheadOf
    GateWidth = 1
    MaxCronFaults = 1
    CronHorizon = 4
    CodeCalls = {"start", "resend", "first", "second"}
    CodeKind <- KindOfCall
    CodeTokens = 2
    Attempts = 1
    MaxCodeFaults = 1
    Inline = 2
    Background = 2
    MaxEmissions = 2
    MaxTries = 2
    MaxHookFaults = 2
    Confirms = {c1, c2}
    Completes = {c1, c2}
    MaxSends = 2
    MaxResetFaults = 1
    OrderKeys = {1, 2}
    Users = {c1, c2}
    MaxInFlight = 1
    SignInCalls = {c1, c2}
    GuessLimit = 1
    DeviceTokens = 2
    MaxAttempts = 2
    MaxSignInFaults = 1
    MaxSent = 4
    BatchLimit = 2
    MaxLogFaults = 1
    StoredPaths = {1, 2, 3}
    FolderPaths = {1, 3}
    StorageCalls = {c1, c2}
    ClearedPage = 1
    MaxPages = 3
    MaxStorageFaults = 1
    HitLimit = 2
    FirstBlock = 2
    LongestBlock = 8
    StrikesAsked = 7
    OpenOnOutage = FALSE
    RateHorizon = 15
    SignUpCalls = {"typed", "vouched", "other"}
    SignUpDoor <- DoorOfCall
    SignUpRole <- RoleOfCall
    MaxIds = 2
    MaxSignUpFaults = 1
    ChangeCalls = {"known", "forgotten"}
    ChangeKind <- ChangeOf
    ChangeDevices = {1}
    MaxSessions = 3
    MaxCredentialFaults = 1
SYMMETRY Symmetry
INVARIANTS
    TypeOK
    ChallengeAnsweredOnce
    NothingLeftHalf
    AccessTakenIsRefused
    OneChangePerProof
    LimitsHold
    StorageAgrees
    CachesTellTheTable
    EmissionsKept
    NothingBehindARefusal
    OccurrencesRunOnce
    DeviceTokenKnown
    DeclaredChangesArrive
    ChannelsHeardAsDeclared
PROPERTIES
    RowsKeepTheirOwner
CHECK_DEADLOCK FALSE
