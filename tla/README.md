# Scribe packages: models, checks and proofs

The repository is a set of TypeScript packages on top of one foundation
(`src/foundation`): a backend runs as several identical replicas against one
PostgreSQL, one Redis, one message broker (NATS JetStream, SQS or Pub/Sub), GoTrue for
accounts and, for search, one OpenSearch cluster. Nothing elects a leader. Whatever must
happen once in the fleet is arranged with markers in Redis, ids in the broker and the
order in which two systems are written, and this is what the modules here are about.

Paths below are relative to `src/`.

## 1. Inventory

### Foundation

| Component | State it keeps | Operations | Hard behaviours | What makes it correct | Modules |
|---|---|---|---|---|---|
| **Trigger outbox** `foundation/lib/src/trigger` | `__trigger_events__`; the drain marker in Redis; per replica the memory of who took a row, the pass under way | commit, claim, read, publish, DELETE | a marker that expires under a pass, a row refused in part, death between publish and DELETE, ids that commit out of order | no committed change is lost; copies stay within what the stream forgets; refused rows hold nobody up | `TriggerOutbox`, `ChangeDelivery` |
| **Trigger declarations and sources** | declarations of a process, `__trigger_sources__` | declare, sync at boot, log, match | deployments that differ boot side by side | a declared change is logged and handed on | `TriggerSources` |
| **Queues** `foundation/lib/src/queue` | stream, consumer, dead letter, hand-back notes | push, deliver, run, ack, nak, dead letter | `ack_wait` against the body, replicas that do not declare a queue, `max_deliver` against the policy | a message ends acknowledged or filed after its tries, and stays ended | `QueueDelivery` |
| **Queue topology** `queue/topology` | streams, consumers, what a process holds ready | provision, raise bounds, reconnect | deployments with other bounds, failed reads, remembered failures | a queue gets the bounds it asked for | `QueueTopology` |
| **SQS, Pub/Sub** | receipts, streams, loops | declare, push, drain, stop | stop and start in one tick, lapsed visibility | nothing lost, nothing leaks | `SqsQueue`, `PubSubQueue` |
| **Delayed jobs** `queue/delayed` | a sorted set | park, promote, forget | several promoters, publish before remove | none lost, copies only past the window | `DelayedJobs` |
| **Runners** | loops, generations | start, stop, crash, restart | restarts that ignore a stop | one loop while started, none after | `RunnerLoops` |
| **Scheduled jobs** `foundation/lib/src/cron` | next occurrence, run token, gate; markers in Redis | declare, turn, claim, run, time out | clocks that differ, runs past their timeout | one execution per occurrence, the same occurrences everywhere | `CronSlots`, `CronSchedules` |
| **Valkery cache** `foundation/lib/src/valkery` | entries, locks, runs in flight | upsert, add, delete, clear, refresh | lease shorter than the computation, delete racing a fill, names that collide | nobody waits for ever, no stale value is revived, an entry ends | `ValkeryFlight`, `ValkeryEntries` |
| **Redis helpers** `foundation/lib/src/redis` | sets of names of entries, marks | remember, revoke | a revocation racing a read, the expiry of the set | what was cached of an account goes with it | `IndexedEntries` |
| **Rate limiter** | bucket, strikes | check | memory against penalty, rounding | never more than the limit, longer blocks | `RateLimiter` |
| **Hooks** | handlers, background queue | emit | late answers, re-entrance | refused means nothing behind it | `HookChain` |
| **Database client** | owners of tables | compile and run a query | compiled before registered, conflicts | a row stays with its owner | `OwnedRows` |
| **HTTP, lifecycle, observation, settings** | wiring | | | | not modelled |

### Packages

| Component | State it keeps | Hard behaviours | What makes it correct | Modules |
|---|---|---|---|---|
| **Search**: outbox `search/lib`, `search/deploy` | `__search_outbox__`, the cluster | drains together, bulk calls applied in part | the index follows the tables; one bad document holds nobody up | `SearchOutbox` |
| **Search**: indices, pages | `__search_indices__`, `__search_sources__`, pages and previews cached | boots of two declarations, a close that is not followed by an open; a page filled while a drain clears | the row of an index says what the cluster holds; a cached page is what the cluster would answer | `SearchIndices`, `SearchPages` |
| **Auth**: sign-in, codes, sign-up | pending tokens, counters, users of GoTrue, accounts, devices | two verifications of one token; deaths between writes; undoing what another uses | a code opens one session, guesses are bounded, nobody is left half | `OneTimeCodes`, `SignIns`, `SignUp` |
| **Auth**: sessions, devices, bans, credentials | sessions, device rows, caches of each | refresh racing a ban, a kick or a change of password; caches filled from before | what was taken away is refused | `AccountAccess`, `DeviceCaches`, `Credentials`, `PasswordReset`, `IndexedEntries` |
| **Audiences** | memberships, cached under a generation | generation remembered per replica; pages over rows that expire | has() tells the table; a listing leaves nobody out | `Audiences`, `AudiencePages` |
| **Dynamic links** | links, cached; visits | draws that collide, revokes racing a fill; visits in groups | a slug answers what was written; a visit is counted once | `DynamicLinks`, `LinkStatistics` |
| **Remote configurations** | a cached row | set racing get | get answers what was left | `RemoteConfigs` |
| **Realtime** | event log, openness, grants | batches that overlap, deployments that differ, catching up after a gap | each caller is told of its own emission; who may listen, does; no row is missed | `EventLog`, `RealtimeChannels`, `RealtimeCatchUp` |
| **Storage** | bytes in two buckets, a row per path | uploads and removals that interleave; clearing page by page | row and bytes agree; a folder cleared is empty | `StorageFiles` |
| **Tools, deploy scripts** | none | pure I/O | | not modelled |

The hazards behind the "hard behaviours" are listed, each at its line and with
the properties that cover it, under `hazards` in `PROJECT.json`.

### How the parts interact

A write of a project commits, in one transaction, its rows and a row in each
outbox that watches them (`__trigger_events__`, `__search_outbox__`,
`__realtime_events__`). The trigger runner moves the first into the stream of the
declaration's queue; the search drain, itself a scheduled job and therefore subject to
the slot lock, moves the second into the cluster and drops the pages it made stale;
clients read the third when they come back. A queue runner takes messages off the stream
and calls bodies; delayed jobs, the background of a hook and the visits of links enter
the same streams. The cache stands in front of the tables of links, audiences, remote
configurations, devices and search and is told of a change by a delete after the write.
GoTrue holds users and sessions, the tables of auth everything else about a person, and
no transaction spans the two.

## 2. Modules

In each module an action is one uninterrupted piece of a handler: from one
`await` to the next, a single SQL statement or transaction, one Lua script, or
one call of a service. A call that may fail has an argument `ok` (or `stored`, when its
effect and its answer part ways) and takes the failing branch the code takes. Each module
has its constants, their assumption, its type invariant `TypeOK` and its properties;
`PROJECT.json` maps every definition to its lines.

### Five modules in depth

**TriggerOutbox.** `Claim`/`ClaimLost` are `DrainLock.claim` (`SET NX PX`; the
marker is never released, `Tick` lets it age). `ReadPending` is the SELECT of
`trigger_claim.ts`, ordered by id and cut at `DrainBatch`. `EnsureTopology`
precedes the publishes, and `PassFails` is any of these raising. For each match
of the row under way the code skips a remembered declaration (`SkipTaken`), finds
no queue and counts it as taken (`NoQueue`), publishes (`Delivered`) or is
refused (`PublishFails`, with the answer perhaps lost after the stream stored
it). `RowTaken` and `RowKept` are the two ends of a row, `ForgetEvents` and
`ForgetFails` those of the DELETE. `Crash` empties the memory `_taken`. Message
ids are the triple declaration, row, field; the stream keeps one copy of an id
while it is in `window`, and `WindowCloses` forgets it. It implements **ChangeDelivery**
(`Outside`), which knows only changes that are written, wait, reach the declarations they
are owed to, and leave once they reached them all; the mapping takes the table for what
waits and the copies of the stream for what was reached.

**SearchOutbox.** `line` holds the rows of `__search_outbox__` by document, each with the
instant it was queued at. `Enqueue` is `__search_enqueue__`: an upsert that keeps that
instant and resets the attempts. `Claim` is the SELECT without a lock, of which `Oldest`
says what it may answer (rows of one instant come in any order); a batch remembers rows as
they were claimed, and `Group` is the index of its oldest;
`Erase`, `ReadRows`, `Index`, `RemoveGone`, `Settle`, `Fail` are the calls of one
group in the order `drain.ts` makes them, `NoIndex` the group nobody declares,
`EndPass` the budget, `Aborts` an exception or a death. A bulk call applies any
subset and may lose its answer; what it reports taken is `handled`.

**QueueDelivery.** A delivery in a replica's hands is a record of `copies`.
`Deliver`, `ServerStops`, `AckWaitElapses` are the server. `HandBack` is
`hand_backs.ts`; `Discard` the unreadable payload; `BodyAgrees` and `BodyRefuses`
run one message or a group, the acknowledgement included; `Retry`, `Weigh` and
`FileSpent` are `FailurePolicy`. `MaxDeliver` is computed as `planFor` does. A delivery that
was refused, answered late, or is still in hand when the next one is made counts as `lost`.

**CronSlots.** `Turn` is one turn of the loop: it takes every due job, moves it past
everything it slept through and fires it unless its token is held. `Enter` is the
gate, `Claim`/`Taken`/`ClaimFails` the slot lock with `Lease` computed as in
`slot_lock.ts`, `Finish`/`Deadline`/`LateFinish` the run, `Restart` a death.

**ValkeryFlight.** `Start`, `Join`, `Leave`, `Answer`, `Unregister` are
`local_flight.ts`; `Acquire`, `Lose`, `LockFails`, `ReadBack`, `GiveUp`, `Write`,
`Release` are `distributed_flight.ts` and the scripts of `distributed_lock.ts`;
`Hit`, `Miss` and the refresh ahead are `valkery.ts`; `Forget` is `delete`. A lock
is its owner token, and `"lost"` marks a token that was set and whose answer was
lost. Deadlines, leases and ttls are not measured: each may end at any moment, so
what holds here holds for all their values.

The constants of the runs that are more than a value (`FirstRefusedByMail`, `ByIndex`,
`TwoAndOne`) stand at the end of the module they are of.

`TriggerOutbox_proofs`, `ValkeryFlight_proofs`, `SearchOutbox_proofs`, `QueueDelivery_proofs`,
`Queues_proofs`, `CountingServices_proofs`, `WritingServices_proofs` and `MCServices_proofs`
hold the theorems (section 5).

### Queues, composed in `MCQueues`

| Module | State and actions |
|---|---|
| `SqsQueue` | a message is visible, hidden until its receipt lapses, or gone; loops of `startDraining` poll, gather over several receives of which one may throw and drop the others, run alone or in a group, delete, change the visibility by the back-off or file into the dead letter; what nothing can read (`unreadable`) is filed without a run; SQS files past `Redrive` receipts by itself |
| `PubSubQueue` | streams opened by each start, what they are handed and gather, `ack`, `nack` by the attempt, the dead letter, also of what nothing can read; publishes and acknowledgements whose answer is lost; a start still pending when a stop runs |
| `DelayedJobs` | `zadd`, `ZRANGEBYSCORE` of a batch, publishes under an idempotency key, `ZREM`; members that cannot be read |
| `QueueTopology` | two deployments read a stream and its consumers, add or raise, and remember what is ready or failed; the connection that keeps a rejected dial |
| `RunnerLoops` | loops of the three runners: the queue runner's carry a generation, the others look at a flag; a crashed loop comes back after a delay |
| `QueueDelivery` | above |

### Services, composed in `MCServices`

| Module | State and actions |
|---|---|
| `OneTimeCodes` | send, resend, verify of `otp.ts`: pending tokens, the counter of a challenge with its two Redis commands apart, the code GoTrue keeps per identifier; a token handed out without its row, a registration that raises |
| `SignIns` | `sign_in/runner.ts` and `devices.ts`: limit, credential, role, ban, trust, the token of the device, and what is revoked on the way out |
| `SignUp` | the three doors of `sign_up/runner.ts`: mint, stamp the role, account, declared row, device, and the undoing |
| `AccountAccess` | refresh and recovery of a session over its remembered answers, bans, sign-outs everywhere, kicks; a ban, a sign-out or a drop that is refused and not noticed |
| `DeviceCaches` | the list, the entry and the hardware of devices: read, put back, dropped; verify, register, origin, kick, kickAll |
| `Credentials` | changes of a password or an identifier by proof, reset or operator; the sessions GoTrue closes and the devices thrown out, by the table or by a list of it that was remembered (`tables`) |
| `PasswordReset` | the mark of what a texted code is for and its deletion, which Redis may refuse unseen; the pending token of a proof, with its row or without, the change it buys |
| `IndexedEntries` | role and identity caches, the set that names their entries, the mark of a revocation |
| `RateLimiter` | the script, time in half emission intervals |
| `StorageFiles` | upload, remove, clear over rows and two buckets |
| `Audiences`, `AudiencePages` | has, add, remove, ttl, clear under generations; the two listings with their raw reads |
| `DynamicLinks`, `LinkStatistics` | create, createMany, revoke, resolve, with answers of the table that are lost; the queue of visits, their insert by groups, pruning and pages |
| `RemoteConfigs` | set, ttl, delete, get; writes the table took and did not answer |
| `EventLog` | send, the flush of a tick, batches in flight |
| `RealtimeChannels` | the openness processes sync at boot, the policies, grant, revoke, revokeAll, listing; used twice, for the processes and for the requests |
| `RealtimeCatchUp` | transactions that log at their start, `get_realtime_ids`, the cleanup |
| `TriggerSources` | declarations by method, the sync of a boot, what the trigger logs and a drain matches |
| `CronSchedules` | what a schedule accepts, and the instants it names on a clock that steps; `InstantsOf` is the reference it is compared with |
| `SearchPages`, `SearchIndices` | pages and previews under a plan; digests, close, settings, open, mapping, row, sources, each call of the cluster taken and heard of apart |
| `ValkeryEntries` | keys of namespaces, entries with their dates, sweeps by pattern, the keys of workers |
| `HookChain` | inline chain, ceiling, re-entrance, background with its tries |
| `OwnedRows` | the guards a query is compiled with and the rows it then meets |
| `CronSlots` | above |

These services share no state with one another (what they do share, the cache, the locks,
the queues, is modelled where it belongs and external here), so the product of them would
only repeat the states of each. `MCServices` therefore takes one variable, `service`, that
is chosen in the initial state and never changes, and instantiates every module over the
same `v1`, `v2`, ...: a behaviour is a behaviour of one service of `Which`, and a run checks
them all. Seventeen of them are instantiated by the two modules that prove them,
`CountingServices_proofs` and `WritingServices_proofs`, which `MCServices` instantiates in turn
(`Counting!Codes!IInv`); it has their constants as its own, and gives those of the others
values. `MCQueues` does so for the queues, and has all of their constants as its own, with the assumptions of each as
`QueuesAssumption`: what is proved of it holds for every value of them. Names two queues
share share a `v`, since an instance takes a variable by its name. Modules that do share
state are composed inside one module: `SearchPages` has the drain, the cluster and the
cache; `AccountAccess` has sessions, bans, devices and their caches; `SignIns` has the door,
the device and its token.

**Variables that are not in the code.** They remember what a property compares, and decide
no step of the code: `copies`, `closings`, `acked`, `repeated` (TriggerOutbox); `asked`,
`raced`, `changes` (SearchOutbox); `succeeded`, `tried`, `handed`, `misread`, `lost`
(QueueDelivery); `claims`, `missed`, `spoiled` (CronSlots); `since`, `outdated`,
`forgotten`, the `late` flag of a value, `overran` (ValkeryFlight); in the services those a
module's declaration says a property or a reason is about: `excuse`, `taken`, `late`,
`lost`, `tainted`, `stale`, `spared`, `back`, `strays`, `orphans`, `mixed`, `stayed`, `met`,
`narrowed`, `raced`, `rekeyed`, `doubled`, `revived`. Counters named `...Faults`, `crashes`,
`changes`, `moves`, `begun` bound a behaviour.

Definitions commented as mutants of another state a plausible mistake in that code. They
are used by no behaviour; replacing the definition by its mutant makes the property named in
`PROJECT.json` fail. Where a module has more of them than that list, the others were found
to break one of its properties too and are kept as an alternative a change of the code
should be held against.

## 3. Runs

Six runs pass and six end in a violation on purpose: each of those states what a
comment of the repository says and shows the code doing otherwise (section 6).
`queue_silent_drop` and `cron_one_execution` are of `MCQueues` and `MCServices` with one
queue or service in `Which` and the faults set to none; `audience_features` and
`audience_pages` are of the modules themselves.

| Run | Instance | What it shows |
|---|---|---|
| `trigger_safety` | 2 replicas, 2 rows (one for two declarations, one for one with and one without a queue), batch of 1, marker of 1 unit, one death, one closing of the window | passes that overlap, die, lose answers and have their DELETE refused lose no change; the stream holds a second copy only if it forgot the first; the whole implements `ChangeDelivery` |
| `trigger_progress` | 2 replicas, 2 rows, the first refused by one declaration on every pass, batch of 2, fairness | every other declaration gets the change; the row behind leaves the table |
| `search_drains` | 3 documents (one of an index nobody declares), 2 drains, batch of 2, 2 refusals, 2 changes, one fault | whatever is refused, lost or left by a dead drain, a document out of the line is wrong only if it changed under a drain that held it; the line empties |
| `valkery_calls` | 3 calls, two of them on one replica, one change, one fault, fairness | one computes under the lock at a time; a joinable run is under way; nothing stale after a delete but what was computed before it; every call ends |
| `queues` | the six queue modules of section 2, one at a time | why a message may be dropped, filed early, filed though it succeeded, delivered after it was filed, run twice or forgotten; that loops follow start and stop; that a queue has the bounds it asked for |
| `services` | the 28 instances of `MCServices`, one at a time | what each service promises its callers, when calls race, fail, die half way or are tried again |
| `trigger_columns`, `search_lost_update`, `queue_silent_drop`, `cron_one_execution`, `audience_features`, `audience_pages` | as small as shows it, no fault in any | section 6 |

A property of `services` is named for what is promised and not for who promises it, and is
the conjunction of what each module states of itself: `AccessTakenIsRefused`, for one, is
`RevokedIsRefused` and `KickedIsRefused` of `AccountAccess`, `StaleOnlyPastTheIndex` of
`IndexedEntries`, `SpentIsGone` and `SweepsTakeTheirOwn` of `ValkeryEntries`,
`CheckedAsRecorded` and `EveryDeviceThrownOut` of `DeviceCaches`, `OldSessionsGo` of
`Credentials`. The comments of those definitions say what each means and what it excepts.

| Property | Of |
|---|---|
| `ChallengeAnsweredOnce` | a token spent once, a second session only past a resend that lost the row it was to replace |
| `NothingLeftHalf` | sessions without an owner (codes, sign-ins), half persons (sign-up), proofs left open (credentials) |
| `AccessTakenIsRefused` | as above |
| `OneChangePerProof` | resets |
| `LimitsHold` | the rate limiter; the guesses at one recipient |
| `StorageAgrees` | rows, bytes, clearing |
| `CachesTellTheTable` | memberships, links, configurations, devices, previews and pages against their tables; the walks over audiences and over visits; visits counted once |
| `EmissionsKept` | the event log |
| `NothingBehindARefusal` | hooks |
| `OccurrencesRunOnce` | scheduled jobs: one execution, overlaps, occurrences nobody ran, the instants of a schedule |
| `DeviceTokenKnown` | the token a client keeps after it signed in |
| `DeclaredChangesArrive` | triggers declared by differing deployments; indices, their rows and sources |
| `ChannelsHeardAsDeclared` | openness, grants and their listing, catching up |
| `RowsKeepTheirOwner` | an action property: no step of a query moves a row to or from another caller |
| `QueuesLoseNothing`, `PromotedOnce`, `LoopsFollowTheSwitch`, `QueuesGetWhatTheyAsked` | SQS and Pub/Sub; delayed jobs; runners; topology |
| `DroppedOnlyAfterTwoLosses`, `FiledAfterItsTries`, `SuccessFiledOnlyUnanswered`, `FiledForGood` | the life of a message |

Most of these read "... unless": what the code does not promise is in the model, under a name.
A race that leaves a cache stale until its ttl, a Result nobody looked at, a process that died
between two writes are steps of the modules; the property says that they, and nothing else,
are the ways the promise fails. An exception is recorded when its step is taken and only for
whom it touches, so that a property does not become void for the rest of the behaviour.

**Why these bounds.** Two replicas, calls or writers are all a marker, a lock, a claim, a row or
a cached entry can confuse: each of the safety properties speaks of a pair. A batch of one
row makes every pass leave work behind, and one of two puts a refused row in front of an
accepted one. A marker of one unit already lets a pass outlive it, be overtaken and come
back. `MinPasses` is 1 with `MaxAttempts` 2, so a row is refused, comes back and is given
up. Three calls are the fewest for one to run, one to join it and leave it, and one to lose
the lock on the other replica. One fault in each of the larger instances is enough to be
placed before, inside and after every call; two for `QueueDelivery`, because the properties
there compare what one loss and two losses may do. The listing of an audience has five
members and pages of two and three, the fewest for a page filled in the middle of a short
read; the rate limiter runs to 15 half intervals, in which a bucket of two is struck, freed
and struck again past its memory; the schedules of two kinds meet a clock that steps. The
devices are instantiated twice, once with every operation on one device and once with two
devices and the operations that throw out all: together they would only multiply. The two
catalogues of deployments (`TargetsOf`, `IndexOf`) hold one declaration of each kind of
difference the code compares.

**Deadlock.** It is checked wherever the system is always able to move: the trigger
and search runs. `CHECK_DEADLOCK FALSE` is stated where a behaviour really ends:
every message or call may have come to its end, the bounds of a service are used up,
and in `trigger_columns` the only row may be gone.

**Symmetry** is used for replicas in `trigger_safety` and for the pair of calls, messages or
writers (`Pair`) in `MCQueues` and `MCServices`, which have no liveness property that would
make it unsound; the action properties `FiledForGood` and `RowsKeepTheirOwner` treat all
members of the pair alike.

## 4. Fairness

- `TriggerOutbox`: the loops keep ticking and time passes (weak). What a loop asks
  for again on every tick, the claim, the read, the topology, a publish the stream
  does not refuse for its content, and the DELETE, answers some of the time
  (strong, over the fleet and not per replica, so one replica may be cut off for
  ever). The runner catches every error of a pass and sleeps until the next tick
  (`trigger_runner.ts`), so a call that fails is in fact asked again; strong
  fairness says that it does not fail each time it is asked.
- `SearchOutbox`: a drain that runs goes on and its job is fired again (weak,
  `sync/drain.ts` is a declared cron job). A bulk call that refuses each time is
  allowed.
- `ValkeryFlight`: weak, one condition per call: its replica goes on with the run it
  started, and its timers fire (`Leave`, `GiveUp`). A refresh ahead, an expiry and the
  end of a lease are given no fairness at all: a call must not depend on them.
- The queues and services state no liveness. Whether a message ends depends on a server that
  is not in the repository, an occurrence is allowed to be skipped, and the calls of the
  services end when what they wait for answers, which the code does not bound. What must be
  so when everything is over is stated of the states in which everything is
  (`NobodyLeftHalf`, `EmissionsKept`, `RowsAndBytesAgree`).

## 5. What is proved

`TriggerOutbox_proofs` proves, for every set of replicas, rows and declarations,
every batch size, marker life and bound, from `ConstantsAssumption` alone (rows are
naturals and finitely many, the stand-in for "no field" is no field, the functions
have their types, batch and marker are positive):

| Theorem | Says |
|---|---|
| `TypeCorrect` | `Spec => []TypeOK` |
| `DrainsOverlapOnlyPastTheMarker` | two passes at once: one has outlived its marker |
| `OneCopyUntilTheWindowCloses` | one copy in the stream until the window forgets it |
| `NoCommittedChangeIsLost` | a row leaves only after each declaration with a queue was reached |
| `ADeclarationIsHandedAChangeOnce` | a process does not publish again what it knows stored, unless its DELETE was refused |
| `DrainDeliversChanges` | `Spec => DeliversChanges`: the drain implements `ChangeDelivery` |

The argument. `NoChangeLost` says something of a row that is gone, and a step that
deletes rows sees only the set `published` of the pass. So the invariant follows a
row backwards through the pass: `LeavingInv` says of a row that may leave that
everyone it is owed to was reached; it comes from `TriedInv`, which says of the row
under way that whoever was tried was reached unless one refused; that in turn needs
`RememberedInv` for the declarations skipped because they are remembered, and
`PassInv` and `UnderWay` to know that what is left to try belongs to the oldest row
of the batch and that the rows are committed ones. `NoChangeLost` itself is then
preserved because copies only grow. The overlap of passes needs `MarkerInv`: a pass
younger than the marker is the one the marker was set for, so the marker's age and
the pass's age add up to its life, and a second claim finds the marker still there.
`WindowInv` counts a copy by the window that remembers it or has forgotten it, and
`HandedInv` ties what a process knows stored to its memory, to the rows about to
leave, or to rows that are gone. Each part is a lemma with one step per action.
For the refinement, `waiting` is the table and `reached` the pairs a copy exists of. A
commit is a `Write`; a publish that is stored, answered or not, is a `Reach` of what the row
under way owes (`StoredIsOwed`, from `PassInv`), and adds that pair only
(`StoreReachesOne`); a DELETE that goes through is a `Leave` by `LeavingInv`; every other
step stutters.

`ValkeryFlight_proofs` proves, from `FlightAssumption` alone (each call is made on a
replica, the bounds are naturals, "none" is neither a call nor a token), for any number
of calls, replicas, changes and faults:

| Theorem | Says |
|---|---|
| `TypeCorrect` | `Spec => []TypeOK` |
| `OneComputesUnderTheLock` | of two that compute under the lock, one has outlived its lease |
| `JoinedWhileRunning` | the run calls are joined to is under way, and one under way is registered or was replaced |
| `NothingStaleAfterARemoval` | nothing older than the last removal is answered afterwards, but what was computed before and written after it |

Here type correctness needs company: that a refresh is not started while the same call
has one under way follows only from `RunInv` (a run is under way exactly while its call
is its own, a refresh only once the call has ended), so the two are proved together.
`AloneUnderTheLock` speaks of pairs, and is not inductive; `LockInv` is: whoever was told
it has the lock and is within its lease is the owner of the key. A release compares the
owner, so it takes the key from nobody else, and an acquisition finds no owner, so nobody
is within a lease. `FlightInv` adds to `RegisteredWhileRunning` that a replica registers
its own runs only, without which a run that answers could be left registered elsewhere.
`FreshInv` follows the value: what a run holds is late or no older than the last removal,
since a removal makes late what is older and the origin only grows past what was removed;
the entry, and what a call is answered, is one of these values.

`SearchOutbox_proofs` proves, from `SearchAssumption` alone (declared indexes are indexes of
documents; batch, attempts and passes are positive), for any documents, indexes and drains:

| Theorem | Says |
|---|---|
| `TypeCorrect` | `Spec => []TypeOK` |
| `HeldAsWanted` | what a drain counts as taken is in the cluster as it should be, unless it raced |
| `LostOnlyByARace` | a document out of the line and wrong was asked for while a drain held its row |

`OnlyARaceLosesAChange` speaks of documents that left the line; the step that takes them out
sees what the drain holds as `handled`. So the invariant follows a document through a pass:
the line and every batch carry the operation last asked for (`LineAsAsked`, `HeldAsAsked`),
what was read is what the tables still hold (`ReadIsCurrent`), and what was handled is what
is wanted (`HandledIsIndexed`), each but for the documents that raced. A change that comes in
between either finds nobody holding the row, and then no part says anything of it, or makes
it race. Two drains that hold one row keep each other's parts because both write what is
wanted.

`QueueDelivery_proofs` proves, from `QueueAssumption` alone (finitely many queues, positive
retries), for any messages, queues, replicas, declarations and faults, the type invariant and
the four properties of the life of a message, from `AccountedFor`:

- every delivery is tried, handed back, lost, in hand, or the last of a message that ended
  (`Accounted`), and numbered once (`Numbered`, `Staged`, `HeldIsLast`);
- a delivery in hand keeps the server waiting unless one was lost (`NoneLost`), which makes
  `SuccessFiledOnlyUnanswered` and `FiledForGood` inductive;
- the note of the hand-backs counts them but for those misread (`NotedAsHanded`), so a
  message is weighed by its tries: `SpentAfterItsTries`, and for those that went back
  `WeighedBack`, from which `DroppedOnlyAfterTwoLosses` follows by counting: of `MaxDeliver`
  deliveries, one more than any policy tries, at least two were not tries.

A finite set of naturals has a maximum (`FiniteHasMax`) is proved there as well, since
`max_deliver` is one. The attempt to prove `FiledAfterItsTries` found it false for policies of
three tries and more, which the run is too small for: when the late answer to a first
delivery frees the message while a second is still in hand, a third is made, weighed as the
third try and filed, and the second was never tried. A delivery overtaken by the next is now
`lost`, which is what the exception of the property means, and the property is proved.

`Queues_proofs` proves, from `QueuesAssumption`, which is the assumption of each module, for
every queue of `Which` and every value of the constants of all six, that the inductive
invariants hold (`QueuesKeptInOrder`), and from them each safety property of the run `queues`:

| Theorem | Property | Inductive invariant |
|---|---|---|
| `QueuesTyped` | `TypeOK` | those below, each with its own `TypeOK` |
| `NothingLeavesUnhandled` | `QueuesLoseNothing` | SQS: one holder per message none of whose receipts came to nothing, hidden meanwhile (`HeldOnce`); its receipts are its failed runs and the one under way, if it can be read (`RunsCounted`), and a handler is given nothing that cannot (`RunsAreReadable`); while no call failed a copy in the dead letter takes the message with it (`FiledOnce`). Pub/Sub: while every stop saw the streams there were, at most one of them is opening or open, and it is the known one (`StreamsSeen`) |
| `DelayedPromoted` | `PromotedOnce` | what a pass read was due, what it published is on its queue (`Reading`); a copy's key is remembered or was forgotten (`Remembering`); the count needs that a `ZREM` counts a job once, by the set of those `Gone` |
| `OneLoopEach` | `LoopsFollowTheSwitch` | loops are numbered by the starts (`Numbered`); with generations, one stands of each and none of one about to come back (`ByGeneration`); with the flag, what each gap leaves (`ByTheFlag`) |
| `ProvisionedAsAsked` | `QueuesGetWhatTheyAsked` | a provisioning that passed an item left it what its plan grants, and what it read of the item under way is no more than what is there, but for a race (`EachInOrder`); what is remembered is one's own (`OwnRemembered`). That the plan grants what each queue asked is a fact of `planFor`: a maximum, and a count of slots |
| `OneLossIsPaidFor`, `FiledOnlyAfterItsTries`, `SuccessIsNotFiled`, `FilingEnds` | those of a message | `QueueDelivery_proofs`, through its instance |

The concurrency a consumer must allow is written as the number of slots of its queues
(`Slots`) and not as a sum, since what a recursive sum computes for every set cannot be proved
here (below). Each of these invariants was first checked by TLC on the instance of `queues`.

`MCServices_proofs` proves, from `ServicesAssumption`, which is the
assumption of each module, for every service of `Which` and every value of the constants of
the seventeen, that the inductive invariants hold (`ServicesKept`), and from them twelve of
the fifteen properties of the run `services`. It is the composition alone, and cites the lemmas
of two modules: `CountingServices_proofs` has the eight services that count (guesses, hits, pages
of rows, grants, changes, slots and instants), whose proofs need least and greatest numbers and
cardinalities, `WritingServices_proofs` the nine that write in several places. They are apart because what a
proof costs grows with the instances that are in scope. For each service there is a lemma
per action, one that the start satisfies the invariant (`...Starts`), one that a step keeps
it (`...Steps`), one that the properties follow (`...Kept`).

| Theorem | Property | Inductive invariants, `IInv` of the modules |
|---|---|---|
| `TokensSpentOnce` | `ChallengeAnsweredOnce` | `OneTimeCodes`: a call is where its kind goes (`Placed`); the guesses at a token are those its counter let through (`Counted`); a token whose row a resend deleted is not spent, then or later (`ReplacedUnspent`), which makes a second session one past a lost replacement |
| `NobodyIsLeftHalf` | `NothingLeftHalf` | who has a session open at GoTrue is on the way to answer or to revoke it, or raised or lost an answer on that way (`Held` of `OneTimeCodes`, `Owned` of `SignIns`); `SignUp`: while no two sign-ups met and nothing was stranded, the user is that of every call on it, the account that of who wrote it, and another role is of a call about to be refused (`Held`, `Stamped`, `Written`); `Credentials`: a proof is closed once its change is over (`Closed`) |
| `ProofsChangeOnce` | `OneChangePerProof` | `PasswordReset`: a code is sent for a mark and goes with its proof (`ProofsBought`), who takes the row of a token is alone with it (`TokensTaken`), a mark is gone once one who read it deleted one, which Redis took (`MarksRead`) |
| `LimitsAreKept` | `LimitsHold` | `RateLimiter`: the arrival is an interval later than a hit for each hit since (`Paced`), from which the limit of every window is arithmetic; the strikes are those of the last block (`Remembered`). `SignIns`: a guess is counted, about to be, or lost to a fault (`Counted`) |
| `RowsAgreeWithBytes` | `StorageAgrees` | `StorageFiles`: a call that is alone on a path has changed of row and bytes what its step says (`Followed`); what nobody touched is gone as far as the clearing has read (`Swept`); it reads further with each page (`Advancing`) |
| `EmissionsOnce` | `EmissionsKept` | `EventLog`: an emission is in one place (`Placed`), once (`Single`), waits with a flush to come (`Queued`), and has before it what was answered before it was sent (`Ordered`) |
| `RefusalsLeaveNothing` | `NothingBehindARefusal` | `HookChain`: a chain goes on past acceptances alone (`Followed`), a try calls the handlers in order, once each (`Worked`) |
| `TokenIsKnown` | `DeviceTokenKnown` | `SignIns`: a token is in the row, a stray, or of a device that was removed (`Minted`) |
| `RowsStay` | `RowsKeepTheirOwner` | `OwnedRows`: a compiled query is narrowed to its caller unless the table was open to it (`Narrowed`) |
| `OccurrencesRun` | `OccurrencesRunOnce` | `CronSlots`: a replica starts an occurrence once (`Started`), a marker outlives the time its occurrence is current (`Marking`), what a replica moved past was claimed, missed or touched by a fault, or is about to be claimed (`Walked`). `CronSchedules`: between its anchor and its next run a job has no instant it did not take or sleep through (`Spent`, `Met`) |
| `DeclaredArrive` | `DeclaredChangesArrive` | `TriggerSources`: what a process wrote is there, under its key (`Wrote`), an event of the outbox is of a change nobody drained and owed what was declared of it (`Pending`). `SearchIndices`: one boot at a time, the index holds the fields of its row (`Covers`), who closed it and heard so is about to open it (`Closed`), and drops what was listed and is declared no more (`Listing`) |
| `ChannelsHeard` | `ChannelsHeardAsDeclared` | `RealtimeChannels`: while no sync was refused and the processes that booted declare one openness or none, the row is absent or that one, and it is that one behind whoever is up (`Synced`); a grant is as it was answered, or the request that touches it alone is about to make it so (`Asked`, `Settling`); a listing has met whoever stayed up to the last it answered, which rests on what the lowest numbers of a set are (`Walking`). `RealtimeCatchUp`: past the cursor the changes of a row follow their numbers in their dates, and the cleaning does (`Ordered`), so that the last that is told of says whether there is the row (`LastTells`) |

`RowsStay` is an action property, proved from the step of the composition and not from its states.
`OldSessionsGo` of `Credentials`, a part of `AccessTakenIsRefused`, is proved as a lemma
(`CredentialKept`).

Three of these modules were wrong for some constants, which the instances were too small to show
and the attempt to prove did. `CronSlots` excused an occurrence that every replica missed, and
forgot the replica that was already past it when it started (`Ahead`). `TriggerSources` claimed
that a body is always handed the row under the key its declaration names; a change that was logged
before another process re-keyed the table keeps the older one. The module now remembers what was
`rekeyed`, and the instance has a deployment that re-keys a table. An exception, for tables that
two processes declare differently, turned out to be needed by neither of its properties and is
gone. `RealtimeCatchUp` forgot every row it had lost when a client reads all of them anew; a row whose last
change was dated behind an earlier one, both within the lag, is lost to it again, which takes a lag
of three units and a horizon of nine to show. In `OwnedRows` a query that inserts now carries the owner
it was compiled for, which its property used to guess from the payload.

Where a proof needs an induction over numbers it takes the least or the greatest of a set of them
(`LeastNumber`, `GreatestNumber`). Doubling is the function `Power`, of which the proof needs its
two equations; the grid of an interval is arithmetic over `%` and `\div`.

**Only model-checked.**

- Liveness (`EveryDeclarationEventuallyReached`, `EveryAcceptedRowLeaves`, `LineEmpties`,
  `EveryCallEnds`), fairness and ENABLED: out of the prover's reach.
- Of the run `services`: `TypeOK`, since it is that of all twenty-eight instances (the seventeen
  that are proved have what they need of theirs in `ServicesKept`), and the two properties of the
  other eleven, `AccessTakenIsRefused` and `CachesTellTheTable`. Of
  the constants of those eleven `MCServices` gives values, so a theorem would be of that
  instance.
- What a recursive definition computes for every input: the induction theorems take an
  operator no backend here can instantiate. Where a proof needed induction over sets of
  naturals or finite sets it takes a smallest counterexample instead (`WFMin` with the
  well-foundedness of strict inclusion on finite sets).

## 6. Where the code and its comments disagree

Six runs show it:

- **`trigger_columns`.** A declaration that watches two columns is promised a delivery
  per column (`foundation/lib/src/trigger/trigger_match.ts:54-55`,
  `trigger.ts:170`). The memory of who took a row is by declaration name
  (`trigger_runner.ts:154-160`), so the second column is skipped and the row deleted.
- **`search_lost_update`.** A row stays until the cluster acknowledged it
  (`search/lib/src/db/outbox.ts:92-93`). `settle` deletes by index and id (`:113`), so a
  change queued between the read of the tables and the settling leaves with the old
  one.
- **`queue_silent_drop`.** `max_deliver` is meant to outlast the policy
  (`queue/topology/topology_plan.ts:83-87`). Hand-backs count as deliveries for the
  server and not as tries for the policy, so two of them and the failures of a body
  end in a drop with no dead letter.
- **`cron_one_execution`.** "The three guards that keep one occurrence to one
  execution" (`cron/cron_runner.ts:65-66`): a replica that wakes after the marker
  has expired still takes the occurrence it was waiting for.
- **`audience_features`.** "`feature` already keeps their rows, and their cache entries,
  apart" (`audience/lib/src/core/declaration.ts:192-193`): the key of a cached membership
  (`runtime/valkery.ts:137`) has no feature in it.
- **`audience_pages`.** A cursor is null "once nothing more follows"
  (`audience/lib/src/db/members.ts:95`): a page that fills before the end of a short read
  answers null with live members left in that read (`:229-233`).

Seen while modelling. Each is a step or an exception of the module named, so that the
passing runs hold with it:

- *A Result read as a boolean.* `database/wrote.ts:43-46` warns that a `Result` is always
  truthy. `auth/.../declaration/account.ts:348,358`, `devices/repository.ts:123,151`,
  `dynamic_links/.../db/statistics.ts:79`, and `dropValue` of the remote configurations do
  so: a refused write is answered Ok (`SignUp`, `SignIns`, `LinkStatistics`,
  `RemoteConfigs`). So do `bans.ts:129-130`, where the ban there was is deleted, the new one
  refused, and the door said to be shut stands open, though `BanError.Backend` is for a
  refused write (`AccountAccess`), and `pending_token.ts:116-121`, which hands out a token
  without a row where its comment (`:104-107`) has null (`OneTimeCodes`, `PasswordReset`).
  The syncs of trigger sources, search indices and realtime channels look at no result at
  all (`TriggerSources`, `SearchIndices`, `RealtimeChannels`).
- *Keys built in one place.* `valkery/key_space.ts` says that every key is built there so that
  two caches do not collide; the keys of workers are joined by colons in `capability.ts` and
  their prefix delete does not escape its pattern (`ValkeryEntries`).
- *Pages.* `core/search_index.ts` sorts every array of scalars for the key of a page, so a
  pair of coordinates and its reverse share one; the digest of an index does the same to the
  filters of an analysis, whose order counts (`SearchPages`, `SearchIndices`). A process that
  dies between close and open leaves the index closed, and one whose digest matches never
  opens it.
- *One computes.* `valkery.ts:168-170` says that of those that miss together one
  computes and the others read what it wrote; a replica that gets the lock after it
  was released does not look at the entry again (`distributed_flight.ts:103-110`).
- *Connections.* `topology.ts:51-58` says that memoizing a failure would condemn the process;
  `nats_connection.ts:43,142-148` keeps a rejected dial. Bounds are "only ever raised"
  (`topology_provisioner.ts:88`): by a replica whose read is stale they may be lowered
  (`QueueTopology`). `pushMany` of the NATS backend is not all or none, though
  `queue/queue.ts:95-99` says so: some may be stored when it answers a failure.
- *Every session goes.* `auth/lib/src/password.ts` says so of a reset, which makes no global
  sign-out: an old session whose device signs in again is refreshed again (`Credentials`).
- *The index never outlives the entries.* `redis/key_index.ts`: its expiry is re-armed to the
  lifetime of the last name, which may be the shortest (`IndexedEntries`).
- *Without signing in again.* The trust of a device (`devices/devices.ts:47`) is renewed by
  any request that records its origin (`SignIns`).
- *Order of rows.* Batches of one burst of emissions commit in either order (`EventLog`);
  changes are read by the start of their transactions, and one open longer than the lag of
  five seconds is skipped (`RealtimeCatchUp`). A refused delete of a grant is answered like
  none (`RealtimeChannels`).
- *Undoing.* A second social sign-up of an existing account whose role cannot be stamped
  undoes the account it did not create (`SignUp`).
- *Used once.* A mark is deleted "so a second verification cannot reuse it"
  (`auth/lib/src/sms_intent.ts:55`); the store it is deleted through swallows a refused `UNLINK`
  (`redis_valkery_store.ts:130-136,172-183`), and the mark serves another code
  (`PasswordReset`).
- *Nobody holds the session.* `otp.ts:307-320` revokes the session of a verification whose row
  or device it could not write; a device that cannot be looked up raises out of the
  `Promise.all`, and the session stays open with nobody to answer it to (`OneTimeCodes`).
- *Any size.* A folder "of any size empties" (`storage/lib/src/core/storage.ts:236-239`), since
  a page reports the last path answered, "kept or not" (`db/objects.ts:131,148-150`).
  `objectsUnder` reports the last it kept (`:177-181`), so a full page of a neighbour's rows
  reports none and `clear` reads the same page until those rows are gone (`StorageFiles`).
- *Closed and left.* `search/.../transport/opensearch.ts:109` closes an index before the `try`
  whose `finally` opens it: a close the cluster took and did not answer leaves the index closed
  (`SearchIndices`).
- *An answer that is lost.* A write the table took and did not answer is a failure to the code,
  which returns before it drops the cached row (`dynamic_links/.../declaration.ts:372-375`,
  `remote_configs/.../declaration.ts:202-209`): the cache tells of a link that was revoked, or a
  value that was replaced, until the entry expires (`DynamicLinks`, `RemoteConfigs`).
- *Gathered and thrown away.* `#receive` of the SQS backend (`sqs_queue_backend.ts:487-513`)
  receives several times; when a later receive throws, the messages of the earlier ones are
  dropped with their receipts counted, so one may be filed before its tries (`SqsQueue`).

## 7. Abstractions

- *Trigger outbox*: a delivery refused for what it carries is the constant `Refused`.
- *Search*: a document is the version or the place of its row. The time budget of an
  occurrence may be over after any pass past `MinPasses`. The building of query bodies and
  mappings is left out: a plan is what it asks for.
- *Queues*: back-off durations, `max_ack_pending`; a hand-back's delay is over at any time. A
  body agrees or refuses. The subjects of queues are distinct names.
- *Cron*: in `CronSlots` an occurrence is an instant and clocks differ by a constant; in
  `CronSchedules` a day is a few units, and the calendar of croner is a set of times of day.
- *Valkery*: the draw of an early refresh may come out either way. A call's own deadline
  belongs to the port that wraps it. Names are short sequences of the characters that matter
  to a separator, an escape or a pattern.
- *Auth*: GoTrue is external. It keeps one code per identifier and one session per token
  family; what it refuses and what it answers late is nondeterministic. Limits that only
  guard a door and share nothing with it are `RateLimiter`.
- *Caches of a service* are Redis entries that answer, miss or fail; their ttl may be over at
  any moment. Namespaces, serialisation and jitter are `ValkeryEntries`.
- *Storage*: what a media kind accepts and the image work on bytes are left out; the bytes of a
  path are the writer they came from.
- *Dynamic links*: a slug is a draw from a small alphabet; a destination is not resolved.

**Not modelled.** HTTP, lifecycle, observation and settings (`foundation/lib/src/http`,
`lifecycle`, `observe`): wiring and logging without state of its own. Deployment scripts, the
release tooling and the workflows: shell against services outside the repository. Media
decoding of storage (`media/`): pure computation over pixels. Mappings, projections and query
bodies of search, filters and payloads of the query builder, protocol codecs: pure translation
from one shape to another, where a property would repeat the code. The tests of the packages.
Of the hazards, a batch of rows that are all refused at the head of the trigger table
(`trigger_claim.ts:46`) is stated and not run, since then nothing is promised.

## 8. Plan

1. **Proofs** of the eleven services that are left: the constants of `IndexedEntries`,
   `RemoteConfigs` and `AccountAccess` become those of `MCServices`, then an inductive
   invariant for each as above.
2. **Abstract specifications** of a message that ends once (for `QueueDelivery`, `SqsQueue` and
   `PubSubQueue` alike), and of a cache in front of a table (for the four services that have
   one).
3. **Operations left**: the sweep of expired bans, the reaping of memberships, images of storage,
   the registries of declarations of the packages.
