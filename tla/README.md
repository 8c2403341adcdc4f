# Foundation archive: TLA+ models and proofs

This directory holds a formal model of the concurrent parts of the Foundation
archive: the Postgres job queue and the processes that work on it, their cycles,
heartbeats and locks; the ingestion of works, the backup of their roots, the files
and pins below it and the files a work depends on; the gateway that serves them and
the devices and hosts that keep copies; the market indexer with the pages that show
and end its listings; the discovery and crawling of contracts and the profiles of
artists; and what browsers see: the snapshot cache, the live feed and its board, the
lists that readers scroll through, and the owner's page of a linked desktop. TLC
checks the modules on small instances; TLAPS proves the most important results for
every value of the constants. `PROJECT.json` lists the components, the runs, the line
ranges each definition stands for, the hazards, the findings and the theorems.

To repeat a check: `tlc -workers 2 -config MCArchiveQueue_liveness.cfg MCArchiveQueue.tla`
(and likewise for the other `.cfg` files); to repeat a proof: `tlapm ArchiveQueueProofs.tla`.

## 1. The system

Several Node processes share one Postgres database and nothing else:

* the **web process** (Next.js): pages, tRPC routers, `/api/internal/process-jobs`,
  the `/ipfs` gateway, the recovery route of the live page with its watchdog;
* the **worker daemon** (`scripts/worker.ts`) and the script `process-queue.ts`;
* the **socket server** (`scripts/socket-server.ts`), which also runs an embedded
  worker loop, the live feed and the sockets of the desktop relay.

Beside them run a Kubo node, a Rust archiver that downloads into the same storage
directories, maintenance scripts, browser tabs, and desktop apps on the computers of
users.

Any of the Node processes may run a worker cycle at any time. Postgres is used at
its default isolation level and, outside a few transactions, one statement at a
time, so all coordination is in the `where` clauses of single statements, in unique
keys and in two advisory locks. That is where the difficult behaviour is, and the
models take one statement, one file operation or one remote call as one step for
this reason.

### Inventory

Components, with their state, operations, interactions, hard behaviour and what
makes them correct. (M) marks what is modelled, (P) what is modelled in part;
`PROJECT.json` says which part.

| Component | State | Operations and interactions | What is hard | Correct when |
|---|---|---|---|---|
| Queue processing (P) `jobs/queue-state.ts`, `processor.ts` | `QueueJob` rows | recover stale, select, claim, run, finalise as success, deferral or failure; any process | interleaved claims, kills between claim and outcome, executions longer than the stale limit | one owner per claim, attempts bounded, no row RUNNING for ever |
| Queue requests (P) `jobs/queue.ts` | the same rows; a lookup in memory | `queueArtworkBackup`: lookup, then create, update or requeue; called from routers, crawlers, rebalancer | write by id after an old lookup | the request ends in an active job that is urgent enough |
| Queue rebalancer (M) `jobs/queue.ts` | lists fetched earlier | park over-budget jobs, park repairs, trim, refill; each cycle | decisions on outdated lists, budget arithmetic | the ready automatic queue fits the budget |
| Smart-pin budget (P) `automation/policy.ts`, `smart-budget.ts` | policy row, tier, root sizes | select by rank and tier; advance the tier when its roots are done | unknown sizes hold later tiers back; requeue of deferred artworks | each root is eventually within a tier |
| Root and artwork backup (P) `jobs/backup.ts`, `dependencies.ts` | `IpfsRoot`, `Artwork` status columns; manifest of a root | skip, defer, download, verify, follow references, pin, sync every artwork of the root | two artworks sharing a root, decisions on a loaded copy, a failure after each call; files found again by another way | no status claims more than there is; content is kept; every file within reach is followed |
| Storage and IPFS (P) `storage.ts`, `ipfs.ts` | files on hot and cold storage, Kubo, an in-process semaphore | download through gateways or the Rust archiver, copy, pin by CID or upload, discard | two programs on one path, torn copies, hand-over of a slot | a saved file is whole; no waiter is forgotten |
| Rust archiver (P) `rust-archiver/src/main.rs` | in-flight keys, recent results, the same files | download a file, copy it to cold storage | callers that hang up, kills | the same |
| Gateway and CID caching (P) `app/ipfs`, `cid-index.ts` | cold storage, Kubo, `IpfsCidIndex` rows | serve a file from the first source that has it; search by CID | files moved between sources while they are read; rows deleted and rewritten | what the archive has is served and found |
| Worker cycle and ingress lock (M) `worker.ts` | heartbeat rows, advisory lock | process, ingress cycle under the lock, process | the lock's transaction times out after ten minutes, the callback carries on | who works is shown; locks come free |
| Watchdog (M) `watchdog.ts` | latest heartbeat, session lock | recover all RUNNING rows if the heartbeat is old, then a cycle of its own | only the latest beat of all workers is read | what users ask for is settled, and no job stays RUNNING, without the daemon |
| Snapshot cache (M) `lib/ttl-swr-cache.ts` | entry and in-flight fetch per key | get: hit, stale hit with refresh, miss | overlapping fetches, failures of a refresh nobody awaits | answers in order, one fetch at a time |
| Live events and feed (P) `live-events.ts`, `socket-server.ts`, `archive-live-board` | LISTEN connection, sockets; in a tab one socket, staged events, a refresh timer | record, notify, broadcast, heartbeat, reconnect; stage and surface, poll for recovery, refresh a profile | lost notifications, lost connections, overlapping broadcasts, late answers | browsers never go back and end up with the last state |
| Desktop relay (P) `relay/service.ts`, `socket-server.ts` | devices, pairings, relay jobs, device sockets | pair, enqueue, claim on poll or socket, report, remove, disconnect | delivery to a dead socket, claim against removal | a job is handed to its device at most once, a code links one device |
| Owner console (P) `desktop-bridge-provider`, `desktop-status-console` | the device list of a page; the app on the same computer with its config and the draft of it; a one-time link | snapshots of the socket, a refresh every 15 s, wait for a relay job, removal; probe, load, save, reload and link of the local app | lists and probes that overtake each other, jobs that never end, links that expire | the page ends up with the truth, every action with an outcome |
| Tunnels (M) `relay/tunnel-service.ts`, `cloudflare/api.ts` | remote tunnel, DNS records, device columns | provision, revoke | failure between two remote calls, overlapping requests | an enabled row leads to a tunnel that works |
| Relay pin routing (P) `relay/pin-routing.ts` | routes per device and CID with their failures | replace an inventory row by row, cool routes that fail | two inventories of one device under row locks | the routes are what the last inventory listed |
| Pin hosts (P) `pin-hosts/service.ts`, `archive-save-manager.tsx`, `desktop-save-routing.ts` | host rows, `HostedPin` rows, the menu of a page | list, upsert, remove, pin a work on every host; save to the desktop app | a call that fails between two rows, edits meanwhile, two saves of one root | nothing is shown as saved that no service has accepted |
| Market indexer (M) `foundation-market/indexer.ts` | state row with checkpoint, event log, auctions, buy prices | scan a window, log, project, advance | broken windows replayed over later state, two ticks at once | no event skipped, tables equal to one clean pass |
| Market pages (P) `web3/*`, `foundation-market/queries.ts` | listings shown and stored, the list of a profile's panel | show, buy, bid, end, list; cancel all listings one by one | the database lags behind the chain, two writers of a row | a stored listing is one on the chain |
| Contract discovery and crawler (P) `automation/*` | cursors, crawler rows | pages of an API, block scans, checkpoints | pages that fail, rows switched to the other mode meanwhile, few slots | a checkpoint claims only what was scanned; every page and block in reach is scanned |
| Ingestion of a work (P) `jobs/ingest*.ts`, `contract-upserts.ts` | `Artwork` row, links to roots, statuses | upserts by discovery, by token and by page, requests, backups | three writers of one row, statuses derived from an older read | the work ends up saved and shown as saved |
| Profile assets (P) `profile-assets.ts`, `backfill-profile-assets.ts` | profile and asset rows, files, a checkpoint file | look a profile up, download its pictures; backfill of all artists | kills, torn files, two runs, answers that fail | no artist is passed over |
| Web pages (P) `archive-browser.tsx`, `_data.ts`, `profile/[profile]` | what a mounted list has shown, its cursor and pauses | autoload, click, pause, filter, refresh | the table moves while it is read; requests fail | no work before the cursor is missing |
| Maintenance scripts (P) | pins, checkpoint file | move cold storage into Kubo, complete directories, backfill | kills, running beside the worker | readers notice nothing |
| Other routes, presentation, deployment | - | wrappers, I/O, layout | - | - |

## 2. Modules

```
JobLifecycle             what the queue promises of a job (abstract)
QueueRows                the rows of the QueueJob table and what each statement makes of one
  ArchiveQueue           workers and callers over the table, one action per statement
    ArchiveQueueLifecycle    ... implements JobLifecycle (refinement mapping)
    QueueRebalancer      the same, composed with rebalanceAutomaticBackupQueue
      ArchiveQueueProofs     of ArchiveQueue, its life cycle and QueueRebalancer
WorkerCycle              daemons, recovery calls, heartbeats and the two advisory locks
  WorkerCycleProofs
ContractCrawler          discovery ticks and crawler ticks
  ContractCrawlerProofs
ArtworkIngest            the ways into the archive of one work, with its requests and backups
MarketIndexer            the checkpointed scan of one market contract
  MarketIndexerProofs
MarketPages              pages of works and the panel that ends all listings of an artist
ProfileAssets            profiles archived by a backfill script and by ingests
ArchiveBrowsing          a reader who scrolls through the archive or a profile
Dependencies             the files a root refers to, its manifest and the CID index
  CatalogueProofs        of MarketPages, ProfileAssets, ArchiveBrowsing, Dependencies
RootBackup               roots, artworks, executions and the smart-pin tier
ArchiveFiles             one file in hot and cold storage, in Node and in Rust
PinSlots                 makeSemaphore
IpfsGateway              the /ipfs route, moves into Kubo, hydration, routes to devices
  StorageProofs          of RootBackup, ArchiveFiles, PinSlots and IpfsGateway
TtlSwrCache              one key of createTtlSwrCache
  LiveFeed               the socket server's feed, whose broadcasts call the cache
LiveBoard                a tab: its socket, the live board, the page of an artist
  TtlSwrCacheProofs      of TtlSwrCache, LiveFeed and LiveBoard
OwnerConsole             the device list of an owner's page and its actions
  LocalBridge            ... composed with the desktop app on the same computer
RelayJobs                the jobs and the connections of one desktop device
DesktopDevices           pairing codes, devices and their tunnels
SaveTargets              works pinned on hosts of a visitor and taken by the desktop app
  RelayJobsProofs        of RelayJobs, DesktopDevices and SaveTargets
MCArchiveQueue, MCLiveFeed, MCOwnerConsole, MCRelayJobs, MCRootBackup, MCWorkerCycle
                         instances for TLC of one module; MCWorkerCycle watches a daemon
MCQueueAndPages = ArchiveQueue alone, QueueRebalancer and ArchiveBrowsing
MCCatalogue     = MarketIndexer, MarketPages, Dependencies and ProfileAssets
MCIngress       = WorkerCycle, ContractCrawler and ArtworkIngest
MCStorage       = MCRootBackup, ArchiveFiles and PinSlots
MCSocketServer  = LiveFeed and LiveBoard
MCRelay         = MCRelayJobs, DesktopDevices, SaveTargets and IpfsGateway
```

Indentation means EXTENDS. The last six put parts of one subsystem that share no
state beside each other: a behaviour is about one part (`part`, or in MCStorage the
worlds that are not quiet) while the others rest and have nothing to do, so each is
checked in full without the product of their state spaces. Where parts do share state
they are composed for real: the rebalancer and its refills with the queue, the
broadcasts of the feed with the cache, the page with the app beside it.

Many modules have a variable that never changes (`world`, `cast`, `setup`, `setting`,
`scene`, `ledger`, `catalogue`, `market`, `web`, `circle`, `plan`, `site`, `browser`,
`reading`). It is chosen in the initial state from a constant set of worlds, each with
the processes that take part, the configuration and its own bounds, so that one run
covers several small instances.

### JobLifecycle, QueueRows, ArchiveQueue, ArchiveQueueLifecycle

`row[k]` is the `QueueJob` row of kind BACKUP_ARTWORK with dedupe key `k`, or an
absent row. `id` distinguishes a row from the ones that were deleted and created
again under the same key: each creation takes the next number. `ready` is
`availableAt <= now`, `stale` is `startedAt` older than `STALE_RUNNING_JOB_MS`; time
passes in `BecomeAvailable` and `GoStale`. Priorities are the two that requests for
these jobs carry, `BACKUP_PRIORITY` for automatic and `PUBLIC_QUEUE_PRIORITY` for public
ones.

A worker goes through `processQueuedJobs`: `BeginPass` reads the stale rows,
`ApplyRecovery` writes them one by one, `SelectJobs` chooses a batch (public jobs
first; among automatic ones any choice, for the ranking by budget is not modelled),
`MarkJobRunning` is the conditional `updateMany`, `ReadRunningJob` the `findUnique`
after it, and `FinalizeJobSuccess`, `FinalizeJobDeferred`, `FinalizeJobFailure` are
the three outcomes of `runJob`, with the `attempts` of whichever copy the code uses.
`DropPendingJobs` is the deletion of pending rows of satisfied artworks inside a
backup. `Crash` kills a worker between two statements and `Restart` starts it again.
A caller's `FindExisting` is the lookup of `queueJob`; `WriteRequest` is the write of
whichever branch that lookup chose, by id and without looking again, as in the code.

Two history variables make the properties exact. `revoked` has the executions
whose row was taken from them (by a stale recovery, by the late outcome of another
execution, by a request that requeued a live row, by a trim), `misjudged` the rows
last written on an outdated `attempts`.

`JobLifecycle` knows neither rows nor statements: a job is absent, waiting, running or
settled, and is held by at most the worker that claimed it. The refinement mapping
reads the state off the status and takes the unrevoked executions for the holders.

### QueueRebalancer

Adds one variable, `plan`, with the step and the lists of each rebalance:
`FetchActiveJobs`, `ParkBlockedJobs` (then fetch again), `ParkRepairJobs` (then fetch
again), `TrimOverflow`, then `RefillLookup` and `RefillWrite`, which are the two halves
of `queueArtworkBackup` in ArchiveQueue. Which artworks are over budget or need a
repair is a free choice; the sizes of the lists and the budget are exact.

### WorkerCycle

`beat` and `latest` are the heartbeat rows and which of them was written last; the
watchdog reads only that one (`workerActivelyRunning`). A daemon's cycle is
`BeginCycle`, a pass, `TryIngress` and `LeaveIngress`, another pass and `EndCycle`, with
keep-alive heartbeats in between that may arrive late. `IngressTimesOut` frees the lock
and fails the cycle while the callback carries on (`loose`); `FailCycle` is a database
error, which leaves claimed jobs or carries jobs on behind the cycle. A recovery call
of a browser is `Look`, `TakeWatchdogLock`, the three queries of the second look in any
order (`Query`, `EndRecheck`), `ListRunning` and `RecoverJob` row by row if that look has
counted RUNNING jobs, and then a cycle of the web server under the key
`web-watchdog-worker`, which all recovery calls share. `Stop` is a signal, `Kill` the death of a process; its locks go
with its connections. A pass is reduced to its batch: its statements are ArchiveQueue's. `IsBatch` never passes
over what a user has asked for (`asked`); the others (`automatic`) may be skipped, because the
budget blocks them, they share a root with the batch or are one repair too many, or be put
off when they run, which gives an attempt back (`GivenBack`): both are free choices.

### RootBackup, Dependencies, ArchiveFiles, PinSlots

An execution of RootBackup loads the rows of both roots of its artwork once (`snap`) and
then decides on that copy, as `backupArtwork` does. Its actions are the probe of an
unknown size, the deferrals, the download, `Add` (the upload to Kubo, whose hash is
compared), `Discard`, `PinFromNetwork`, the writes of `IpfsRoot` after each, and the
two statements (`SyncRead`, `SyncWrite`) that derive the statuses of every artwork of
the root. `disk` and `kubo` are what is really there. `ReadPolicy` to `RequeueDeferred`
are `maybeAdvanceSmartPinBudget` (whether a pass finds jobs of other kinds still waiting,
which hold the tier back, is a free choice that `backlogs` bounds; `mute` has the roots
whose size no probe finds out), `ResetRoots` and `QueuePublic` a user's request, and
`Crash` kills a worker.

Dependencies is the verification inside a backup (`archiveDependencyTree`) and the
index after it, for archivings that overlap, also of the same artwork. `web` says what every
file refers to and of which artwork an archiving is; `walk` has, per archiving, the stack
of the recursion, one frame per call with the references its loop has left, and the
nodes of the manifest; `archived` and `rows` are the files and the `IpfsCidIndex` rows.
`Follow` is one turn of the loop (the limit, the visited set, the download, which may
fail), `Return` the end of a call, `SaveManifest` the manifest, `FailVerification` the end
without one, and `ClearRoot`, `IndexRoot`, `ClearRows`, `IndexNodes`, `ListEntries`,
`ClearEntries`, `IndexEntries` the statements of `cid-index.ts`. The history `stands` says
that no other archiving of the artwork has cleared the rows of a manifest since. The two
searches are operators. `AtPlaces` is the order-keeping filter that `dedupeReferences` and
the choice of candidates have in common.

ArchiveFiles is below that: every file operation of `downloadFileToArchive` and of the
same logic in Rust is an action (`LookCold`, `LookHot`, `FetchSource`, `RenameTemp`,
`Link`, `OpenCopy` to `FinishCopy`, `DiscardHot`, `StatCold`), with the archiver's
in-flight key per file, its memory of recent results, requests that are dropped by
their caller, and kills of either program. PinSlots is `makeSemaphore`, where a waiter
that was woken counts itself in only when it resumes.

### IpfsGateway

A CID stands for the DAG of its files; Kubo computes the CID of what it is given, so a
part of a directory has another one. `mover` is `pinCidWithKubo`, called by the
nodes, or a run of the migration script: `Take`, `LookForPin`, `ListTree`, `Send`,
`Compare` the hash, `Unpin` a stray one, `RemoveTree`. `hydrator` completes a directory
file by file (`ListLinks`, `DownloadSibling`). A `visitor` asks one source after the
other as the route does (`ReadLocal`, `TryRelay`, `TryKubo`, `TryPublic`, in the order of
`NextSource`), and each look reads the storage as it then is. An inventory of a
device is a transaction: `ReceiveInventory`, `Upsert` row by row under row locks,
`FindStrays`, `UnpinStrays`, `CommitInventory`, with `BreakDeadlock` for two that wait for
each other; `EndRest` is the end of a route's cooling.

### MarketIndexer, MarketPages, ContractCrawler

`chain` grows by blocks with at most one event each. A tick of the indexer is
`BeginTick` (the advisory lock), `ReadState` (which seeds the state row at 0 or at the
head), `FetchLogs`, then `PersistLog` and `HandleEvent` for each log in block order, and
`Advance`. `FailTick` is an error or a kill between any two of them, `LockTimesOut`
the ten-minute timeout of the lock's transaction. A column of the two tables is the
block of the event that wrote it, which is all the handlers depend on.

In MarketPages an item is the price or one of the auctions of a work, and `row` has the
rows of the two tables. The index is one action, `IndexEvent` (MarketIndexer has it in
full), which makes of a row what the handler does: an upsert creates it, an update of a
row that is not there changes nothing. The second writer of the rows is what matters here:
a page of a work with neither a stored price nor a stored auction reads both from their
contracts (`ReadPrice`, `ReadAuctionId`, `ReadAuction`) and stores them in two statements
(`WriteLive`) that go on by themselves (`stores`). `Trade` and `EndAuction` are what
others do on the chain. A page loads (`LoadStored`), offers the buttons of `Offered`, and
sends a transaction (`Click`, `Confirm`, `MineOfPage`). The panel of a profile is
`loadTargets`, `runDelistAll` and its loop (`TakeTarget`, `SwitchChain`, `ConfirmDelist`,
`MineDelist`, `FinishRun`, `Stop`). The history `overtaken` has the items whose row was
changed by a write from a read that the index had overtaken.

ContractCrawler has the cursor of discovery and the crawler rows. A cycle seeds the
known contracts, fetches a batch of pages, registers what they list (`Register`, which
restarts a row that was in block mode), moves the cursor on from what it had read, and
then scans the contracts its selection chose: `ScanPage` or `ScanBlocks`, and
`SaveProgress`, the update by id. Of a page of works only whether it is short matters
(`Short`): it is when it is the last one, and when it has lost a work to the IPFS filter.
`found` is what has been scanned. The history `sound`
of a row says that no scan of one mode was saved into the row of the other.

### ArtworkIngest, ProfileAssets

ArtworkIngest has one work with a metadata and a media root. Its row is written by three
paths, each in its own way: discovery, the ingest of its token and the ingest of its
page (`UpsertRoot`, `FindRootless`, `DropJob` and `DropArtwork` of an older row, `Persist`,
`Queue`). `RequestArchive` to `AskForBackup` is a user's request, with the reset of the
roots before it and the lookup and write of the queue; `Claim` to `SettleJob` is the
backup of the work, reduced to its reads and writes of statuses. `Refill` queues what
the rebalancer would. A root is saved by this work or by another one that shares it.

ProfileAssets has the backfill script with its checkpoint `file` and its copy in
memory, in batches (`ChooseBatch`, `TakeArtist`, `ProcessResults`), whose save is
`TruncateFile` and `WriteFile`, so that a kill in between leaves a torn file. A profile
is looked up by username, by wallet and by the works of the wallet, each answer of
which may fail, then upserted, and its picture downloaded; ingests do the same for the
artist of a work (`BeginVisit`). The history `verdict` says how an artist was concluded
and what the lookups before it had heard.

### TtlSwrCache, LiveFeed, LiveBoard, OwnerConsole, LocalBridge

A value is the version of the database it shows. A caller hits, hits a stale entry
and starts a refresh, or misses and waits; a fetch reads its source at some moment
between its start and its end; `Resolve` and `Reject` include the promise reactions,
which run before any other event of the process. LiveFeed extends the cache: its
callers are the broadcasts under way, and an answer is sent in the step that gives
it. `scheduleReconnect` is an operator on the locals of `startArchiveEventListener`, so
that the order of the catch and finally blocks is the code's.

LiveBoard is the tab at the other end. An event is its number, a snapshot the number of
events it knows of. `client` has the locals of `archive-socket-client.ts` and its
socket, shared by the board and the page of an artist; `board` is the state of
`useArchiveLiveSnapshot`, which stages events and surfaces them (`Update`, `Surface`),
`polls` the requests for recovery (`AskRecovery`, `AnswerPoll`, `ApplyPoll`), `shell` the
profile page, which refreshes on news of its artist (`AskRefresh`, `ReadRefresh`,
`RenderRefresh`). `BreakOff`, `RateLimit`, `Flip`, `ComeOnline`, `Redial` and `Watchdog` are
what connections, visibility and timers do.

OwnerConsole has one device, its last sign of life (`fresh`) and its connection
(`live`), and what one page shows of it (`list`). A snapshot reads the database in
`ReadForBroadcast` and the connections in `SendSnapshot`; an answer to a request for the
list is read in `ListDevices` and written in `ReceiveList` or `Look`. `Click` to `GiveUp`
are the actions that queue a job and wait for it (`waitForRelayJob`), `ClickDisconnect`
to `ForgetDevice` the removal of the device.

LocalBridge is the same page on the computer of its desktop app. `app` is what the app
is (running, linked, its setting; the public gateway's switch stands for all settings),
`page` what the provider and the console know of it: reachable, its config, the draft
the owner edits and the state the relay last reported. `requests` are the three that may
be on their way to the app at once, of the health probe, of a load and of an errand,
each of which reads the app in `AppAnswers` and is applied in `FinishProbe`, `FinishLoad`
or the end of the errand. What is shown of the device (`Visible`) is the list's entry
overridden by the probe, as `relayDevicesWithLocalBridge` does it; every step that sets
a config, a state or a list is followed by the effects of a render on the draft
(`Render`). An errand is `Reload`, a save (`StoreHere`, with `SaveByRelay` for a connected
device) or `ConnectThisComputer`, each request of it a step. `PrepareLink` to `LinkTimesOut`
are the one-time link, which may expire before it is opened or while it is waited for.

### ArchiveBrowsing

`table` has every work with the time it was last written, which is what the lists are
sorted by, and the statuses of its halves; `Write` moves it. `session` is what a mounted
browser holds: filter, cursor, what it has shown, its error and its pause. A page is
read where the cursor stands (`buildCursorWhere` with its three sort orders), asked for
by `Autoload`, `Observe`, clicks or the timer of a pause, and merged when it arrives, for
the archive and the profile each in its own way. `Navigate` and `Commit` are a new
filter or a refresh, whose page arrives while the old list is still there. The filters
and the card's status are operators translated from the two files that must agree.

### RelayJobs, DesktopDevices, SaveTargets

`job` and `device` are the rows of one device and its jobs; a claim of
`claimRelayJobsForDeviceId` is `Check` (from a poll or a dispatch), `LockDevice` (the
update of the device's row, whose lock the transaction keeps until its end),
`SelectJobs`, `CommitClaim` or `RollBack`, then `Deliver` or `LoseDelivery`. `Report`,
`Unlink` and `RemoveDevice` need the same lock and appear as their commit. `socket` is
how far the set-up of a connection has come, since its close is listened to only
when that is over, and `registered` is the device's entry in `deviceSockets`. The
histories are `handed`, how often the device received each job, and `newest`, the
connection that registered last.

DesktopDevices has the pairing (`BeginClaim`, `CommitPairing` as a serialisable
transaction) and the tunnels: a provision reads the row, makes its remote calls one by
one (`CallCloudflare`; `FailProvision` and `LoseAnswer` before and after their effect) and
saves, a revocation deletes and saves. `cloud` is what exists at Cloudflare, modelled
from how `cloudflare/api.ts` uses it. The history `contested` has the tunnels that two
requests worked on at once.

SaveTargets is one click per work on "save everywhere". `saving` is `pinWorkToHosts`
statement by statement: `FindHosts`, and for each host and root `UpsertPending`,
`CallHost`, `RecordHostPin`, then `FinishHost`; `AnswerSave`, `RejectSave` and
`DieInSave` are how it ends. `pin` are the `HostedPin` rows, `service` where the
endpoint and the credentials of a host lead, `saving.copy` what the request has read of
that, `accepted` which service has accepted which root for which host (any 2xx, or a
409), `shown` and `desk` what the page tells of the two halves of the save. `ShareWork` hands the work to the desktop app, `QueueWorkToRelay` to the relay.
`EditHost` is another tab, which may lead a host to another
service, switch it off and on, or remove it.

## 3. Runs

All runs are exhaustive enumerations, with no state constraint: the bounds are
guards of the actions they limit, named `Max...` or fields of a world. Three MC modules
add a guard to a part: on the failures in all (`OneTrouble`, `FaultsInFeed`) or on who
takes part (`OneArtwork`, `OneOfEach`).

| Run | Instance | Shows |
|---|---|---|
| `queue_liveness` | 2 artworks competing for batches of one, 2 workers one of which may be killed for good, 2 requests | `ImplementsLifecycle`, `RunningSettles`, `PublicJobSettles` |
| `queue_and_pages` | 1 artwork raced for by 2 workers and 2 callers with 3 requests, 1 stall and 2 attempts; 2 artworks in batches of two, 1 worker, 1 caller and 1 rebalance, each job tried once; six readings of up to three works | `ExclusiveClaim`, `RetryBudget`, `FreshRequestsHonoured`; `BudgetKept`; `FiltersAgree`, `PagesMissNothing` |
| `catalogue` | 1 auction, 1 token, 3 blocks, window 2, 2 processes, 1 failed tick or 1 overrun; eight markets of two works with up to 2 auctions each; files of four with every pattern of references, depth 2, two artworks one of which is archived twice; seven circles of one or two artists | `NoEventSkipped`, `CheckpointIsExact`, `CatchesUp`; `StoredListingsAreTrue`; `ReferencesFollowed`, `FoundBySearch`; `NobodyIsMissed` |
| `root_backup` | seven archives of two artworks and two roots, with and without Kubo, 1 setback or 1 request, one with a root above the ceiling and one with a root of unknown size; four storages with two downloads and 1 mishap; 5 pins for 2 slots | `StatusIsTrue`, `ContentKept`, `EveryRootEndsSaved`; `FilesKept`; `NoSlotIsWasted` |
| `worker_cycle` | two daemons, a daemon with or without a browser, one or two browsers, with up to 1 death and 1 fault; three ledgers of two contracts, one with a work that is not on IPFS, and a seed with up to 2 mishaps; four ways of one work into the archive | `WorkingIsShown`, `JobsAreRescued`; `CheckpointsAreTrue`, `WorksInReachAreFound`; `ShownAsSaved` |
| `socket_server` | 1 browser, 2 broadcasts, 2 fetches, 2 events, a lost LISTEN whose renewal fails or one other fault; five tabs of up to three events | `SnapshotsNeverGoBack`, `BrowsersCatchUp`; `NewsIsRefreshed`, `BoardCatchesUp` |
| `owner_console` | one device; six scenes of a page elsewhere with two snapshots, up to 2 events and 1 failure; six on the computer of its app, each with one errand, click or event | `OwnerCatchesUp`, `ActionsConclude` |
| `relay` | 2 jobs taken one at a time, 2 claims at once, 2 connections, 1 rollback; two requests for two devices and one code, 2 provisions, 1 strike; saves on two hosts of two services or to the desktop app; four sites of two CIDs | `HandedOutOnce`, `OpenConnectionIsFound`; `PairingClaimedOnce`, `EnabledTunnelsWork`; `SavedWasAccepted`, `PendingIsUnderWay`; `ReadersAreServed`, `RoutesFollowInventory` |
| `queue_double`, `live_retry`, `root_pin_skipped`, `worker_recovered` | smallest instances | the disagreements of section 5 |

What the less obvious properties say. `PagesMissNothing`: a work that no one has
written since the first page was read is in the list once the cursor is past it,
whatever else moved. `FiltersAgree`: a filter never finds a work whose card says
otherwise; a work with a linked half marked SKIPPED may be in no filter, and those are
exactly the ones. `StoredListingsAreTrue`: once the index has caught up, the row of a
price or an auction says what is on the chain, unless it was written from a read that
the index had overtaken; it may be missing only for a listing from before the index.
`ReferencesFollowed`: however a file was first met (missing, too deep, in a circle), all
that lies above the limit has been followed. `FoundBySearch`: the files of a manifest are
found from the statement that indexes it until another archiving of that artwork clears
its rows; only the root itself may be missing meanwhile, while it is rewritten.
`NobodyIsMissed`: an artist before the cursor of the checkpoint file has been concluded,
or waits to be tried again; and no failing request is forgotten in "missing", except
where a later one of the same lookup named another account.
`SavedWasAccepted`, `PendingIsUnderWay`: a host is shown as having a work only if one
service that it led to has accepted all roots of it, and a menu says "pending" only while
someone is about to write the outcome. `ShownAsSaved`: whichever
ingests, requests and backups overwrite each other's statuses, the work ends up right.
`EveryRootEndsSaved`: every root is saved in
the end, but for those of unknown size, those above the ceiling, and those larger than the
tier that were tried for a user without success or wait behind a root of unknown size.
`JobsAreRescued`: with browsers that keep asking, what a user has asked for is settled and no
job stays RUNNING; an automatic job may wait for as long as the budget blocks it.
`WorksInReachAreFound`: scanned in the end are the pages of a contract up to the first short
one, the blocks of a seed that no list names, and the first window of one that is listed.
`CheckpointsAreTrue` likewise means by a completed row one that came to a short page.
`NewsIsRefreshed`: a profile page that heard of news has a refresh before it that reads
late enough.

Why the bounds are enough. Claims, recoveries and outcomes of different artworks
touch different rows, so one key with two workers and two callers has every race
over a row; the second key of `queue_liveness` and `queue_and_pages` adds what a batch
and a list have in common. Two attempts distinguish first, last and exhausted. One
stall is enough for a recovery under a live execution and for a claim beside it.
Three blocks with windows of two have a full window, a clamped one and a replay
that reaches beyond one; the chain may stop growing at any length. Two artworks with
one root are the least that share a row, one with two roots of different sizes the
least whose tier has to rise, and a second artwork is the least that waits behind a root
of unknown size; one setback between any two calls of either execution,
which all retry, leaves every intermediate state that two would reach for one root.
Two downloads meet on one path in every combination of the two programs. Five pins
for two slots queue three, so that a woken waiter can be overtaken while another waits.
Of processes around the queue two at a time meet, over one lock or one heartbeat row.
Two contracts on different pages and a seed are the least that compete for two slots.
Two callers and two fetches are the least at which one broadcast can overtake another;
an owner's list has two snapshots and two answers under way,
and the three requests that a page can have at its app can end in any order. Two claims and two
connections are the least that can get in each other's way; two jobs taken one at a
time make the second claim choose. Two provisions give an old row its own and a
second one, or a failed one and its repetition. A depth of two with four files has a file
met at the limit and again above it, circles, and both orders of a loop. Three works in
pages of one have two ties to break and a work on either side of the cursor; a write may
carry any of them across it. One work and two writers of its row are the least that
overwrite each other. Two hosts and two roots have a host done before and one after a
failure. Two files make a directory that can be partial; two inventories can wait
for each other. Proofs make the bounds immaterial for all of the safety properties
(section 4).

SYMMETRY is used only in runs without liveness (`queue_and_pages`, `queue_double`, `relay`).
Deadlock is checked in `queue_liveness`, `queue_double` and `live_retry`;
elsewhere everything really comes to an end: a device is removed, all roots are saved,
all jobs are settled and nobody asks, the last page is shown, a checkpoint is complete,
a tab is closed.

### Fairness

* Queue: a delayed row becomes available; a RUNNING row whose execution is gone
  gets stale (clocks advance; a stall of a live execution is never obliged); a
  worker that is up takes its next statement (`scripts/worker.ts` loops for ever and
  catches the errors of a cycle); a caller reaches its write. Nothing obliges a
  killed worker to restart, a user to ask or a rebalance to run.
* Worker cycles: cycles, jobs and recovery calls that have begun go on, browsers keep
  asking and time passes. Nothing obliges a daemon to be started or started again.
* Roots: workers take jobs and finish what they begin, the rebalancer keeps queueing
  artworks that need a backup and the ingress cycle keeps coming by the policy.
  The latter supposes live lookups: `policy.ts:160-163` asks for completed passes,
  which without them never happen (section 5).
* Ingestion: the ingests that a catalogue has begin and go on, discovery comes again and
  again, jobs that are queued are taken. Nothing obliges a user to ask.
* Indexer and crawler: each process takes its next step, cycles keep coming, contracts
  come due again. Failures and overruns are finite in number, otherwise nothing could
  catch up.
* Cache and feed: timers fire (entry ages, heartbeat, reconnect), fetches end one
  way or the other, an attempt to LISTEN ends one way or the other. Browsers are not
  obliged to connect.
* Tab: servers beat and answer, the network delivers, timers fire (surfacing, watchdog,
  the cooldown after a refusal). Nothing obliges a tab to be shown or to stay open,
  which is why `BoardCatchesUp` supposes that it is watched.
* Owner's page: the server reads and sends what it has begun, requests are answered,
  a closed socket is opened again, the interval fires, and a waiting action goes on and
  comes to its deadline. An app on the same computer that is asked answers or refuses (a
  closed port does), and the preparation of a one-time link ends. Nothing obliges a device
  to claim or report, or an app to be started.

Fairness is always on the actions of the code, never on failures.

## 4. Proofs

Everything is proved from the named assumptions on the constants only
(`MaxAttemptsAssumption`, `RebalancerAssumption`, `CycleAssumption`, `IndexerAssumption`,
`CrawlerAssumption`, `RelayAssumption`, `SocketAssumption`, `DevicesAssumption`,
`RootsAssumption`, `FilesAssumption`, `SlotsAssumption`, `GatewayAssumption`,
`SaveTargetsAssumption`, `MarketPagesAssumption`, `ProfileAssetsAssumption`,
`BrowsingAssumption`, `DependenciesAssumption`); the sets of
artworks, workers, processes, contracts, callers, ticks, fetches, devices, roots, worlds
and so on are arbitrary (jobs, keys and pins are finite where the model counts
them). The inductive invariants were checked by TLC on the runs' instances first.

* `ArchiveQueueProofs`. `TypeCorrect`: `Spec => []TypeOK`. `RetryBudgetHolds`: a row that
  is not misjudged keeps within `MaxAttempts`. It is not inductive alone: a deferral
  gives an attempt back and a failure decides on the copy of the execution, so it is
  carried together with the claim invariant, which says that a live execution's copy
  agrees with its row. `ExclusiveClaimHolds`: an unrevoked execution holds exactly the
  row it claimed and there is one at most. Here the induction needs that only
  executions can be revoked, and `IdleHolds`, that a worker which is down or
  recovering has no batch (otherwise a restart or a selection could lose one).
  `FreshRequestsHonouredHolds` and `SettledRowsStayHolds` are action properties: a
  request on an up-to-date lookup never lowers or leaves a settled job, and nothing that
  a worker or caller decided on an older state reopens or alters a settled row. The
  latter holds of the queue alone: a rebalance may still delete such a row by its id.
* `ArchiveQueueProofs`, with rebalances. `BudgetKeptHolds`, for any number of rebalances,
  from `RInv`: what a quiet rebalance has seen of the table is still so (`SeenIsTrue`),
  its call is an automatic backup request (`CallsAreBackups`), and the ready automatic
  jobs, its free slots and the request it is about to write together fit the target
  (`RoomIsLeft`). A park, a trim and a refill each change the cardinality of the
  lists by what was counted, which is most of the proof. `RebalancedClaimHolds` and
  `RebalancedRetryBudgetHolds` carry the first two results over to the composition.
* `ArchiveQueueProofs`, life cycle. `LifecycleImplemented`: the queue implements
  `JobLifecycle`. Each action maps to one abstract action or to none; what a statement
  writes by id over a row that has moved on maps because the holder of that row is
  revoked in the same step. The claim invariant says that a PENDING row has no holder
  and a RUNNING one no second.
* `WorkerCycleProofs`. `CycleTypeCorrect`, and `WorkingIsShownHolds`: daemons write only
  their own row (`OwnStep`); for the row that recovery calls share the invariant is
  strengthened by `GuardedHold`, that a call holds the watchdog lock from its second
  look to the end of its cycle, so that no other one ends a cycle in that row
  (`SharedRow`).
* `MarketIndexerProofs`, log. `NoEventSkippedHolds` from `LogInv`: the numbers of a tick are in
  range, what lies between the start of a window and the first undispatched block is
  logged, the log covers the checkpoint, and a block is logged once. The window part
  is what makes it inductive: a checkpoint may be moved back by a slower tick, but
  only to the end of a window that was logged whole.
* `MarketIndexerProofs`, tables. `CheckpointIsExactHolds` from `ExactInv`, which adds to
  `LogInv` when each column was last true: what a column shows is what the events up to
  some block had left there, a block of its own for every auction and price (`Times`),
  not before what has been dispatched of the window and not beyond its end. A replay
  may show an older state for a while, so this is all that holds inside a window; at its
  end there is only one such block, the checkpoint. While the lock is not overrun a
  second tick stays out (`TickAlone`); no event of an auction comes before its
  creation (`CreatedFirst`), and what ends a price comes right after its setting
  (`AfterSet`). What a column ought to show is said about the last of its
  events, with no fold over the chain. The attempt to prove the step of
  `PriceAfter` showed that two of its cases overlapped, which TLC resolves by their
  order; they are now disjoint.
* `CatalogueProofs`, listings. `StoredListingsAreTrueHolds` from `StoredInv`: time is the
  number of events on the chain, and a row says what was on the chain at some time
  that the index has not passed (`RowHolds`). That survives both writers: the index writes
  what is of its own time, or nothing where its update finds no row, and a page that
  writes in time writes what was there when it read (`PageHolds`), which `overtaken`
  exempts only if the index was further by then. Once the index has caught up, that time
  is now. What is there at a time is a statement about the last of the events of that
  price or auction, with no fold.
* `CatalogueProofs`, profiles. `NobodyIsMissedHolds` from `NobodyInv`: a checkpoint covers
  everybody up to its cursor, in the file unless it is torn (`CheckpointSound`) and in
  memory but for the artists of the batch under way (`ScriptSound`); a result that is not
  to be tried again is a verdict; and a task that may end as missing is either in no
  doubt or has a failure to report (`TaskSound`). It needs that a batch leaves no gap
  (`NoGapInBatch`), which is a fact about cardinalities, and that a lookup in doubt ends in
  its failure (`DoubtIsTold`), for every combination of answers.
* `CatalogueProofs`, lists. `PagesMissNothingHolds` from `BrowsingInv`: a request under way
  stands at the cursor of the list, and a page that was read, for the list or for the one
  that will replace it, has every unwritten work between its cursor and the next (`Whole`).
  That a page has them when it is read (`PageIsWhole`) rests on the order being total
  with its ties broken by id, and on a finite set having a last element, which follows
  from the well-foundedness of inclusion among finite sets (`SomeLast`) and needs no
  induction of its own. `FiltersAgreeHolds` goes through the combinations of halves,
  linked or not.
* `CatalogueProofs`, files. `ReferencesFollowedHolds` and `FoundBySearchHolds` from
  `DependencyInv`. While a walk lasts, whatever a followed file refers to is in the
  manifest or in the references that some call on the stack has left (`WalkIsTrue`): a
  turn of a loop takes one of them and puts it into the manifest, whether it fails or
  not, and may add a call with all that the file refers to (`CallAwaits`); a call is left
  with nothing. A file that failed is not in the visited set, so it is not promised
  anything until it is met again. That nothing gets lost on the way into a loop is
  `NothingIsDropped`: a kept place has a rank and every rank a place (`RanksAreTaken`, a
  fact about cardinalities), and a file that occurs has a first place, by the
  well-foundedness of the numbers. The filter is defined by the places it keeps and not
  by a fold for this reason. For the index, the rows of a manifest are of source types
  that only archivings of its own artwork delete, and the one statement that does
  (`ClearRows`) ends the standing of all others of that artwork (`StepKeepsIndex`).
* `ContractCrawlerProofs`. `CrawlTypesHold`, and `CheckpointsAreTrueHolds` from `CrawlInv`:
  what a checkpoint claims is in `found`, for the rows (`GoodRow`) and for the copies and
  results that ticks carry (`GoodTick`); a completed row has gone back to page 0, and
  `found` only grows, so a copy stays good however old it is.
* `StorageProofs`, roots. `BackupTypesHold`, `StatusIsTrueHolds` and `ContentKeptHolds`.
  No step gives content up (`Keeps`), so a status that was once true of a root stays
  true however old the copy is that an execution decides on: this is what `StatusInv`
  turns on. Beside the rows and the statuses shown (`RowsAreTrue`, `ShownIsTrue`) it says
  what every execution is about to write (`Knows`): between the upload and the record
  the root is in Kubo, at the record it is held, and the statuses it has derived for
  the artworks of a root are true of them. `Rooted` excludes an execution that works on a
  half without a root.
* `StorageProofs`, files. `NoSlotIsWastedHolds`: while a slot is free nobody waits; a
  woken call that has not resumed yet counts for a slot (`SlotsInv`, with the queue of
  waiters exact and free of repetitions, `InLine`). `FilesKeptHolds` from `FilesInv`:
  only a copy in place can tear a file (`TornIsCopied`), a program that is past its
  link or copy has witnessed the stored file (`Witnessed`), what was fetched stays, and a
  failure is harmless.
* `StorageProofs`, gateway. `ReadersAreServedHolds` from `ReadersInv`: a mover removes a
  tree only after Kubo has the DAG, and Kubo keeps what it has been given, so at each
  source a request has still before it a place that has the file (`VisitorsAreServed`).
  `RoutesFollowInventoryHolds` from `RoutesInv`: an inventory that meets no other has its
  strays exactly once it waits for its commit (`Follows`).
* `TtlSwrCacheProofs`. `SingleFlightHolds`, `RefreshPendingHolds`, `AnswersInOrderHolds`
  from `CacheInv`, whose part `Ordered` says that the entry, the answers and what the
  one running fetch has read lie in order below the source. On top of it
  `SnapshotsNeverGoBackHolds`: what a browser has been sent lies below what the cache
  will answer next, through broken connections and restarts.
* `TtlSwrCacheProofs`, the page of an artist. `NewsIsRefreshedHolds` from `NewsInv`: no
  message on its way tells of an event that has not happened, and of what a refresh has
  read, it is no older than the page it will replace and no newer than the truth
  (`ShellSound`). So a refresh that has read too early for the latest news always leaves
  a timer or a further refresh behind it.
* `RelayJobsProofs`, jobs. `HandedOutOnceHolds` and `OutcomesStayHolds` from `ClaimInv`:
  the row lock leaves one claim at a time between its read and its commit (`LockHeld`),
  so what it has read is still PENDING when it commits (`SelectedPending`), and no two
  committed claims share a job (`Undelivered`). `OpenConnectionIsFoundHolds` from
  `ConnectionInv`. The type invariant is part of `ClaimInv`.
* `RelayJobsProofs`, devices. `PairingClaimedOnceHolds`: a device that has a code has
  claimed it (`CodesClaimed`), and a claim commits only on an open one.
  `EnabledTunnelsWorkHolds` from `TunnelInv`: every tunnel number that a row or a request
  knows exists, and belongs to one device unless it is contested (`StakesFit`); an
  enabled row has its tunnel and names (`RowHolds`), a provision that has made its calls
  has what it is about to save (`ProvisionHolds`), and a revocation that has begun to
  delete has made its tunnel contested (`RevocationHolds`).
* `RelayJobsProofs`, saves. `SavedWasAcceptedHolds` from `SaveInv`: what a service has
  accepted is never taken back in the history, so nothing depends on the hosts a save has
  gone through; a request calls the service of the copy it has read, whatever the host is
  edited to; while no root has failed on the current one, that service has accepted all
  roots before the current root, and the results that wait for the answer say "saved" of
  hosts with such a service (`SaveHolds`). It does not need that a host is there or
  enabled. `PendingIsUnderWayHolds` from `PendingInv`: as long as
  nobody died, a row that says PENDING has a request between its two statements at
  exactly this host and root, and the removal of a host takes its rows along, so a
  request that is rejected because its host has gone leaves none behind.

The types and some steps on the way (`TypeCorrect`, `IdleHolds`, `CycleTypeCorrect`,
`CrawlTypesHold`, `BackupTypesHold`, `SettledRowsStayHolds`, `OutcomesStayHolds`,
`SingleFlightHolds`, `RefreshPendingHolds`, `AnswersInOrderHolds`) are stated by theorems
only, not by runs.

Model-checked only: liveness, with its fairness, which is out of the prover's reach.
All safety properties of the runs are proved.

## 5. Where code and words disagree

1. `queue_double`: of two callers that read the same settled row, the second requeues
   a row that a worker has claimed since, and a second worker executes the artwork
   too (`queue.ts:138`). `policy.ts` says callers cannot double-queue.
2. `live_retry`: after a failed LISTEN the log says "retrying", but `scheduleReconnect`
   returns because `connecting` is still true, and nothing retries
   (`socket-server.ts:609`). Heartbeats keep browsers up to date all the same, which
   is what `BrowsersCatchUp` shows.
3. `root_pin_skipped`: a download fails, the root is pinned through the network and
   logged as pinned, and the same execution then marks its pin as skipped
   (`backup.ts:752`); the root is backed up once more.
4. `worker_recovered`: the watchdog reads the latest heartbeat row only. A web server that
   stepped in while a daemon was starting ends its cycle with an IDLE row that is later
   than the daemon's RUNNING one; the next recovery call sees no worker, takes the job
   the daemon is working on (`watchdog.ts:112`) and writes that the saver stopped sending
   heartbeats.

### Known results beside the runs

What the models allow on purpose, or what was seen while they were written. None of
it is claimed to hold, and the properties are stated so as not to claim it.

* Queue. A request whose lookup is out of date only raises the priority of a row that
  has settled since (`queue.ts:108`), which is why `FreshRequestsHonoured` speaks of
  up-to-date requests. The trim deletes, and the parking delays, by id rows that
  were claimed or raised since the fetch (`queue.ts:874`, `queue.ts:495`).
* Worker cycles. Automatic jobs that the budget blocks wait for ever if no daemon comes back,
  for the cycle of the web server leaves the ingress out (`watchdog.ts:121`) and nobody
  raises the tier. A deferral writes the attempts from before its claim less one
  (`queue-state.ts:221`), which gives back the attempt of a failure before it as well: a job
  that fails and is put off in turn never runs out of attempts.
* Roots. A root larger than the tier whose backup status is no longer PENDING raises no
  tier by itself (`policy.ts:21`, `policy.ts:251`). One above the ceiling is saved for a
  user only, and one whose size no probe finds out is probed for ever and, as long as a
  job waits for it, keeps the tier of all others down (`policy.ts:110`).
  `EveryRootEndsSaved` leaves these out by name (`LeftOut`, `SizeUnknown`). It also
  supposes that some scan pass after the other finds no ingest or scan job waiting
  (`hasActiveAutomationBacklog`, `policy.ts:134-151`): an archive that keeps finding works
  faster than it ingests them stays at its tier.
  `completedCrawlerPass` is never true beside the seed crawler, which never completes,
  and without live lookups `completedFoundationPass` is never true either, so that the
  tier then never rises (`policy.ts:160-163`).
* Dependencies. The walk goes depth first with one set of visited files, so a file first
  met at the limit (`MAX_DEPENDENCY_DEPTH` is 4) is followed only if it is met again
  above it. A manifest with failed nodes counts as verified and is not tried again, nor
  is a root verified once it is pinned and its files are discarded. A backfill of the
  index without the DAG deletes the rows that came from it. Overlapping syncs may leave
  rows of a root that no longer belongs to the artwork; and between the deletion of an
  artwork's rows and the statement that writes them anew its files are not found, nor
  are those of the earlier manifest afterwards.
* Storage. A worker killed in the middle of a copy leaves a torn file that later calls
  take for saved, and whose hot copy they discard (`storage.ts:174`); in the deployment
  hot and cold storage are different volumes, so the copy in place is what happens
  there. The Rust archiver's copy of a file onto its own inode empties it. `FilesKept`
  holds up to these two (`cut`).
* Gateway. The migration script takes only the newest rows of a batch and leaves their
  status as it is, so older ones are never reached; it adds a single file as a
  directory, whose CID then differs, so that such roots never move through it. The
  unpin of a stray CID may hit another archived root whose files are the partial
  directory. A hydration that writes after the removal leaves a partial tree of a pinned
  CID until a later pass. Of two overlapping inventories the union may remain, one may
  be broken off (and is only logged), or they may commit in reverse order. A success
  resets a route's failures but not its cooling; a failed read of the metadata makes a
  directory miss locally.
* Crawler. A page with a work that is not on IPFS is shorter after the filter
  (`queries.ts:231`) and so taken for the last one (`contract-crawler.ts:278`): the works on
  later pages are never found by the crawler; discovery pages likewise. A seed that
  discovery lists as well is switched to API mode and back on every pass, and begins at its
  first block again (`auto-discovered-upserts.ts:34-60`, `82-112`): what it does not reach
  within one pass may never be scanned. `WorksInReachAreFound` leaves both out. A completed crawler revisits page 0 only. With one slot per tick a
  revisit takes it, and a seed that never completes starves contracts of lower rank:
  `WorksInReachAreFound` supposes two slots and equal ranks. Switching live lookups off makes
  page numbers of API rows be read as block numbers (`contract-crawler.ts:449`), and an
  overlapping tick may save one mode's checkpoint in the other's row (`sound`).
* Ingestion. The key of a token ingest leaves the chain out (`queue.ts:264`). An upsert
  between the last sync of a backup and its end leaves the work shown as PENDING until
  the next discovery. A source that names one root only overwrites the status of the
  other with SKIPPED although its link stays. An older row may have been linked between
  the lookup and its deletion by id. Page ingests do not sync the CID index.
* Market. A read of the contract that the index overtakes leaves a row active for good.
  A cancellation or sale of a listing from before the first block of the index updates no
  row. The price and the auction of a work are read and written separately.
  After a run that ended early the reload of the targets erases the error and offers
  works again whose delisting the index has not seen. Listings from before the first
  block of the index are offered only where a page has looked. The approval of a
  wallet is read once; a refresh after a transaction shows the old listing until the
  index catches up.
* Profiles. Artists whose wallet lies before the cursor when they appear are never
  visited. A failure other than a refusal is final, also when the scrape failed before
  the refusal. A search that falls back on any match, or the works of the wallet, may name another
  account: the artist then counts as archived, or, if its wallet shows no works, as missing
  although its own page may have failed to answer (`profile-assets.ts:346-379`;
  `NobodyIsMissed` names this way out). Two archivals may violate the unique key; a later
  failing download marks FAILED a picture that is there. The cursor is lower-cased before
  it is compared with stored wallets, which is harmless because every statement that
  stores the wallet of a work lower-cases it.
* Devices. The removal of a device leaves its tunnel (`service.ts:474`). A failure or a
  lost answer after the creation of a tunnel orphans it and, with unique names, blocks
  the next attempt (`tunnel-service.ts:140`). A revocation that dies before its save
  leaves an enabled row without a tunnel. Two provisions of an old row may leave the
  rules of one hostname and the row of another (`contested`). A removal locks jobs
  before the device and a claim the device before its jobs, so Postgres breaks one of
  them off (`RollBack`). Relay jobs handed to a dead socket stay RUNNING
  (`service.ts:343`); `ActionsConclude` shows that no page waits for them for ever.
* Saves. Editing a host's endpoint or credentials leaves its rows PINNED, although the new
  service has never heard of the roots (`pin-hosts/service.ts:325-337`); and any 2xx, or a
  409, is taken for pinned (`service.ts:181-193`), whatever the service makes of it.
  `SavedWasAccepted` therefore speaks of a service that the host has led to, and of what
  it accepted. The menu says PINNED of a work with two roots when only one of them has a
  row, as after a save that died between the two (`service.ts:359-471`,
  `archive-save-manager.tsx:589-612`). A host that was disabled or removed between the list
  and the request stays "pending" on the page. A repetition that fails turns a pinned root
  to FAILED. A direct share that timed out is queued on the relay as well. The death of the
  server leaves rows PENDING, which is why `PendingIsUnderWay` supposes it lives.
* Live board. A staged event that is older replaces the latest one, and moves to the
  front when it surfaces. Events beyond the staging limit come with a later snapshot
  only. A profile page does not hear of what happened while it was disconnected.
* Lists. A request that throws leaves the time of the last one as it was, so the next
  follows at once. A click within half a second of a request is dropped, or on a profile
  forgotten. Works that are written while the newest are listed move ahead of the
  cursor and are not seen in that session. A refresh of a profile either starts the list
  anew or keeps old statuses. A work with a linked root that is marked SKIPPED (see
  Ingestion) is in no filter of the archive but "all".
* Owner's page. After its 20 seconds, and for a job that has dropped out of the three
  `recentJobs` or was removed with its device, the console reports success ("Settings
  saved to ...", `use-desktop-console-actions.ts:473`). Its own list and a snapshot judge
  `connected` differently (90 seconds of silence against an open socket), so an idle
  device flickers. A device's or owner's messages that arrive before the first
  broadcast is over are lost, for their listener is attached after it; and a
  connection whose first broadcast fails has no close handler yet and stays registered
  (`socket-server.ts:723-737`). A draft being typed is overwritten by each refresh of
  the list and each probe of the app (`use-desktop-console-sync.ts`).
* Owner's page at the app. The switch of the public gateway changes the draft and saves
  in one click, and what is saved is the draft of the render before
  (`public-gateway-section.tsx:22-25`): "Turn on to get a public HTTPS address" takes a
  second click, if no probe has put the draft back by then. The health after a save keeps
  the tunnel's settings of the config from before it (`local-bridge.ts:73`), which the
  draft follows, so a later save of anything else turns the gateway back. An expired link
  reports "Please create a fresh one", but the expired one is still what the page offers
  until it is loaded again (`use-desktop-console-actions.ts:621`). After the removal of
  the linked device its entry is shown until the app has noticed, and a load under way
  may show the app as reached once more after a probe that failed; the next probe ends
  both.

## 6. What the models leave out

* Queue: other job kinds (the jobs of ArtworkIngest apart); CANCELLED; a database error
  in the middle of a pass (WorkerCycle has one); the ranking of automatic jobs.
* Rebalancer: sizes of roots; readiness of a row is the one at the fetch.
* Worker cycle: `/api/internal/process-jobs`, whose concurrent calls share one heartbeat
  key, and `process-queue.ts`, which sends no heartbeat. `JobsAreRescued` speaks of a time
  in which browsers keep asking.
* Roots: a Kubo node that loses pins. Dependencies: what a reference looks like in HTML,
  CSS, JSON or a token's URI; the limits of the searches (50 to 5000 rows, 8 groups).
* Files: the archiver's manifest walk and the eviction of its memory.
* Gateway: headers, ranges and content types; the score that orders the routes, which is
  a free choice; the credentials of devices.
* Indexer: reorganisations (windows reach to the head, with no confirmation depth);
  several events in one block; amounts and addresses; the exactness of the tables after
  an overrun of the lock (`CheckpointIsExact` is only claimed without one: two ticks at
  once may leave an older value in a table).
* Market pages: wallets and their connection, gas and prices.
* Crawler: the sample of 96 candidates, several search terms.
* Ingestion: the contents of metadata; several works at once (they share roots only).
* Profiles: the scraping of a page; the two kinds of pictures, which never meet.
* Cache: several keys (they share nothing); a snapshot torn between its queries.
* Feed: the first snapshot of a page, which the web process answers from a cache of its
  own; whether an event is delivered twice. Board: the animations of the carousel.
* Lists: search terms; the mode that reads from Foundation, which is never entered.
* Relay: states of devices, `availableAt` (jobs are created available), the job kinds;
  that the expiry of a code is not looked at again at the commit.
* Hosts: the test of credentials; what a pinning service does with a request.
* Owner's page: requests to the app on the same computer have no timeout of their own, and
  the app is assumed to answer or refuse; its health and config are answered together,
  and one setting stands for all; sessions, sharing and uploads, inventories and the
  verification of pins.

### Not modelled

Routers and routes that only wrap the operations above, presentation, layout and text,
wallet connections, 3D scenes and image generation, the desktop application itself,
one-off scripts and deployment files. They are by far most of the repository's
lines, keep no shared state and have no interleaving of their own.

## 7. What could come next

* Proofs: `WorkerCycle` has further invariants of its locks; a life cycle of a job
  for the composition with the rebalancer, whose trim, unlike `JobLifecycle`, may take a
  running job away.
* Models: the other job kinds of the queue; the uploads and inventories of the
  desktop app; `/api/internal/process-jobs` in WorkerCycle.
