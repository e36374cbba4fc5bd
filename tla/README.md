# ReDesign: verification models

ReDesign is a local daemon that sends one batch of inputs to many LLM providers and keeps
the redesigned documents. A batch costs real money on the user's own API keys, runs for
minutes, and survives restarts, updates and a second process on the same output directory.
This directory holds TLA+ models of the parts of the program that decide **what is spent,
when, on which key, what is left on disk afterwards, and what the pages show of it**, the TLC
configurations that check them on small instances, and TLAPS proofs of the most important
properties for every size.

`PROJECT.json` is the machine-readable index: components, runs, the source lines behind
every definition, hazards, theorems, and for each property a plausible bug ("slip") that
breaks it. Slips are operators with a comment that begins *Slip:*; no specification uses them.

Paths below are relative to the repository root.

## Inventory

| component | source | state | operations | what is hard |
|---|---|---|---|---|
| run queue and registry | `src/http/runQueue.ts` | `activeRuns`, `runQueue`, `currentRunId`, per run `status`, `released`, abort signal | enqueue, release, reorder, cancel, delete, pump, close, recover | three structures kept in step by hand; every handler ends in the pump; file writes that throw half way |
| preflight | `src/http/run-preflight.ts` | tokens, private directories | prepare, take, roll back, expire | a start request that arrives twice or late |
| leases | `src/store/ownership.ts` | `.owner.json` per run, heartbeat | claim, heartbeat, release, quarantine of a dead owner | several processes, file operations that are not atomic together |
| manifests, stale runs, retention | `src/store/` | `manifest.json` per run, summaries in memory | write, read, list, settle an orphan, sweep, delete | a summary read before another process's write; a removal that fails half way |
| server life cycle | `src/http/serve.ts`, `src/cli/lifecycle.ts` | listener, timers | bind, recover, settle, serve, shut down, relaunch | requests are served before recovery and during shutdown |
| automatic updates | `src/auto-update.ts` | `restartPending`, two timers | check, apply, defer, retry, relaunch | the idle test and the exit are apart |
| updater | `src/github-updater.ts`, `src/updater-engine*.mjs` | executable and its artifacts; a git work tree | check, download, verify, swap, undo, clean up; advance, install, build, roll back | other processes and a developer between any two steps |
| update lock | `src/update-lock.ts` | a lock file | take, break, release | the file operations of leases again |
| launching and instances | `src/launch-lock.ts`, `src/instance-pointer.mjs`, `src/find-free-port.mjs` | a lock, a port, a pointer | probe, bind, publish, hand over, shut down | several launches at once |
| native tray and watchdog | `misc/tray-host-native/` | misses, pauses, a child, a worker thread | probe, revive, restart, quit | a busy daemon looks like a dead one |
| key manager | `src/keyManager.ts` | pools, entries, leases, saved state | register, acquire, wait, report, release, propagate, save | one credential in several pools; late answers; debounced persistence |
| key rotation, health check, key settings | `src/runner/helpers.ts`, `src/healthCheck.ts`, `src/server/settings.ts` | none of their own | attempt, fail over, probe, reload a pool | users of the key manager that disagree on classes of failure |
| job scheduler | `src/runner/scheduling.ts` | queues, heads, counters, cursor | start, settle, complete | two caps, round robin, no lost slot |
| job worker, batch runner | `src/runner/job-worker.ts`, `reimagine.ts` | results, manifest, spend | call, save, retry, self-check, flush, finish | money in flight, a second answer that may be worse |
| provider calls | `src/provider-call.ts` | chain per physical key, network permits | acquire, abort, release | aborted waiters, limits shared by runs |
| HTTP routes and events | `src/http/routes/` | clients of a run's stream | join, broadcast, end, retry, export | a join after an await; a download of a run that goes on |
| web interface | `src/web/src/stores/` | tracked runs, streams, lists, choices | follow, refresh, delete with undo, review, pick inputs, price | answers overtake each other |
| configuration and prompts | `src/config/` | catalog files, a baseline, a lock file | read, change, migrate | several processes of several versions |
| inputs and outputs | `src/inputResolver.ts`, `src/thumbnail.ts` | files of `input/`, thumbnails | list, upload, delete, harvest | an id is a place in a listing |
| settings and connections | `src/connections.ts`, the store's `sync.ts` | theme in page, daemon and account | pull, push, enable, forget | an echo of the page's own choice |
| MCP server | `src/mcp-stdio.mjs` | requests in flight and waiting | read, serve, cancel, end | cancellations by id |
| the rest | provider adapters, costs, arena votes, command line, components of the pages | | | listed in `PROJECT.json` with the reason each is not modelled |

How they interact. The routes call the run queue. A start request takes a preflight token,
claims the run's **lease**, writes its **manifest** and ends in the **pump**. The pump starts
`runReimagine` and goes on when its promise settles. The batch hands its jobs to the
**job scheduler**, whose **workers** ask the **key manager** for a key and call a provider
through the **provider-call guard**. An applied update asks the queue whether it is idle. At
boot the manifests and leases of a dead process become the queue again, while requests are
already served. The **tray** probes the daemon and revives it; **launching** sees to it that
there is one. The **pages** hold copies of the daemon's state, read by requests whose answers
come in any order, and a stream of events per run.

What makes each part correct:

* queue: a batch spends at most once and only after a press; queue, registry, lease and
  manifest agree at every instant; the runner is not idle beside released work; order is
  kept; what has ended stays ended; the limits hold; a manifest is written by the lease's
  owner.
* keys: a credential serves one request at a time; a verdict is the credential's and not the
  pool's; no outcome erases one; a dead key stays out for its term; whoever waits is woken.
* scheduler: caps, no idle slot, fairness among pools, FIFO within a pool, one result per
  job, and the batch ends.
* job worker: what is shown is what was saved; a second pass never costs a success; what is
  reported of jobs and spending is so, and reaches the disk; no pass is paid for twice.
* leases: at most one live owner; a live owner's file is never taken or removed, and never
  looks abandoned, whatever half-written state a reader meets.
* provider calls: a key's calls are serial across runs; no permit beyond the limit of any run
  that shares the network; what a run overspends is bounded; whoever gives up blocks nobody.
* updates: one transaction at a time, something that starts is in place at every instant,
  the developer's edits survive, the report is true, the update is taken into use.
* launching and tray: no second daemon beside one that can be seen, a busy one is spared, a
  dead one comes back or the tray has said why not.
* pages: every active run is followed, what ended is shown as ended, an undo is respected,
  no answer overwrites what is newer.
* stores: choices and catalogs are what the user made them; lists and archives are true; a
  sweep takes nothing it should not.

## Modules

| module | models | reads as |
|---|---|---|
| `RunQueue` | run queue, with the preflight tokens, manifests, leases, boot, shutdown, deferred restart and a peer process it shares state with | one action per handler, promise or timer |
| `Subsequence` | `Pick(s, I)`: what an array filter keeps | |
| `KeyManager` | key manager with the job worker, helpers, health check and settings page as its users | one action per call a user makes, with what it does next in the same turn |
| `JobScheduler` | `runJobsByPool`, `buildPoolLimits` | one action per iteration of its loop and per settled worker |
| `Batch` | what a batch is promised, in three actions' worth of state | the abstract specification that `JobScheduler` implements |
| `JobWorker` | the batch of one run and the worker of one job | one action per turn between two awaits |
| `RunOwnership` | the lease file of one run and the processes that claim, refresh and release it | one action per file operation |
| `ProviderCall` | the guard around a provider request, with the spending of the runs that use it | one action per turn of a call between two awaits |
| `Updater` | the installation directory of a release and the processes that replace its executable | one action per file operation another process can come between |
| `AutoUpdate` | the timers, rounds and deferred restart of one daemon, over `Updater` | one action per turn |
| `SourceUpdate` | the update of a source checkout, beside a developer | one action per command |
| `Launch` | how daemons start, find each other, bind and publish themselves | one action per probe or file operation |
| `Tray` | the tray host's UI thread and its worker thread, over the daemons of `Launch` | one action per tick, menu entry or step of the worker |
| `RunFeed` | the event stream of a run and the tab that follows it | one action per event, request, answer or timer |
| `Viewer`, `Gallery`, `Inputs`, `CostEstimate` | pages' stores: one run with its review; the list of runs; the screenshots and their ticks; the price | one action per request sent and per answer |
| `Thumbnail`, `Recipe`, `RunStore`, `Export` | the harvest of thumbnails; what a run is made of and its retry; the store of runs; the download of a run | one action per file operation that others come between |
| `ConfigStore`, `Sync`, `Mcp` | the user's catalog under its lock; the theme between page, daemon and account; the loop of the MCP server | one action per file operation, request or line |
| `Services` | eleven of these parts as one specification | each behaviour is one part's |
| `RunQueueProofs`, `KeyManagerProofs`, `JobWorkerProofs`, `ProviderCallProofs` | the theorems about the module they are named after | |
| `RunProofs` | the theorems about `RunOwnership`, `RunFeed` and `JobScheduler`: a run's lease, its page, its batch | |
| `UpkeepProofs` | the theorems about `Tray` with `Launch`, `AutoUpdate` with `Updater`, and `SourceUpdate` | |
| `ServicesProofs` | the theorems about the parts of `Services` | |
| `CollectionProofs` | facts about `Pick` and about sums over finite sets that these proofs share | |
| `MC*` | constants for TLC | |

### RunQueue

The daemon is one thread, so a handler runs to its next `await` undisturbed and is **one
action, including the `pumpRunQueue()` that closes it**. A handler is written as the registry
it is about to leave behind (the record `Now` with `EXCEPT`), handed to `Pump`,
`SaveThenPump` or `Leave`; these three are the ways a handler of `runQueue.ts` ends.
Interleavings are between handlers, with the running batch (`BatchEnds`, then
`BatchSettles`, which is the `catch`/`finally` of `runQueuedEntry` in a later turn), with the
nudge of the updater (an `import()` that comes back later), with a second process, and with
death between any two steps.

* `entry[r]`, `released[r]`, `aborted[r]` are the fields of `activeRuns.get(r)`; "absent"
  is a run the registry does not have. `queue` and `current` are `runQueue` and `currentRunId`.
* `manifest[r]` and `lease[r]` are on disk. The lease records which process the file names:
  this one, a peer, or a dead one. `isRunOwned` is `Owned`.
* A file operation may fail wherever the code does one, and the model then does what the code
  does with the exception: `updateQueuedManifests` that throws half way leaves the first k
  positions written; `pumpRunQueue` swallows it, `releaseQueue` does not.
* `phase` is how far `startServer` has come. Requests are admitted from "bound" on, and in
  "halted", where `startServer` threw but the listener goes on. During the synchronous
  recovery ("recovering") none are.
* `Dies` is what death leaves: files. `Crash` and `UserShutdown` are bounded together by
  `MaxCrashes`.
* Another process runs this same program; the peer's steps are the parts of it that touch
  the shared files, under the conditions this code asks for.

Histories: `starts[r]` counts how often a batch reached its provider calls, `pressed[r]`
remembers that this daemon was told to run it. No guard reads them.

### KeyManager

`Ask`, `AskAgain` are one turn of `acquireOrWait` / `acquireSpecificOrWait`. Reporting an
outcome and asking for the next key happen in one turn of the event loop, so they are one
action. The lease is named by the request that holds it, which is what the per-lease symbol
of the code distinguishes: a request holds at most one, and a stale one is recognised because
`lease[held[w]] # w`. Time is the ticks that are left of each cooldown. The manager's methods
are functions of its state, the record `Now`, which an action hands from one to the next.

### JobScheduler and Batch

`maybeStart` has no `await`, so no worker settles during its scan: the scan's iterations are
steps (`VisitStarts`, `VisitSkips`, `PassEnds`) and `WorkerSettles`/`Completes` are enabled
only at "wait". A worker's result is pushed in one microtask and its slot given back in a
later one; both exist as steps. `passedOver` is a history for fairness.
`Batch` knows only which jobs wait, run and are finished; the refinement mapping is
`waiting <- Jobs \ Started`, `finished <- Started \ running`, and the scan's skips and the
settling of a worker are stuttering steps.

### JobWorker

One batch, from the first write of its manifest to the last. Jobs start as `Batch` promises;
what a key does is left to `KeyManager`, so a call is answered, paid for, refused, or hands
the job to the next key, within the budget of attempts. A worker goes through three passes:
the first, the anti-slop retry ("fix") and the self-check ("check"), each with its own file
for what it saves, and keeps in `before` what the pass may have to restore. An answer is one
of four kinds: sloppy, clean, prose, or a page that is cut short.

The run's side is the manifest with its counts, written after each job and again with the
summary, and `dirty`, which says that it is not on disk. A caption of a screenshot is shared
by the jobs that need one: the helper's call is out while the first worker waits for it, and
a cancelled worker may leave it out. `outputFails` and `manifestFails` count the writes that
failed. `UnreadableDrafts` says whether the draft that the self-check sets aside may be
unreadable (`src/runner/job-worker.ts:449`); the run leaves it off, see below.

### RunOwnership

`RunQueue` takes the lease as a fact of the disk and a claim as atomic. This module looks
inside: `claimRunOwnership` is `openSync(file, "wx")` (`Claims`, `Retries`), the write of the
record (`WritesOwner`), the reading of the previous owner (`ReadsPrevious`), the question
whether its process lives (`JudgesPrevious`) and the rename of a dead one's file
(`Quarantines`, `QuarantineFails`); a heartbeat is read, truncate and write (`Beat*`);
`release` is read and unlink. Other processes run between any two, and a process may die
between any two (`Dies`).

A file is an inode with a record that is there in full or not. A writer that has an inode
open writes into *that* inode wherever it is by then, so a claimant whose new file was moved
away by somebody else's rename believes it owns a run whose lease names another. A process
makes one successful claim, so its name stands for its pid and its token; a pid that the
operating system gives to a later process is not modelled.

Claims overlap at every step: within a daemon a claim is synchronous code, but two daemons, or
a daemon and the command line, share an output directory. Then the rename, which takes whatever
is at the path, can take a live owner's file in place of the dead one's it was meant for, and
the process that lost its lease so does not know it: its heartbeat may empty, and its release
unlink, what a third put there. `robbed` records these processes, by what happened to their
files and not by what the properties say of them: a rename robs whoever made the file if that
is not the owner it read and found dead (`Quarantines`), and a robbed process robs in turn whom
it writes over or unlinks (`RobsInTurn`). It is a history variable that no guard reads. A
judge that takes a live owner for dead, or a release that does not look, robs nobody in this
sense: those break the properties.

### ProviderCall

`withProviderCall` in four parts. `chain[k]` and `passed` are the promise behind
`tails.get(k)`: a call waits for *all* the links before its own, since each link is
`previous.then(() => mine)`. `waiters`, `limit`, `limitIn`, `active` and `activeIn` are the
fields of `network`. `drainNetwork` is a loop that lowers the limits, takes waiters out of the
list it walks, and has no `await`; it is one step per round, `scan` is its index, and no other
action is enabled while it runs. A cancelled wait is rejected in one turn and cleaned up in
a later one (`Cancels`, then `Abandons` or `Leaves`); a call whose wait was over may be
cancelled before it resumes (`woken`).

The callbacks that `runReimagine` passes are part of the model because the guard makes them
sound or not: `beforeCall` is `assertSpendCeiling` on `spent`, with the permit in hand, and
`Ends` is the usage recorded before the permit goes back. An answer without a known price
makes the run `unbounded`, and a ceiling then refuses every further call. So does, as the code
has it, a call that was cancelled while it waited for a permit (`Leaves`).

### Updater, AutoUpdate and SourceUpdate

`Updater` is the directory of a compiled installation. A file is known by what it holds: the
executable of the old release, of the new one, a wrong one, or a part of one. Processes share
nothing but files: the lock (created, written, judged, broken, removed: a step each), the
download, the checksum, the swap by two renames, the undo, and the clean-up at boot.
`AutoUpdate` adds one daemon's timers, a round of check, apply and relaunch, the restart that
waits for the runs, the settings, and the update asked for by hand.

`SourceUpdate` is the same promise for a git work tree: the engine's commands, one action
each, and a developer who edits, commits or deletes between any two. A commit of the remote
is a number; the histories `mine` and `late` say which edits were there to be kept and which
came after the engine's last look.

### Launch and Tray

`Launch` follows `serveCmd` and `startServer`: the launch lock, the probe of the port, the
walk to a free one, binding, the pointer, hand-over to a successor, and the shutdown request.
A process that ends gives its slot in `Daemons` back, and its marks on disk become nobody's.
`Tray` adds the watchdog's tick with its policy (`watchdog.rs`), the worker thread of a
restart and the quit. Time is counted in ticks of five seconds.

### RunFeed

The tab holds per run what it tracks, its `EventSource`, the deletion that waits for an Undo,
and requests whose answers come in any order. The daemon streams its own runs from memory and
polls the disk for those of another process. A reload, a second page and a crash of the
daemon come at any moment. `wish` is a history: what the user said of the run last.

### Services

Eleven modules that share no state with each other, each a specification of its own, and
instances of this one under the letters `V` to `Y`. A behaviour of `Services` is a behaviour of
one of them, chosen at the start (`part`), and the variables of the others stay off, so that one
run checks each on its own instance and a theorem about `Services` is one about its parts. What
is interleaved is in the table above; each has its histories, named as such.

## Runs

| run | instance | what it shows |
|---|---|---|
| `RunQueueFaults` | 3 batches, 2 places, a batch that fills the byte limit alone, 1 failing file operation, 1 death | `SpendsAsAsked`, `WaitingRunsAgree`, `WithinLimits`, `RunnerKeepsGoing`, `EndedStaysEnded` under every order of handlers, one failure at any file operation and one crash or shutdown at any point, with the recovery after it |
| `RunQueueLive` | 2 batches, a peer, 2 deaths, 1 update whose relaunch may fail, reorder requests of up to 2 ids, fairness | `WritesUnderLease`: a leased manifest is its owner's; `OrderIsKept`; `NothingIsStuck`: released work ends, deferred restarts happen, a dead queue is recovered |
| `KeyManager` | 2 pools, the second of which gets a key of the first imported and loses it again, 2 requests, dead and refused keys, cancellations, crashes | `LeasesAreSound` (exclusive, and whoever waits is woken), `VerdictsAreKept`, `VerdictsStand` |
| `JobScheduler` | 6 jobs of 2 pools, 3 at a time, a pool of one key, fairness | `SlotsAreShared`: both caps, no idle slot, no starvation; `RunsTheBatch`: the refinement of `Batch` |
| `RunOwnership` | 3 processes whose claims overlap, each may die at any step, fairness | `OneVisibleOwner`, `ClaimEnds` |
| `ProviderCall` | 5 calls of 2 runs: 3 of one key that 2 pools list, two of which may be cancelled at any point; 2 with keys of their own; ceiling 1; fairness | `GuardHolds`: serial keys, bounded overspending; `PermitsWithinLimits`; `CallsEnd` |
| `JobWorker` | 2 jobs of one screenshot, one of a model that sees it and one that needs its caption, 2 attempts, self-check, 1 failing output, 1 failing manifest write, a cancellation at any point, fairness | `DocumentsAreSound`, `LedgerIsTrue`, `PaidOncePerPass`, `RunEnds` |
| `AutoUpdate` | the daemon and a second process of the installation, 1 failure, 1 crash, 1 change of the setting, 1 run, an old executable of more than an hour, fairness | `UpdatesAreSound`: one transaction at a time, something that starts in place; `UpdateArrives` |
| `Tray` | 2 daemons, 2 disturbances (crash, freeze, launch by hand, hand-over, shutdown), 2 misses to revive, fairness | `OneAtATime`, `BusyIsSpared`, `ComesBack` |
| `RunFeed` | one tab, a run of the daemon that may be deleted, a run of another process, 2 answers under way, 2 deletions, 1 disturbance, fairness | `Watched`, `PageCatchesUp`, `WishIsKept` |
| `SourceUpdate` | a source file, a file the update deletes, a running program; 2 edits, 2 failing commands, 2 updates to as many commits | `EditsAreKept`, `ReportIsTrue`, `LandedComeBack` |
| `Services` | eleven parts, below | `ChoicesSettle` (`Viewer`, `Sync`), `CatalogIsTheUsers` (`ConfigStore`), `InputsAreSound` (`Inputs`, `CostEstimate`), `CallersAreServed` (`Mcp`, `Recipe`), `StoreIsTrue` (`RunStore`, `Export`), `PagesAreTrue` (`Viewer`, `Gallery`), `HarvestIsSafe` (`Thumbnail`) |

The parts of `Services`: `Viewer` with 2 runs, one of them live, and 4 events; `Gallery` with 4
runs in pages of 2 and 5 requests; `Thumbnail` with 3 runs, 1 browser and 2 results;
`ConfigStore` with 3 processes of versions 2, 3 and 3, an item that version 2 does not know, 2
changes and 1 fault; `Inputs` with 4 files, some of them there at first, 3 requests and 1 fault
(one is called "all", and ids that are other files' names come both of numbering and of an
extension within the name); `CostEstimate` with 2 jobs and 4 requests; `Mcp` with 2 ids, a
cap of 2 and 5 lines; `Recipe` with 2 files, prompts and models and 2 retries; `RunStore`
with a run of its own and one of another process, a cache of 1 and pages of 1; `Export` with
2 files and 2 entries made in memory, of which an archive takes 3; `Sync` with 2 themes and 3 requests at a time.

Why the bounds are enough. Three batches with two places give every relation the queue's code
compares: one running and one waiting, or two waiting in either order, with a third refused
(`MaxQueuedRuns` counts the running one). Reorder requests that name batches are in
`RunQueueLive`; the failing write of a reorder is in `RunQueueFaults`. One failing
operation separates "the write threw" from "it did not" at each place the code writes; one
death puts the crash between any two steps and recovery after it; two deaths with a peer let
both processes die once. Batches are interchangeable but for their weight, so symmetry among
those of one weight is sound in the runs without liveness. The queue admits two light batches
or the heavy one, so each limit refuses something the other lets through. Two requests and two
keys, one shared, are the smallest instance in which a verdict crosses pools and a request
outlives its lease. Six interleaved jobs under a total of three make each cap bind alone and
together and give the cursor two full rounds. Three processes are a dead owner and two that
reclaim its run at once, one of which may then be robbed, and rob in turn; `OwnerInv` is proved
for any number. Three calls of one
key are a link, the link that gives up and the link behind it, in two pools and two runs; the
other two contend with them for permits, and the second run lowers the limits of the first.
Two jobs of one screenshot are a worker that waits for the other's caption and one that is
cancelled while its helper's call is out; two attempts are one key that fails and the next.
Two processes and one crash make a lock an abandoned one while the other wants it. Two
daemons are the one the tray spawned and the one it cannot see. In the pages, two answers
under way are one that overtakes the other; a second page is in the deletions of `RunFeed`.
Two edits with a rolled-back update are one before and one during it. The `Services` parts
have each two of what the code tells apart, and one more where a page or a cache is full.

Bounds: `MaxFailures`, `MaxCrashes`, `MaxUpdates` and `MaxRequest` bound how often the
environment interferes in `RunQueue`; `Answers`, `RetryAfters` and `ShortCooldowns` what a
provider answers with in `KeyManager`, where cooldowns last one or two ticks. The limits of the program
(`MaxQueuedRuns`, `MaxQueuedBytes`, `TotalConcurrency`, `MaxPoolConcurrency`, the watchdog's
`ReviveAfterMisses`, `BusyPatience`, `ReviveGrace`, `CrashLoopMax` and `CrashLoopWindow`) are
parameters and small in the runs. In `ProviderCall` a call costs nothing or `MaxCharge` = 1
against a ceiling of 1, and `Signalled` is who can be cancelled. `MaxOutputFails`,
`MaxManifestFails`, `MaxFails`, `MaxToggles`, `MaxRuns`, `MaxDisturbances`, `MaxAnswers`,
`MaxDeletes`, `MaxEdits` and `MaxApplies` count what goes wrong or is asked for in the others.

Deadlock is not checked: every one of these systems may come to rest (no requests, batch done).

### Fairness

* `RunQueue`: weak fairness of what the event loop owes: promises of a batch settle
  (every provider call carries a timeout), the two-second close timer and the update timer
  fire, `import()` returns, the boot goes on, `shutdown` reaches `process.exit`. Requests,
  crashes, failures and peers owe nothing. `Boot` is fair because the tray host starts the
  daemon again.
* `JobScheduler`: the loop runs on and workers settle.
* `RunOwnership`: a claim is synchronous, so its process goes on; a rename of a dead lease
  does not fail for ever (strong fairness of `Quarantines`, for it is not enabled while its
  claimant looks again). Without that, `ClaimEnds` is false: the loop has no bound.
* `ProviderCall`, `JobWorker`: the event loop goes on while a promise can settle, and every
  request carries a timeout. Fairness of the steps together is enough: a call, or a job,
  takes a bounded number of them.
* `AutoUpdate`: each process goes on with what it is in the middle of, timers fire, the
  queue's `import()` returns, the shutdown reaches its exit; runs end (strong, since new ones
  may begin). Failures, settings and updates by hand owe nothing.
* `Tray`: the tick's timer fires, the worker thread goes on, the quit goes on, a daemon that
  boots gets on with it and one that is leaving exits.
* `RunFeed`: the network delivers in the end: `Follows` is the answers, events and timers.
* `KeyManager`, `SourceUpdate` and the parts of `Services` state safety only. That nobody
  sleeps through a release is an invariant there: whoever waits has a signal to be woken by.

### Where the code and its words disagree

The properties below are what a comment of the code says, or what its users would expect, and
the code does something else in a corner. They are definitions of their modules, checked by
no run, and each is seen to be violated by adding it to the configuration named in
brackets. (A property of one of the `Services` is checked by instantiating its module alone
with the constants that `MCServices` gives it.) Next to each is the property that does hold.

* **NeverIdleWithWork** [`RunQueueFaults`] (`src/http/runQueue.ts:186`: "Let every run currently
  parked in the queue start"). When one manifest write throws in `releaseQueue`, the runs are
  released in memory, the handler fails, and the runner stays idle until another call
  reaches the pump. `RunnerKeepsGoing` bounds the damage: it takes a failed write, and the
  next press whose writes succeed starts the queue.
* **RelaunchInterruptsNothing** [`RunQueueLive`] (`src/auto-update.ts:189`: "a run in progress is
  never interrupted by a self-relaunch"). `hasActiveRun()` is asked once; `relaunchForUpdate`
  then schedules the shutdown, which closes the listener last, and batches are admitted and
  started until the exit. On disk such a run is "running" and settled as an error at the next
  boot, with its money spent.
* **OwnerWrites** as `[][OwnerWrites]_vars` [`RunQueueLive` with `MaxFailures = 1`]. A batch whose
  start fails gives its lease back (`src/runner/reimagine.ts:386`) with the manifest still
  "queued"; a peer adopts the run; then `runQueuedEntry` writes the error manifest
  (`src/http/runQueue.ts:284`) over it. `WritesUnderLease` holds as long as no write has failed.
* **PermissionBenchesNoKey** [`KeyManager`] (`src/keyManager.ts:12`: "403 resource/model access
  denied; not a key-health failure"). `interpret` of the health check has no case for
  "permission" and reports "unknown", which benches the key for 30 seconds in every pool that
  lists it.
* **CooldownIsTheCredentials** [`KeyManager`]. A verdict reaches the pools registered at that
  moment. A key imported into a pool later starts there without the cooldown it has elsewhere,
  until the next verdict. `VerdictsStand` is about the moment of the verdict.
* **ReclaimerSparesSuccessor** [`RunOwnership`] (`src/store/ownership.ts:81`:
  "neither can remove a successor created after the old file is moved out of the way", and
  `:4-5`: "That prevents a competing reclaimer from deleting a successor's lease"). The
  rename takes whatever is at the path by then: two claimants read the same dead owner, the
  first moves it away and creates its own lease, the second moves *that*, and both own the
  run. It takes two daemons on one output directory that reclaim the same run at the same
  moment. `OneVisibleOwner` is what is left of the comment: it speaks of the owners that were
  not `robbed`.
* **RestoredByteForByte** [`JobWorker` with `UnreadableDrafts = TRUE`]
  (`src/runner/job-worker.ts:455`: "anything short of a clean revision ... restores it byte for
  byte and the job stays ok"). `readIfPresent` takes a page it cannot read for one that is not
  there; a revision that is then no good stays in its place. `DocumentsAreSound` holds, and is
  proved, where the page can be read.
* **RollbackKept** [`AutoUpdate`] (`src/update-lock.ts:96`: "Keep recent rollback binaries: an
  interrupted handoff can still need them"). A rename keeps the time a file was written, so the
  age is that of the build: an old release's executable is removed however recently it was
  moved aside.
* **QuitLeavesNothing** [`Tray`] (`misc/tray-host-native/src/main.rs:74`: cancel is set "so an
  in-flight worker stops instead of resurrecting what we are closing"). `restart_once`
  (`misc/tray-host-native/src/tray/worker.rs:183`) does not look at it: a Quit between its stop
  and its spawn leaves the new daemon running.
* **FinishIsTaken** and **UndoIsKept** [`RunFeed`]. "A reconnect to a finished run just replays its
  final manifest as `done`" (`src/web/src/stores/control/runs.ts:336`) is not so of one that found
  the run in the registry and joins after it was closed (`src/http/routes/runs.ts:57`): it is sent
  the last manifest as a snapshot, no `done`, and its stream stays open. And a run deleted
  again while its first deletion waits is deleted by the first timer, whatever becomes of the second (`runs.ts:15` against `:517`). `WishIsKept` names that
  exception and no other.
* **LandedUntouched** and **CommitsStay** [`SourceUpdate`]. "Their files are never touched"
  (`src/updater-engine.mjs:235`) is not so of an edited program, which is moved aside; and the
  reset of a rollback takes the developer's commit off the branch when he committed before the
  engine's last look, since `git status` is clean then. `EditsAreKept` holds: the commit is
  still there, on no branch.
* **Followed** and **KeepIsTheUsers** [`Viewer`]. A page that leaves a run and returns to it, or a
  refresh that overtakes a load or the run's end, may show a live run without its stream. An
  edit before the first GET has answered replaces the stored notes and protection; a failed
  GET with stars in local storage stores `keep = false`; reopening a run while a PUT is queued
  shows the review before it.
* **NoRowOfADeletedRun** [`Gallery`] (`src/web/src/stores/viewer.ts:331`): a page of the list that
  was asked for before a deletion brings its row back, for `loadMoreRuns` does not filter.
* **DeletedStaysDeleted** and **HarvestedOnce** [`Thumbnail`] (the head of `src/thumbnail.ts`: "making
  it DURABLE so it only ever happens once per run"). A render that ends after its run was
  deleted writes the manifest again; a flush of a live run forgets the thumbnail it does not
  know of, which is then harvested a second time.
* **OwnerKeepsLock** and **LockCanBeReclaimed** [`ConfigStore`] (`src/config/shared.ts:62`: "Drop a
  lock only when its recorded owner is no longer alive; a live owner keeps it"). Two processes
  that read the same dead lock remove it one after the other, the second a new one; and a lock
  that was created and never written is nobody's for good.
* **DeletedStaysAway** and **CorrectionsArrive** [`ConfigStore`] (`src/config/migration.ts:3`:
  "without overwriting edits or reviving tombstones"). A prompt deleted while the baseline does
  not have it comes back with the next migration; a migration cut between the catalog and the
  baseline makes the next one take a shipped correction for the user's edit. So does a version
  that does not know an item: the record stays, the baseline forgets it, and when a later version
  ships the item again the record is taken for the user's (`lingers`).
* **TakesOnlyWhatIsTicked** and **IdsAreUnique** [`Inputs`] (`src/inputResolver.ts:81`: "Ensure ids are
  unique even if two names slugify to the same token"). The number given to the second file of
  a slug may be another file's name, and an id moves to another file when one comes or goes. A
  selection goes by names as well as by ids (`src/inputResolver.ts:263`) and a slug keeps its
  dots: the id of `a.png.jpg` is `a.png`, and ticking it also makes and pays for a file of that
  name. The id of `all.png` is "all", which ticked by itself is everything.
* **NoPriceOfNothing** [`CostEstimate`]: a request under way when the selection becomes empty is not
  made void, and its price is shown for nothing.
* **CancelledIsNotRun** [`Mcp`]: only requests in flight are looked up, so one that is cancelled
  while it waits is run.
* **RetriedOnce** [`Recipe`]: nothing relates two retries of a run, nor a retry to what an earlier
  one, refused on its way, has queued.
* **RowsAreNeverOld**, **NothingIsLeftBehind** and **HitsAreReinserted** [`RunStore`, the last with
  `CacheMax = 2`]. A summary read before another process's last write may be cached under the
  time and size of it; a removal that fails half way may have taken the manifest first, and
  nothing finds the rest; a summary that is used does not move to the end
  (`src/store/summary.ts:16`).
* **ChoiceIsKept** [`Sync`] (`src/web/src/stores/control/sync.ts:27`: "doesn't immediately echo it
  back out as a push"). The watcher runs after `applyingRemote` is reset, so what the page
  takes over is echoed; two choices within a round trip then alternate for a while, and the
  answer to an earlier one may stay. `ChoicesSettle` holds *because* of the echo: it makes page
  and daemon agree in the end.

Observations met on the way:

* Leases and queue. A lease whose record was never completed (a crash or a failing write
  between its two operations) counts as owned for good: no claimant can read an owner to
  judge, a heartbeat that cannot read its token writes nothing, and the release leaves the
  file. A claim that meets a release half done is refused with 409 although the run is free.
  A failing unlink keeps the lease until the process exits; a dead lease whose rename keeps
  failing keeps the daemon's only thread in `claimRunOwnership`. `cancelRun` of a waiting run
  whose last manifest cannot be written leaves an aborted entry in no queue; nothing removes
  it, so `hasActiveRun()` stays true and a deferred restart waits until the process ends.
  `addToQueue` reads `queuedBehind` before its awaits.
* Provider calls. The limits of the network are lowered by every run and raised again only
  when the network is idle: with overlapping runs the smallest lasts longer than its run. A
  call cancelled on its way to a permit is recorded like a failed request of unknown usage
  (`src/provider-call.ts:206`), though none went out; one cancelled while it waits for its key
  is not recorded. When the last waiter of a key gives up, its entry in `tails` stays; it is
  resolved, so it blocks nobody. A run may pass its spending ceiling: `GuardHolds` says by how
  much, which the code does not: less than what its concurrency lets out at once.
* Keys. A verdict newer than the 400 ms debounce is lost by a crash: the key is tried again.
  `classifyJobCallError` reports an exception of the program itself as "unknown" and benches
  the key for 30 seconds; `reportFailedAttempt` reports the same thing as a bad request and
  benches nothing.
* Updates. A lock that its owner never wrote wedges updates (`UpdateArrives` says so).
  A crash between the advance of a checkout and its build leaves a stale build, and later
  checks say "up to date". An edit of a program after the check is moved aside with it and
  deleted by the next update (`late`). A failing `git status` reads as a clean tree.
  `clearShutdownRequest` at a boot can erase the user's request.
* Pages. `restoreRememberedRun` blanks the card when it fails late. A beacon sent while the
  daemon is down loses a deletion. Starring while another run loads goes to the new run, and a
  pair of the arena is drawn from the manifest before (both read, not modelled). `loadSettings`
  ignores `force`, and a GET of the settings may be answered before a PUT is stored. Snapshots
  of keys, models and prompts are applied in the order they arrive; a selected model whose key
  is deleted stays selected.
* Catalog. A file that cannot be read is taken for an empty one and written back
  (`readConfig`, `readJSON`); the cache of `readConfig` goes by time and size;
  `saveAppSettings` takes no lock. An undo in the arena removes the newest vote, whoever cast
  it.
* Inputs. `saveUploadedImages` is not atomic (a second image that is no good throws after the
  first was written) though `src/web/src/stores/control/selection-content.ts:29` says "saves each
  batch atomically". The answers to deletions and to the page's boot are not ordered with
  those of uploads. A repeated deletion of an id removes another file.
* Runs on disk. Images are read when a job needs them, after the start has verified them. An
  expired disk usage is overwritten when a walk that was pending ends. The retention sweep
  asks for `keep` before it removes, and another process may set it in between. A run settled
  as an orphan at a boot is young for that boot's sweep. `recordThumb` reads and then writes,
  and may lose a flush of another process. The cached spending of a day is stale for up to 15
  seconds after a deletion. `migrateMeasuredHtml` may overwrite a rewrite beside it.
* MCP. Two requests with one id share an entry of the registry; batches in an array are
  ignored in silence.
* Connections. `backfillIdentity` and `recordEngineStatus` may write identity and version back
  after a logout; enabling that races disabling leaves "enabled" without a connection.

## Proofs

Every theorem holds for every value of the constants that the named assumption of its module
allows. Each `Invariance` is of an inductive invariant (`IInv`, `OwnerInv`, `FeedInv`, `TrayInv`,
`AutoInv`, `UpdateInv`, and one for each part of `Services`) that TLC has checked on the instance
of the run before it was proved.
`Spec` is the specification without fairness, so what is proved of it holds of `FairSpec` as
well. Three of the proof modules are about several components that share no state, which is why
those have names of their own for what each has (`OwnerInit`, `FeedNext`, `autoVars`).

### The queue

`RunQueueProofs`, under `RunsAssumption` and `LimitsAssumption`, for every finite set of runs,
every limit, every bound on failures, crashes and updates, with or without a peer:

* `SpendingIsRight` (`SpendsAsAsked`), `WaitingRunsAreAgreed` (`WaitingRunsAgree`),
  `EndedRunsStayEnded`, `RegistryIsWithinLimits` (`WithinLimits`), `TheRunnerKeepsGoing`,
  `TheOrderIsKept`, `ManifestsAreTheOwners` (`WritesUnderLease`).

None of these but the types is inductive. That a batch is not started twice rests on a chain
through four pieces of state: the pump only takes runs from the queue; the queue holds only
waiting runs of the registry; a waiting run has a queued manifest and this process's lease, so
no peer may take it; a queued manifest means the batch has not started (`starts = 0`); and a
token that may still be admitted has left no trace anywhere. `IInv` is the conjunction
`TypeOK /\ Coherent /\ BatchFollowsCurrent /\ FreshTokens`. `Coherent` is stated of the
registry record a handler is about to leave behind, because handlers are compositions: one
lemma per helper says it keeps a coherent record coherent, one lemma per handler says the
record it passes on is coherent, and `StepOK` collects them, one case per action.

The other four look at a step the same way: it is one that leaves the registry alone, the
adoption of a dead queue, or a handler that hands a registry to a pump which then either turns
or breaks off on a failed write. `WithinLimits` is a count and a sum over the runs of the
registry: admission asks for room in both, recovery adds one run at a time under the same
test, and whatever else a handler does takes runs out. `RunnerKeepsGoing` and the first half
of `OrderIsKept` are facts about the pump alone: it takes the first released run there is, and
stops before it only when a write fails. The second half, that a reorder only reorders, needs
no behaviour: it is proved of the operator `Reordered` for every queue without repetition and
every request, repeated and unknown ids included. `WritesUnderLease` adds that a batch in
progress holds its lease until it has settled, which is where the absence of failures comes in.

### The lease

`RunProofs` proves `OneVisibleOwner` and that no step of another process touches the file of
an owner that is not robbed (`OwnersFileIsKept`), for every set of processes and every overlap
of their claims, under `ProcessAssumption` alone. Both follow from one fact about the file,
`OwnersFile`: at the path of an owner that was not robbed is the inode it created and the
record it wrote, and there is only one path. Three steps could destroy it. The rename is made
by a claimant that has read an owner and found it dead (`ClaimantKnows`): if the file is that
owner's nobody who lives loses it, and if not its maker is robbed. A heartbeat empties, and a
release unlinks, the process's own file unless the process was robbed, and then whose file it
is becomes robbed too; and a heartbeat writes to the inode it opened, its own or a robbed one's.

`RunQueue` with `Peer = TRUE` takes exclusive leases for granted; this is the proof that it
may, but for the case of `ReclaimerSparesSuccessor`.

### Keys

`KeyManagerProofs` proves `LeasesAreSound`, `VerdictsAreKept` and `VerdictsStand` for every set
of keys, pools, lists and requests. The manager's state is a record that each method hands to
the next, so there is one lemma per method (what `Registered`, `Reported`, `Spread`, `Released`
keep of a sound state) and one per action. In the middle of a step the request at hand is in
none of its places, so soundness there is stated of the others (`Others(w)`), and the action
closes the gap.

### Provider calls

`ProviderCallProofs` proves `GuardHolds` and `PermitsWithinLimits` for every set of calls,
keys, pools and runs, every limit and every ceiling. `Links` says that a call whose turn it is
stands in its chain behind resolved links only, and its own is not resolved: two calls with
the turn would each be behind the other. `Waits` ties places to the list of waiters,
`Counters` says that `active` and `activeIn` count exactly the calls with a permit, and
`Limits` that while a call holds a permit the network's limit is at most its run's.

`PermitsWithinLimits` is about calls that only wait, and their limits are not in the network's
until the loop has passed them. `PermitsAreWithinLimits` therefore follows the loop: all waiters
but the last to come have been seen, each one seen has lowered the limits to its own, and one
that was seen and stayed would be refused again; so the round that gives a permit has seen
everybody whose limit it could break.

### The scheduler

`RunProofs` proves `SlotsAreShared`, that the batch is complete when its promise
resolves, FIFO per pool, and that the scheduler implements `Batch!Spec`, for every number of
jobs, set of pools, size of pool and limit. The caps rest on `CountersCount`: the counters
count, which includes that `Math.max(0, ...)` never bites. The other parts rest on
`Behind(k)`, how many visits ago the pool at place k of the round robin was visited. A pass
that has started nothing has found nothing at any place less than `scanned` behind
(`FoundNothing`), so when it ends it was everywhere; and a pool that can start a job has been
passed over at most `Behind(k)` times (`PassedByOthers`), which is less than the number of
pools. Completeness comes from `Results`: finished jobs have a result, no job has two, and
`done` counts them.

### The job worker

`JobWorkerProofs`, under `JobWorkerAssumption`, for every finite set of jobs and inputs, every
total, budget of attempts and bound on failing writes:

* `TheLedgerIsTrue` (`LedgerIsTrue`): the counts are the jobs that ended, at every moment, and
  when the run closes what it spent and how it ended is on disk;
* `NoPassIsPaidTwice` (`PaidOncePerPass`);
* `SecondPassesAreSafe`: a second pass never costs a job its success, and a kept retry is clean
  and lies beside the answer it replaces;
* `TheDocumentsAreSound` (`DocumentsAreSound`): besides, what is shown of a job is what was
  saved and scored. This one assumes `~UnreadableDrafts`, for it is false without
  (`RestoredByteForByte` above); the theorem before it does not.

`IInv` says of each place of a worker what is known of its job there (`JobOK`): in the retry,
that the snapshot is the sloppy answer of the first pass and still on disk; in the self-check,
that what was set aside is what is on disk, and what the retry had kept; at the end, what the
gallery is told. `SavedOK` is about the ledger: whatever is not on disk is marked dirty, unless
the run has been cut short, and while jobs are open the run is; `HelpersOK`, that unless the
run was cancelled, a worker in its passes has every helper's answer it waits for, so that none is charged behind the last write; `CountedOnce`,
that each job is in one count. A step of a worker is split in what it does to its own job, to
the helpers and to the ledger; `Elsewhere` says that it does nothing to other jobs.

### The tab

`RunProofs` proves `Watched` and `WishIsKept` for every set of runs and every bound. An event
is on its way only over a stream (`EventsHaveAStream`), so no event can set a run going on the
page after its stream was given up; and a deletion that waits is what the user wished, and the
only one of its run, or its run was deleted twice (`PendingIsWanted`).

### The tray and its daemons

`UpkeepProofs`, under `DaemonAssumption` and `PatienceAssumption`, for every finite set of
daemons, every patience of the watchdog and every bound on disturbances:

* `OneDaemonAtATime` (`OneAtATime`): two daemons do not both listen unless one started where it
  could not see the other, and the UI thread and the worker are never both at one's processes;
* `TheBusyAreSpared` (`BusyIsSpared`): a daemon that has answered is ended by the watchdog only
  after a silence longer than `BUSY_PATIENCE`, or when its listener is gone.

The first is about the moment between the probe of the port and the bind. A *contender*
(`Contender`) is a daemon that listens, is about to bind, or was told a port to take over, and
did not start blind. `LaunchInv` says that whoever is at the check or the bind holds the gate,
and that two contenders are the one that leaves and its successor (`Succeeds`). The gate alone
would not do, since it is given back once the daemon serves: what carries over is that the next
holder's probe finds it. A daemon whose probe misses another that listens or is about to is
`blind` from then on, and so are both parties when a launch lock is unlinked that was taken
after it was judged; these are exactly the cases the theorem leaves out. The second rests on `WatchInv`: the watchdog's count of silent ticks never
exceeds the silence there was. `watch.revives` is left untyped: it is filtered with
`SelectSeq`, which is recursive in the library, and nothing rests on its type.

### Automatic updates

`UpkeepProofs`, under `HostAssumption` and the assumption of `Updater`, for every set of
processes and any number of failures, crashes, settings and runs: `UpdatesAreSafe`
(`UpdatesAreSound`). Its four parts are four conjuncts of `AutoInv`.

* *One transaction.* `LockInv`: whoever is inside holds a lock that names it; a lock without a
  name is its writer's; a lock that names its owner is held by it or its owner is gone; and
  whoever was found dead when the lock was judged still is. The unlink by a process that
  found the owner dead looks at nothing, like the rename of a lease, and is harmless as long as
  what it removes is what it judged: when it is not, `raced` says so, from then on.
* *Only what was released.* `ReleaseInv` follows the archive from its digest to the place of
  the executable; with one transaction nobody else writes the staging directory meanwhile.
* *Something starts.* `KeptInv`: there is a whole executable in place or kept, and while one is
  being replaced there is a whole one among the copies, so a torn write costs nothing.
* *One timeout.* `TimerInv`: the loop has a handle exactly when it is to wait, there is one
  timeout then, and it is in a round exactly when it ticks.

The attempt to prove the third part found its former statement false. It had blamed the loss of
every executable on the cleanup that removes the last one (`swept`). After a race there is
another way: a torn executable is moved aside, a cleanup that should not run at that moment
takes the older copy while the new release is in place, and the undo removes that. TLC finds it
with four failures and three updates by hand, in 39 steps. `ExecutableSurvives` now says what is
true: a cleanup took the last one, or two processes were at it at once (`raced`).

### Source updates

`UpkeepProofs`, under `SourceUpdateAssumption` and `TreeAssumption` (a commit has text at every
file, and never text only the developer has), for every set of files, history of the remote and
bound on edits, failures and updates:

* `NoEditIsLost` (`EditsAreKept`): what the developer wrote before the engine's last look is in
  the work tree, a stash or a commit of his;
* `TheReportIsTrue` (`ReportIsTrue`): the report agrees with the commit, the steps made of it
  and the programs that are left;
* `LandedEditsComeBack` (`LandedComeBack`).

`UpdateInv` says of each place of the rollback where an edit is. `EditsInv`: at the hard reset
every edit that the reset could destroy is saved, and at the restore every landed one is; the
steps before get there by stashing what `git status` lists, and a file the engine has moved
aside is saved already. `ReportInv` is what is checked out at each place and from which commit
the last install and build were made. `ProgramsInv` says that a program is missing only between
the move aside and what replaces it, unless the report says so; it is about `Lasting`, the
programs every commit has, for the update itself may remove others. `LandedInv` is the one that
needs the whole rollback: after the reset the index is `HEAD`'s, after the restore the landed
files hold the release's text again, and after the unmarking they are unstaged, provided the
developer touched nothing meanwhile (`edits = seen.edits`) and nothing else failed.

### Services

`ServicesProofs` shows of each part that its invariant is kept by the part's own steps; the
other parts' steps leave it off. The assumptions say that a value for "nothing" is none of the
values it stands beside (`ViewerAssumption`, `SyncAssumption`), that runs, files and what a
recipe is made of are finite, and that a page and a cap are numbers; of the store
(`StoreAssumption`), that its runs are numbered in the order they were made and that its ages and
its cap are numbers; of a download (`ExportAssumption`), that entries, sizes and the limit are.

* `HarvestsAreSafe` (`HarvestIsSafe`). `RunnerKnows`: of a run that goes on, the runner knows
  all that was saved, so its next save takes nothing back. The picture is there before the
  manifest names it (`PicturesFirst`), and somebody waits only while every browser is taken
  (`InLine`).
* `PagesShowWhatIs` (`PagesAreTrue`). The viewer counts only requests and events of the run
  that is open (`CountsForOpen`, `StreamFollows`), and either shows it or awaits it
  (`ShownOrAwaited`); the list hides a run for the deletion of that run only (`DeletionsOK`).
* `SelectionsAreSound` (`InputsAreSound`). A list, on the page or in an answer under way, is of
  the files as they were at its version (`UploadsFit`, `CallsFit`, `ListFits`), and a page that is
  behind has the answer under way that brings it up to date (`Fresh`), unless one overtook
  another. What a run takes beyond the ids goes by name, so what is left to show is that the ids
  the page showed ticked are of the same images on disk: an id depends on the files of its slug
  alone (`IdGoesBySlug`), so it does unless one of those came or went, which is what `Stirred`
  says (`SelectionIsWhole`). Requests of the newest number are for what is selected, and where there is none, what
  is shown is its price (`RequestsCount`, `PriceAwaited`).
* `CallersAreServedInTurn` (`CallersAreServed`). What waits is in the order of its lines
  (`LineIsOrdered`), and two in flight with one id know of each other (`TwinsAreKnown`). What a
  copy has got is a beginning of a file that nobody has torn (`CopyUnderWay`), and what is left to
  copy has not been copied (`CopiedOnce`). A retry has made what it was asked for of the groups
  it is through with (`RetriesOK`), which is where the sums come in.
* `ChoicesAreSettled` (`ChoicesSettle`). The saves of a run's review go one after the other, the
  last with all that was chosen; so what will be stored once they are through is what the user
  chose, and what the page shows once it has the review (`ChoiceIsOut`). An answer that no choice
  and no save overtook is what is stored (`AnswersAreFresh`). Page and daemon have one theme, or
  a request or an answer is under way that will give one the other's (`AgreesOrWill`, `Coming`);
  a page that knows nothing yet has asked what there is and nothing else (`FirstLook`).

* `CatalogStaysTheUsers` (`CatalogIsTheUsers`), under `ConfigAssumption` (no version ships the
  user's text). `LockHeld`: a process at the catalog is the one the lock names, and who was found
  dead stays dead, so only a removal of another lock than the one judged (`raced`) lets two in.
  Hence what a process has read is what there is (`HolderKnows`). `StoredAsWanted` says of each
  item that it is stored as wanted and where its deletion is remembered: a model's in the archive,
  a prompt's in the baseline, which is why a prompt the baseline never had can come back.
  `ShippedOrTold`: unless a migration is half-way, what was not touched is as the baseline ships
  it; while one is, it is to make it as its own version ships it (`WillBeAsShipped`).

  The proof of the last part failed for a good reason. `CatalogIsTheUsers` had said it of every
  untouched item, and TLC had agreed on an instance where no version drops an item. With one that
  does, it finds the counterexample in 16 steps: the old record lingers. The statement now
  excludes what `lingers`, and the run has such a version.

* `StoreStaysTrue` (`StoreIsTrue`), of the store and of a download.

  Of the store (`StoreInv`): a summary is remembered once, under a time and a size of its manifest
  that will not come again unless the change is counted as `blurred` (`CacheOK`), and says of a
  live run that it is live however old it is. A listing holds each row against all that was true
  of its run since it began (`held`), goes from the last run to the first, and has for every run
  a row, or still to come, or a moment at which the run was not there (`ListingOK`). What was
  unsettled at the boot is too young to be swept before it is settled (`SettledLate`); and a walk
  counts of the runs that are gone only those nobody could tell it of (`UsageOK`).

  Of a download (`ExportInv`): what was emitted adds up to the offset between two entries, and
  within one to its header and what was read of it; the entries that are behind are there as the
  directory will have them (`Behind`), and data is only of those (`DataOfFirst`), which needs
  that the plan has no entry twice (`PlanInOrder`). So the record at the end, whose numbers come
  from the offset and the count alone, points at the directory. What is sent was read, and what
  is read is counted against the limit (`ReadsWithin`).

### Collections

`CollectionProofs` holds what the others share. What `Pick` returns: a sequence over exactly
the picked elements, injective when its source is, in order, and all but one of them when all
but one are picked. The filters of the queue, the key manager and the network are instances
of it. What a sum over a finite set is (`SumFunctionOnSet`, a fold over a `CHOOSE`n order): a
natural number that an element more or less changes by that element's value, that equal
values leave alone, and to which elements of one value add its multiple. An induction
theorem with an operator as its parameter is beyond the provers, but induction itself is not:
`SubsetInduction` states it of a *set* of subsets, and is proved from a least counterexample.

### What stays with TLC

Liveness under fairness and `ENABLED`: `NothingIsStuck`, `CallsEnd`, `ClaimEnds`, `RunEnds`,
`UpdateArrives`, `ComesBack`, `PageCatchesUp` and the fair half of `RunsTheBatch`. Every other
property of a run is a theorem.

## Plan

Done: the modules above, and proofs for the queue, the lease, the keys, the scheduler, the
job worker, the provider calls, the tab, the tray, both kinds of update, and the services,
which are all the safety properties the runs check. Next would be the parts that are listed as
not modelled or in part.

Where a model is coarser than the code: a pull that its timeout kills has done nothing
(`SourceUpdate`); a kill may fail when a daemon is reaped, not when it is stopped or retried
(`Tray`); every lock that a daemon leaves is an orphan from the first, also one that names no process,
which `launch-lock.ts` judges by its age, and one cut short, which it never removes (`Launch`); a folder of screenshots is not an input (`Inputs`). The
verdicts of the last 400 ms are lost in a crash, in the model (`KeyManager`) as in the code.

Where a new question needs an instance of its own, a run whose properties another instance
can carry is merged first, as the parts of `Services` were.

Not modelled, and why: provider adapters and costs (requests, and arithmetic without state,
tested directly); translations, types, components and styles of the pages (no state of their
own but what the stores hold); the settings pages and the wizard; grouping of screenshots and
the reference library; the arena's ratings (a fold over saved votes); the command line and the
tools of the MCP server (callers of what is modelled); the pricing script, packaging and the
crash sentinel (run beside the program or not wired into it). `PROJECT.json` lists each with
its reason. What is modelled is the part of the source that keeps state between two turns of
an event loop, two processes or two lives of one.
