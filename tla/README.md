# ModStaller in TLA+

ModStaller sideloads iOS apps. A Python backend (`modstaller/`) talks to Apple
and to the device and speaks JSON-RPC over stdin/stdout; an Electron main
process (`gui/electron/*.cjs`) starts it, keeps running in the tray, renews
apps before their seven days are over and updates itself; a Svelte window
(`gui/src`) is the user interface. This directory models the parts in which
several activities meet, fail or are killed. Paths below are relative to the
repository.

`tlc -config X.cfg MCM.tla` repeats a run, `tlapm XProofs.tla` repeats proofs.
`PROJECT.json` maps every definition to its lines and lists runs, hazards,
mutants and theorems.

## 1. Inventory

| Component | State it keeps | Operations | What is hard about it | What makes it correct |
|---|---|---|---|---|
| Background scheduler, `scheduler.cjs` | none; a pure plan over `memory` | plan, manualPlan, onRefreshResult, forgetBackoff, nextRefreshAt, idleForUpdate | counters and markers that live over many ticks, relaunches, sign-ins | no notice twice, repeated failure is told |
| Background operation, `main.cjs` | `memory` (a file), `ticking`, `refreshing`, `rendererJobs`, `pending`, `tickTimer`, `lastStatus`, `hiddenSince` | tick, renewNow, runRefreshes, backend start, loss and restart, settings, silent update | awaits between check and use; the backend dies with calls open; window and background share device and account | ticks never stop, the background yields to the window, the display is true, updates do not interrupt |
| JSON-RPC server, `server.py` | `_jobs`, per job `cancelled` and `_cancel`, open questions | handle_line, _dispatch, Job.isolated, cancel, ask, serve | worker threads with loops of their own; cancellation from another thread; end of input | answered once and last, no lost cancellation, the process ends |
| JSON-RPC client, `gui/src/lib/rpc.ts` | open calls | start, cancel, failAll | relies on the server | the contract, `RpcContract.tla` |
| Window state, `state.svelte.ts`, `actions.ts` | one running task, prompts, copy of the background's state | runTask, prompts, boot and restart screens | its copy of `refreshing` lags; one slot for 2FA and PIN prompts | one task at a time |
| Pipeline, `pipeline.py` | none of its own | install, refresh, uninstall | many calls to Apple and the device, each may fail or be killed | right app, right ID, quota, record |
| App IDs, plan, quota | App IDs at Apple | ensure_app_id, make_plan, team_quota | quota read when planning and used later; reuse of App IDs | nothing is created in vain; no installed app loses its App ID |
| Signing identity, `provisioning.ensure_certificate`, `csr.py` | key, request, certificate, PKCS#12 and password, a file each | ensure, revoke, build | a kill, a torn file or a lost answer between two of the steps; other tools' certificates | each certificate Apple lists for us is usable, and there is one |
| Install records, `state/store.py` | `apps.json` | record, forget, due_for_refresh | the whole file is read and written without a lock | what is installed is recorded |
| Device connection, `connection.py`, `tunnel.py` | one tunnel per process behind a lock that helper threads take | resolve, enter, rsd, retry, release | cancellation abandons a thread that waits for the lock; release by somebody who does not hold it | one tunnel at a time; every job ends |
| Known devices and search, `discovery.py`, `registry.py`, `wifi.py`, `tvpair.py` | `devices.json`, pair records, what was seen, one wake-up flag | scan, record, enable, disable, pair, forget | everybody writes back the whole list; a scan under way while a device is forgotten | only what was asked for is offered; "search now" is heard |
| Readiness, `readiness.py` | none; the phone's | checks, five fixes | the owner unlocks, declines, unplugs; the fix restarts the phone | a fix ends, and one that reports success has helped |
| JIT, `jit.py`, `gdb.py`, `jit_host.js` | the conversation with the debugger | launch, attach, breakpoints, batches of writes, detach | late answers, an app that dies, a connection that breaks | it ends; the app is not told of memory it may not execute |
| Apple sign-in, `gsa.py`, `http.py`, `anisette.py` | device identity in memory and on disk | handshake, 2FA, retries on two levels | throttling, lost answers, a device identity another process discards | it ends; a discarded identity stays discarded |
| Accounts, `session.py`, account handlers | index, one session per account, the cache of Apple's side | login, logout, setActive, account, view, delete | late writers against a sign-out; two files per change; views under way while the cache is cleared | a team is never noted for a stranger; no stale view |
| Store, `store/` | list of sources, catalog, IPA cache | add, remove, toggle, load, download, clear | loads that overlap; `.part` files; new defaults in a later release | removed stays removed; the catalog follows; IPAs are whole |
| Self-update, `setup-update.cjs`, `linux-install.cjs` | versions, `.part`, three directories | check, channel, download, quit, install, exchange | overlapping downloads; a setup killed in the middle | what is installed is one version in full |
| Host setup, log book, autostart, command line, views, packaging | files | sequential | I/O | - |

How they interact: the window sends requests through the main process
(`rpc:send`), which forwards them and books those of `BUSY_METHODS`; the main
process sends its own (`status`, `refresh`) over the same pipe; the backend
answers both and sends events. The handlers of the backend run in worker
threads, which share `apps.json`, the sessions, the signing identity, the list
of devices, the caches, the one tunnel and the one device. The window learns of
the background through `daemon:state`.

## 2. Modules

| Module | Models | Notes |
|---|---|---|
| `Scheduler` | `scheduler.cjs` | pure operators on `memory` and a status; times are small numbers whose order matters |
| `Daemon`, `DaemonProofs` | background operation of `main.cjs` | EXTENDS `Scheduler`; the tick and any number of `renewNow`, the window's requests, the backend as a partner |
| `RpcContract` | what `rpc.ts` and `main.cjs` assume of the server | the abstract specification |
| `Server`, `ServerProofs` | class Job, class Server of `server.py` | implements `RpcContract` (`KeepsContract`) |
| `Install`, `InstallProofs` | `pipeline.install`, `refresh`, `uninstall`, with `provisioning`, `plan`, `quota`, `store` | jobs as sequences of calls, Apple and devices as environment |
| `Certificates`, proofs in `InstallProofs` | `ensure_certificate`, `csr.py` | one action per file and per call |
| `Tunnel`, `ConversationsProofs` | `connection.py`, `tunnel.py` | jobs, their helper threads and the lock |
| `Discovery`, `KnownProofs` | `discovery.py`, `registry.py`, `wifi.py`, `tvpair.py` | the search thread and workers; read, then write, of one file |
| `Readiness`, proofs in `ConversationsProofs` | `readiness.py` | one check or fix at a time; phone and owner as environment |
| `Debugger`, proofs in `ConversationsProofs` | `jit.py`, `gdb.py`, `jit_host.js` | host, wire and app |
| `SignIn`, proofs in `ConversationsProofs` | `gsa.py`, `http.py`, `anisette.py` | one sign-in at a time, other processes on the same files |
| `Accounts`, proofs in `KnownProofs` | `session.py`, the account and App ID handlers of `server.py` | threads, the index read and written in two steps |
| `Library`, `DownloadsProofs` | `sources.py`, `catalog.py`, `download.py`, `cache.py`, store handlers | sources and catalog; the IPA cache |
| `SelfUpdate`, proofs in `DownloadsProofs` | `setup-update.cjs`, `linux-install.cjs`, `channel.cjs`, updater part of `main.cjs` | app, setup process, releases |
| `MCDaemon`, `MCServer`, `MCInstall`, `MCSelfUpdate` | - | instances for TLC |
| `Progress`, `ProgressProofs` | - | "nearer its end", for the parts that retry: a well-founded order |
| `MCConversations`, `MCStores` | - | several models in one run, see section 3; `ConversationsProofs` and `StoresProofs` prove what the parts are side by side |

**Daemon.** A step is what JavaScript runs between two awaits. `runner[Tick].pc`
stands for `ticking` and the place in `tick`; `runner[n]` is one activation of
`renewNow`. A call to the backend is three steps: sent, computed by the backend
(`StatusAnswered`, `RefreshAnswered`), delivered (`TickPlans`, `RenewPlans`,
`RefreshDelivered`, `FinalDelivered`), so answers may be stale. `rendererJobs` is
the main process's book, `ui` what the backend really works on, `uiRefreshing`
the window's lagging copy of `refreshing`. `BackendDies` clears the book and
turns every open call into a rejected one (`backendGone`); `Settled` says that
all promise rejections are processed before the next event, which is how
microtasks run. The memory file is not a variable: each change of `memory` is
saved in the same synchronous stretch. Quitting stops the backend first, whose open
refresh is booked as a failure before the application ends: `BackendDies`, then
`Relaunch`.

**Server.** The main loop's steps are `MainStep`, a thread's are split where it
touches what the loop uses: it stores `_cancel` (`hook`), reads `cancelled`,
works, asks (`ask_blocking`), ends, closes its loop, returns. Isolated work may await
`asyncio.to_thread` (`pipeline.py:371`, the tunnel's lock, the JIT script): `Helps`
starts such a helper thread, and one that is still at work when its loop closes
goes on to `HelperEnds`. Request ids are not reused, as in `rpc.ts`. The six kinds
of handlers are named at `AllMethods`.

**Install.** A job's `pc` is the next call: list the apps, plan, obtain the App ID
and profile, the extensions' ones, install, read and write the records. An
identifier is the sequence of its parts. A record is keyed by the identifier
alone, as in `store.py`.

**Certificates.** `certJob[j].pc` is the next of the steps the comments of
`ensure_certificate` number; each file is written by an action of its own, and
`CertificateJobsKilled` may leave the one being written unusable. A certificate
is a number, the key it belongs to (0: another tool's) and whether Apple's list
has its content yet.

**Tunnel.** `sp[j]` is the `ServiceProvider` of a job, with the candidates and
attempts `rsd` has left. `acquire` and `granted` are the two halves of
`asyncio.to_thread(_LOCK.acquire)`: a job cancelled in the first joins
`abandoned`, whose thread still takes the lock; one cancelled in the second has
the lock and has not noted it. Both lose it for good. `CloseCancelled` is a cancelled
`aclose`: the lock is released although the tunnel may still stand.

**Discovery.** `actor["scanner"]` is the thread of `NetworkScanner`; the workers
are jobs and handlers. A writer of `devices.json` reads into its `copy` and
writes that back changed; `asked` remembers whom anybody ever switched on or
paired.

**Readiness.** `phone` is what the device's services would tell; `report` the
last list of checks; `Owner` acts up to `Interferences` times.

**Debugger.** `Exchange` is `send` and `_read_packet`: the debugger executes a
command, answers, and the host takes the oldest answer there is, or none.
`jit_host.js` is `Inspect` to `Tell`, its batches of page writes are single
writes whose answers are counted.

**SignIn.** `client.op` is the request, `attempt` counts `gsa_request`'s own
attempts, `resend` the adapter's; `round` the handshakes. `device` and `saved`
are the identities in the two files, `mem` that of the process-wide instance and
`provisioned` whether Apple has provisioned it: until then it is not saved, and not
taken for forgotten. `EmulationBreaks` and `ProviderFails` are the exceptions of
`headers()`. Another process makes and provisions identities (`MadeElsewhere`,
`ProvisionedElsewhere`) and discards them file by file (`ForgetElsewhere`, `forgets`,
`ForgottenThere`).

**Accounts.** Each handler is a thread that reads the index (`copy`) and writes
it later. `api` is the account whose session Apple is asked with, `about` the one
the result is noted for. The cache entry a view works with may have left the
cache (`hit`). What Apple was asked before a deletion is "outdated"; if Apple carried
the deletion out and the handler did not learn of it - the answer was lost, a retry
refused - it is "unreported", since `server.py:1211-1212` then clears nothing.

**Library.** `file` is `sources.json` with what counts as seen; `Configured` is
`sources.configured`, which may save. `Released` is a start with a newer release
that brings new defaults. An IPA is the set of chunks that has arrived.

**SelfUpdate.** `fetch` are the async functions under way, `part` and `image`
the two names of a download; a descriptor may outlive its name (`at`). `app`,
`staging` and `retired` are the three directories as sets of files, exchanged by
`Retire` and `Activate`.

## 3. Runs

The passing runs:

| Run | Instance | Shows |
|---|---|---|
| `DaemonNotices` | one app, the tick, sign-outs, quitting in the middle of a refresh and relaunches, refreshes that end ok, with a sign-in, another error or cancelled | `NoNoticeTwice`, `RepeatedFailureTold` |
| `DaemonRace` | one app, tick and one "Renew now", window calls install, login, store.install; backend dies and restarts, wake-ups | `TickChain`, `BooksMatch`, `BackgroundYields` |
| `DaemonAlone` | two apps, no "Renew now", window shown and hidden, update ready, relaunches, backend dies | `IndicatorTrue`, `UpdateNeverInterrupts` (for refreshes and the requests `BUSY_METHODS` lists) |
| `DaemonLive` | one app, fairness; backend dies, devices come and go, IPA missing | `DueIsTried`, `ActivationsEnd` |
| `Conversations` | with fairness, one of: three requests (an isolated, JIT or store.install job, a cancel or a second long job, a quick call); two jobs that want the tunnel; a readiness check or fix on iOS 15, 16, 17 and 27; JIT; a sign-in | everything ends: `Answered`, `CancelEnds`, `ProcessEnds`, `TunnelJobEnds`, `FixEnds`, `JitEnds`, `SignInEnds`; no step leads away from the end: `ConversationsGetOn`; on the way `OneTunnel`, `FixHelps`, `TellsTruth`, `IdentityGone` |
| `Stores` | one of: two requests of any kind and a cancel; one installing job with two IPAs; two jobs and the signing identity; a phone, a box, a worker and the scanner; two accounts and two threads; sources and two loaders; two store jobs; a release, a beta and the setup | `AnsweredIsOver`, `CancelHeard`, `KeepsContract`; `QuotaStopsFirst`, `ReusedIsFree`, `RenewalInPlace`, `InstalledIsRecorded`; `OneCertificate`; `OnlyAsked`, `NoLostPoke`; `TeamsTrue`, `ViewFresh`; `RemovedStaysRemoved`, `CatalogMatches`; `IpasWhole`; `AppStaysWhole`, `StartedWhole` |

`Conversations` and `Stores` hold models that share no state. Their product would
say nothing new and could not be explored, so the variable `focus`, chosen at the
start, names the one that moves, and the others rest in an initial state. What
is checked is each of them by itself, under one question: does it end, and does
what several actors share stay consistent. `MCConversations` and `MCStores` also
hold the conjunction of the type invariants.

The runs that find the code to differ from what the repository says of it:

| Run | Property | Counterexample |
|---|---|---|
| `DaemonOverlap` | `OneRefreshAtATime` | `renewNow` checks `busy()` before it awaits the status; the tick meanwhile starts to renew, and both renew at once |
| `DaemonStoreInstall` | `BackgroundYieldsToAll` | `store.install` is not in `BUSY_METHODS`, so a background refresh starts while it installs |
| `DaemonPerson` | `RepeatedFailureTold` | an ordinary failure (count 1, threshold 2), then one that needs a person (count 2, threshold 1): the count never equals the threshold and nobody is told |
| `ServerOrphans` | `NoOrphans` | at the end of the input a job whose loop has just closed makes `cancel()` raise; the jobs after it are never cancelled |
| `InstallReplaced` | `NoAppReplaced` | p is installed and uninstalled; with the quota exhausted q goes under p's App ID; p is installed again, under the same identifier, and replaces q |
| `SelfUpdateHalf` | `NeverHalf` | two downloads of one release write into one `.part`; the first one to finish renames what the second has just emptied, and the half AppImage is started on quitting |

**Exceptions the properties state.** Where the code gives no guarantee and no
document claims one, the property says so through a history variable, and holds
otherwise: `raced` (another process discards the device identity while `headers()`
is at work or while the instance in memory is not provisioned, or has provisioned
a new one, whose file hides that the old one is gone), `jobsMet` (two jobs in `ensure_certificate`),
`late` (Apple lists a certificate without its content; also an answer of the
debugger), `overlapped` and `shared` (two downloads of one version, or a clear
that meets a job), `crowded` (two loads of the catalog), `torn` (the setup killed
between its two renames). Each of them becomes true in the runs.

**Statements that fail and have no run**, the first two because what they show has
a run or an exception already, the others because no document promises them; they
were seen with the modules as they are:

- `UpdateInterruptsNothing` (module `Daemon`): a silent update waits for every request
  of the window. `busy()` and `idleForUpdate` know those of `BUSY_METHODS` only, so
  with the window hidden an update is installed while `store.install` or `pair.start`
  works, although "ein Neustart mitten in einer Installation oder waehrend JIT waere
  fatal" (`main.cjs:314-315`). The cause is that of `DaemonStoreInstall`; add
  `"show or hide"` and `"update"` to that instance's `Disturbances` to see it.
- `ForgottenIsSeen` (module `SignIn`): `_forgotten_elsewhere` tells "whether another
  process discarded the identity" (`anisette.py:307`). It answers for provisioned
  instances only: one that is not provisioned yet - provisioning failed, or the
  first `headers()` is still to come - keeps the discarded identity, and the next
  `headers()` provisions and saves it. `raced` excepts it in `IdentityGone`.
- "a taken tunnel lock has a keeper": see `Tunnel` above. Later jobs wait
  `TUNNEL_WAIT` and fail until the backend is restarted.
- "a forgotten device stays forgotten": a writer with an older copy of
  `devices.json`, or a scan under way, brings it back.
- "a signed-out account stays signed out": `remember_first_name` saves the
  session it has loaded.
- "a fix removes expired profiles": `readiness.py:479` assigns to `_`, which makes
  it a local list; the first translated message raises `TypeError`.
- "a one-time cookie is sent once": the adapter retries POST requests
  (`http.py:59`) although lines 66-69 say that nothing is retried.
- `NoNoticeTwice` with errors that are announced at once (`NEEDS_PERSON`): they
  share the counter with the others, so the ordinary failure that follows reaches
  its own threshold and is announced, too. With "Renew now": its refresh, planned
  with an older status, may end after the window has renewed the app and the tick
  has dropped the markers of the old expiry date.
- `UpdateNeverInterrupts` with "Renew now": the first run's `setRefreshing(null)`
  makes `busy()` false while the second renews; the cause is that of
  `DaemonOverlap`.
- `ProcessEnds` with a sign-in whose thread asks after the end of the input: it
  waits in `ask_blocking` for ever, and the process with it. The run has two long
  jobs, so a JIT session that `cancel()` never reached (`ServerOrphans`) occurs in
  it; the property excepts that case by name (`Orphaned`).
- `AnsweredIsOver` without its exception: "cancelled" is answered while a helper
  thread of the closed loop still downloads, waits for the tunnel's lock or runs a
  script. Any other answer comes after the helper threads.
- `ViewFresh` for a deletion whose answer was lost: what was seen before it stays in
  the cache for up to `APPLE_CACHE_TTL`. The property speaks of deletions whose
  handler returned with success.
- `InstalledIsRecorded` with two jobs or two devices; `TellsTruth` when an answer
  was late.

**Bounds.** The clock of the Daemon runs from `Start` to `MaxClock`; delays are one
to three units, in the order of the real ones. `DaemonNotices` has five moments
(2 to 6) and a lifetime of 3: two failures with the wait between them, both
thresholds, and a renewal whose next expiry date comes back into the window fit
in. `DaemonRace` has three moments, `DaemonAlone` and `DaemonLive` two: their
properties are about the order of steps, and two moments are enough for a
deadline or the wait after a failure to pass in between. One app is enough where
a property speaks of one app's notices; two are needed where a run goes on to its
next app. One `renewNow` and the tick are the two activations that can meet.

In `Conversations`, two network attempts and two candidates are the least at
which a job goes on to the next attempt and to the next candidate, two services
let one be asked for after another has failed, and two jobs wait for each other's
lock; of three requests two are long, so that one is left behind when the other's
cancellation raises; `Majors` has a version for each branch of the checks; `UnlockPolls` and
`Interferences` of 2 let the owner lock the phone again and then do one thing
more; two pages make a write that is not the last; three breakpoints meet the
limit after a signal and a request; `GsaMaxAttempts` and `TransportRetries` are the
code's own numbers (4 and 3); two identities are one that is discarded and one
that follows. `MaxIdentities` is the only one of these that stops a behaviour, and
`SignInEnds` names it.

In `Stores`, a quota of two with 0, 1 or 2 left at the start covers "enough",
"enough for the app only" and "none"; `MaxDisturbed` is 2, so that, say, a deleted
App ID meets a process that was killed; requests are not bounded. `Room`,
`MaxKeys` and `MaxIssued` are 2: one certificate of ours and one that would be too
many, or another tool's. A phone whose address is private and a box are the two
kinds of devices that are found in different ways. Two accounts and two threads
with three requests (`MaxRequests`) let a sign-out happen between another
handler's reading and writing; `MaxEdits` of 3 is add, remove and toggle; two
chunks are a half and a whole. Two versions with two calls, two pieces and one
kill (`MaxCalls`, `MaxKills`) let an interrupted setup meet a second one.

`VIEW WithoutLastStatus` leaves `lastStatus` out of the fingerprint in
`DaemonNotices` and `DaemonRace`, where nothing depends on it: it is read by the
silent update alone, which those instances do not have. No run uses `SYMMETRY`.

**Fairness.** Daemon: timers fire, a rejection is processed, answers that have
arrived are processed, and a running backend answers (every call in the pipeline
has a timeout, and `_dispatch` answers in any case). Not assumed: that the
backend ever comes back, that a device appears, that the user does anything.
Server: the loop runs what is due and threads go on, helper threads, too; work
ends by itself (strongly fair, as it may go to its helper and back any number of
times), except JIT, which runs until it is cancelled. Not assumed: that the user answers a
question or that the input ever ends. Tunnel: threads are scheduled, a call on
the device returns or times out, and `TUNNEL_WAIT` passes. Readiness: the
conversation with the phone goes on or times out (`UNLOCK_WAIT` and the timeouts
of the services); not assumed: that the owner unlocks, trusts or restarts.
Debugger: the host's awaits have limits, and its loop goes on. The app is not
assumed to stop or to end: `JitEnds` is about what follows its end, a broken
connection or a cancel. SignIn: requests time out, and the person answers or
closes the dialog.

## 4. Proofs

The proofs hold for every value of the constants that satisfies the assumptions
of the modules: any number of apps, devices, activations of `renewNow`, requests,
jobs, accounts, threads, sources and versions.

*Daemon.* `TickChain` and `BooksMatch` are not inductive. The book may only be
cleared because a backend that has gone works for nobody (`DownIsIdle`), and a
tick that still waits for an answer keeps the chain alive only because an open
call has a backend that answers, and a rejected one is processed
(`CallsFitBackend`). `Inv` is the conjunction; `InvStep` goes through every
action. From it follow `Invariant`, `TypeCorrect`, `TicksNeverStop`,
`BookIsRight`, and, as an action property, `RefreshWaitsForWindow`.
`IndicatorIsTrue` and `UpdateWaits` assume `Renewals = {}`: with "Renew now" they
are false, as `DaemonOverlap` shows, and the assumption says exactly what the
code would have to exclude. `UpdateWaits` is about the requests `BUSY_METHODS` lists
and says nothing of the others, which an update does interrupt (section 3).

*Server.* `CancelHeard` needs to know that a working thread has set its hook and
that a cancelled inner task comes from `Job.cancel` (`HookFits`), and where thread
and answer are for each place of the dispatch task (`TaskFits`); `JobsAreOpen`
finds the target. `AnsweredIsOver` needs that a helper thread belongs to isolated
work which awaits it, or was left behind by a cancellation (`HelperFits`). `Invariant`,
`CancellationsAreHeard`, `AnswersComeLast` follow.
`ServerKeepsContract` is the refinement of `RpcContract`: the initial states map to
its initial states, and under `Inv` every step maps to one of its steps or leaves
`Contract!contract` unchanged.

*Notices.* `RepeatedFailureIsTold` and `NothingIsToldTwice` relate the memory file
to what the user has seen. The first needs `Explained`: an obstacle or a full
counter in the memory has been told. The second needs the converse (`Noted`): what
was told has its marker in the memory, or belongs to an expiry date that is over.
"Over" must hold with two views at once, the store's and the status the tick is
still working with, and the two are related by `Follows`: an app's expiry date
never goes back, and an app that was gone returns with a later one (`RecordsStep`,
which needs that no date is more than a lifetime away). `SoundStep` carries that
from a status to the refreshes planned with it. Both assume that no failure is
announced at once (`DaemonPerson` shows what happens otherwise), the second also
`Renewals = {}`; a dying backend, relaunches, sign-ins, lost IPAs and requests of
the window are all in.

*Tunnel.* `NeverTwoTunnels`: that no two tunnels are open is not inductive, since
`Open` looks for an active tunnel before `Build` makes one. The invariant says
who may hold the lock (`LockRight`: a job that has noted it, or has been granted
it and has not noted it yet, and only one of those) and what each place of a job
says of `held` and `open` (`Fits`). The lost lock of cancelled jobs is allowed by
it, and so is a tunnel whose closing was cut short; the tunnel a job may use stays
unique all the same.

*Discovery.* `PokesAreHeard` follows from "no search has begun since the last poke
implies the flag is set". `OffersAreAsked` needs all copies: the list, every
thread's copy of it and everything a search has found are honest (`AskedInv`);
that `asked` only grows makes old copies harmless.

*Debugger.* `AppIsToldTheTruth`, with the types: as long as no answer was late,
nothing else is on the wire while host and debugger exchange commands, and the
app does not run meanwhile (`Quiet`); in the second pass, with no write refused, the
pages before the present one are executable, and all of them when the app is told
(`RegionReleased`).

*Readiness.* `FixesHelp`, with the types: what a fix that reported success has left
behind still is so (`Lasting`), the report on the screen offers nothing that is
settled (`Shown`), and Developer Mode, once on, stays on where it is needed, so the
restart that would unmount an image comes no later (`Underway`).

*SignIn.* `DiscardedStaysGone`: identities are numbered in the order they are made,
so a new one is none of the discarded (`Past`). Unless `raced`, the files hold no
discarded one, and a discarded one in memory is provisioned and its file gone, so
that the next look finds it out; between that look and saving, memory and files
agree (`IdentityInv`). The theorem includes the types.

*Accounts.* `TeamsStayTrue`: index and all copies note no stranger, and from
Apple's answer on a handler's `about` is the account of the session it asked with,
or none (`CallTrue`). `ViewsAreFresh`: one thread at a time is inside the view's
lock, and unless a handler is about to clear the cache no entry, and no entry in
a view's hands, is outdated (`FreshInv`); an "unreported" one may be there.

*Library.* `RemovedSourcesStay` and `CatalogFollows` share `SourcesInv`: what is
listed or was removed counts as seen once there is a file, and a lone load knows
the list as it is, because each change of the list begins a load. `IpasStayWhole`
needs that, undisturbed, each job has its version for itself, its `.part` holds
what it has received and a clear knows all that is needed (`Undisturbed`).

*SelfUpdate.* `AppIsWhole`: what each place of the setup says of the three
directories (`TreesInv`): while it copies, the new tree holds what has been
copied; once the old one has been moved away, the new one is complete.
`SetupsAreWhole`: while no version was downloaded by two calls at once, each
download has its `.part` for itself and what is noted as downloaded is whole
(`DownloadsInv`). Both rest on the types of what they speak of (`Typed`).

*Certificates.* `NoneWasted`, with the types: a job is alone in
`ensure_certificate` unless `jobsMet`; then each certificate Apple lists for us
belongs to the key on disk, and there is at most one unless Apple's list was late
(`OursFit`); `JobFits` says at each numbered step which file already fits which.

*Install.* `InstallTypes` holds for any number of jobs, devices and IPAs. The four
others assume one job at a time (`OneJob`), since two overwrite each other's
`apps.json`, and use one invariant, `OneJobInv`:

- `PlaceInv`: no identifier in use here is another account's, and a renewal is
  about a record that is there; from it `RenewalsStayInPlace`.
- `SparedInv`: what a job protects covers what is installed on its device, and an
  identifier it took instead of its own is new or not in use; from it
  `ReusedIdsAreFree`, if the list of apps can be read (`AppsAreReadable`: a list
  that cannot protects nothing, `pipeline.py:212`).
- `RecordInv`: between the device and the record, the app under the job's
  identifier is the job's; from it `InstalledAppsAreRecorded`, on one device
  (`OneDeviceOnly`: a record has no device in its key, `store.py:88`).

`QuotaIsPlanned` counts: what is left of the quota covers the identifiers still to
be created, at the app's and at each extension's place (`BudgetInv`, with lemmas on
the cardinality of `Demand` and `Wanted`). It needs that Apple tells the quota
(`QuotaIsTold`: an unknown one stops nothing), and `NobodyBelowTaken`: nobody wishes
for an identifier beneath one that belongs to another account. With such a
wish an extension's App ID may exist for the plan and not for the `.ms` variant the
job falls back to, which then needs more than was planned. `OneJobInv` and
`BudgetInv` were first checked by TLC, as the other invariants.

*Types.* Every module's type invariant is a theorem (`TypeCorrect`, `TunnelTypes`,
`InstallTypes`, `AccountsTypes`, `DiscoveryTypes`, `LibraryTypes`, `SelfUpdateTypes`;
the server's is part of its `Inv`, those of `Certificates`, `Readiness`, `Debugger`
and `SignIn` stand in the theorems about their properties). Some need more than
types: `LibraryTypes` that a job at work has a version to work on (`CacheTyped`),
`SelfUpdateTypes` what the setup's place says of the directories (`TreesInv`).
In the store and the search a job at rest holds "none"
instead of an arbitrary device or version, so the theorems hold for empty sets,
too.

*Getting on.* Where the code retries, polls or loops, what a conversation still
has before it is a tuple of numbers, the weightiest first: services, stages,
candidates, attempts and phases of a job that wants the tunnel (`JobLeft`); parts,
stops that count, phases and pages of JIT (`JitLeft`); rounds of the handshake,
requests, attempts, resends and phases of a sign-in (`SignInLeft`); stages, apps
and the present app of a tick or a "Renew now" (`ActivationLeft`). `Nearer` is the
lexicographic order. `TunnelJobsGetOn`, `JitsGetOn`, `SignInsGetOn` and
`ActivationsGetOn` prove that every step, whatever fails, times out, is cancelled
or dies, brings a conversation it moves nearer its end: these are the facts about
the code. `NearerEnds` (from the well-foundedness of lexicographic products in
`WellFoundedInduction`) is a fact about the order alone, that nothing descends in it
for ever. Together they say that none of these conversations, once begun,
takes infinitely many steps, for any number of candidates, attempts, pages and
apps. What a liveness property adds is that a conversation not at its end has a
step it can take and is scheduled: that part is `ENABLED` and fairness, and is
checked by TLC (`TunnelJobEnds`, `JitEnds`, `SignInEnds`, `ActivationsEnd`).
`SignInsGetOn` needs that codes are asked for in the first round only
(`AsksOnce`), `JitsGetOn` that stops and pages stay within their bounds (`ReleaseInv`),
`ActivationsGetOn` that an activation has finitely many apps before it:
`SchedulerAssumption` says that `Apps` is finite, as the entries of `apps.json` are.

*Side by side.* `MCConversations` and `MCStores` let one part at a time move, with
all the others in their variables. `SideBySide` proves of both that a behaviour of
the composition is a behaviour of each part's own specification, so every theorem
above holds there. `ConversationsTypes` and `StoresTypes` state it for the type
invariants those runs check, `AllGetOn` for `ConversationsGetOn`.

The inductive invariants, `ActivationGetsOn` and `Daemon`'s types are in no run:
TLC agreed before they were proved, and the theorems say more. `INVARIANTS Inv`
in `DaemonRace.cfg`, `PROPERTY ActivationGetsOn` in `DaemonAlone.cfg` repeat it.

Model-checked only, and why:

- the liveness properties: fairness and `ENABLED` are out of the prover's reach;
  of four of them the part that can be proved is (see *Getting on*), of
  `FixEnds`, `DueIsTried`, `Answered`, `CancelEnds` and `ProcessEnds` nothing:
  what they wait for is the owner, a device, or one step of a thread;
- what the violation runs refute, and whatever is beyond the hypotheses named
  above: several installing jobs or devices, "Renew now" in `IndicatorTrue`,
  `UpdateNeverInterrupts` and `NoNoticeTwice`.

## 5. What the models leave out

- Daemon: the wording of notices and of the tray, windows, autostart; the boot
  timeout of the window; the late output of a backend that has been replaced; a
  memory file torn by a crash.
- Server: the question of `pair.start`, which is asked from inside isolated work;
  progress and log events; the read-only handlers.
- Install: the loop over several due apps (each renewal is one request), the
  store's newer version, the limit of three apps per device (an installation that
  fails), torn writes of `apps.json`, and case differences in identifiers. "apps
  unreadable" and "quota unknown" are outcomes of the model that `Stores` leaves
  out: a list that could not be read protects nothing (`pipeline.py:212-217`), and
  an unknown quota stops nothing.
- Certificates: the signature itself and the formats; that an identity Apple has
  revoked goes on being used while it has not expired (`provisioning.py:125-128`)
  is in the model, and no property objects.
- Tunnel: what the transports do; `device_info`.
- Discovery: parsing of adverts, the PIN conversation.
- Debugger: binary layouts; an extension's script (`jit_host.js`) that never
  returns, at a breakpoint or elsewhere; the app that is left suspended when the connection to
  the debugger fails (`jit.py:298-317`).
- SignIn: SRP, the parsing of answers, the remote anisette provider, the libraries'
  file, which `forget_device` leaves alone.
- Accounts: age and headers of a session, the migration of an older layout; two
  writers of the index whose `accounts.tmp` is one and the same file (the second
  may rename what the first is still writing), and other torn files.
- Library: a `sources.json` torn while it is written in place (it counts as none,
  and the defaults are back: `RemovedStaysRemoved` is about whole writes); the
  copies of source files for use offline (a fetch may succeed or
  not), images, the parser, compatibility and the order of versions.
- SelfUpdate: the uninstaller, electron-updater on the other platforms, an older
  update that is installed on quitting although a newer one was found.

**Not modelled.** Views, translations, packaging and the command line (no state of
their own, or a sequential front end to what is modelled); host setup and
diagnosis, the log book, autostart (sequential I/O, or one file written in one
step); file formats and cryptography (out of TLC's reach). `PROJECT.json` lists
each component with its reason.

## 6. Plan

1. All modules are written and checked; the type invariants, safety and action
   properties of the passing runs are proved, under the hypotheses section 4 names.
2. `Install`: the preview of the install screen, which protects the recorded
   apps too while the pipeline protects only those on the device
   (`server.py:933` against `pipeline.py:212`), and a second job and device.
