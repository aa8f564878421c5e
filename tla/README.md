# Verification of cmdkite

cmdkite is a desktop GUI for the Command Code CLI: an Electron shell that spawns
a local daemon, which runs the CLI as child processes and serves their output to
the windows over HTTP and server-sent events. This directory holds TLA+ models of
the parts whose correctness depends on the order of things, the TLC
configurations that check them, and TLAPS proofs of the main invariants.

Paths below are relative to the repository root.

## 1. Inventory

### 1.1 Daemon: session store and run supervisor (`packages/daemon/src/runner.ts`, `ndjson.ts`)

State: an in-memory `Map` of sessions (`idle`, `running`, `done`, `error`, with
`error`, `finalText`, `createdAt`), a set of listeners, and one CLI child process per
run, with the line buffer of its parser. Nothing is persisted.

Operations: `create`, `ensure`, `prompt`, `start` (HTTP handlers), the callbacks of a
child (`data` on stdout, `error`, `close`), `trimOld` (keeps the 200 newest).

Interaction: every callback holds the session's *id*, and looks the record up when
it fires; every change is published by calling all listeners synchronously.

Hard behaviours: two children of one session; frames and close events that belong to
an earlier run; a record dropped under a running child; a CLI that prints garbage,
several results, or nothing; `spawn()` failing now or later; the wall clock set back;
the daemon restarted under clients that remember ids.

Correct when: a settled session says why or has evidence for it; nothing runs without
a child that will end it; the store is bounded; every settlement is published; the
outcome shown is that of the latest run, or of one that still ran when it was spawned.

### 1.2 Daemon: v2 event stream (`server.ts` 412-479, `compat.ts`)

State: per connection the sets `started`, `textStarted`, `settled` of session ids; for the
module the counter `textDeltaSequence`.

Operations: connect (subscribe and replay), the listener, disconnect.

Hard behaviours: connections that come late or return; the live account and the
replay are built by different functions from the session at different moments; the
sets are never reset when a session is prompted again; two sets of deltas draw
from one counter.

Correct when: every connection tells a well-formed story, hears of every
settlement that is a session's first, is told nothing twice, and agrees with the other
connections.

### 1.3 Desktop: updater (`packages/desktop/src/main/updater-controller.ts`, `updater-platform.ts`, `updater.ts`)

State: the state shown, the pending check, the running installation, the persisted
record of the ready version, and the version electron-updater has staged.

Hard behaviours: a ten-minute timer, the menu and every window may call `check` and
`install` at any await of the one that is running; every platform and store call may
fail; the app may quit, crash or restart into the update at any point.

Correct when: an offer is never withdrawn by a check, what is offered is what would be
installed, "installing" is shown exactly while installing, the platform is asked one
thing at a time, and everything that began ends.

### 1.4 Desktop: WSL servers (`packages/desktop/src/main/wsl/servers.ts`, `wsl/sidecar.ts`)

State: the stored list of servers, what the windows show of each (`runtime`), the `Map` of
running sidecars, and the `wsl.exe` processes behind them.

Operations: `startServer`, `installOpencode`, `addServer`, `removeServer`, `stopServers` and
`startConfiguredServers`; the health check, timeout and exit of a process.

Hard behaviours: the operations are async and nothing serializes them, from any number of
windows; a process is known by its handle in the `Map` only once it is healthy, and leaves
the `Map` before it has exited; `stopServers` clears the `Map` after waiting.

Correct when: the `Map` holds live processes only; what is shown as ready is served; no
process is lost or left behind a removal or a `stopServers()`; the CLI is replaced while its
server is down; "starting" resolves.

### 1.5 Desktop: the application and its daemon (`packages/desktop/src/main/index.ts`, `daemon.ts`)

State: the daemon process, its handle `stopDaemon`, the deferred `serverReady` the windows wait
for, the call of `stopServices()` that is under way, and the flag that the app is quitting.

Operations: the start (spawn, health poll, WSL servers, windows), `stopServices`, `relaunch`,
`kill-sidecar`, the quit hooks, signals, `prepareToRestart`, the end of the user's session.

Hard behaviours: nine ways to end the app, several at once; nothing that Electron calls waits for
`stopServices()`; the handle is set when the health check answers, and cleared when it is used; a
daemon that is told to stop waits for the event streams of windows that are still open.

Correct when: no daemon outlives the app; the windows are told how the start went; a relaunch ends.
What a stop of the WSL servers leaves running is 1.4's.

### 1.6 Desktop: windows and deep links (`window-registry.ts`, `windows.ts`, `index.ts` 60-80, `renderer/index.tsx`)

State: the open windows, the one focused last, the stored ids for the next launch; the queue of
deep links and the copies on their way to pages.

Hard behaviours: a window that closes keeps or loses its id depending on what is quitting; a quit
or an update that does not happen; a link is both queued and sent; pages load, reload and close
meanwhile.

Correct when: the next launch restores what was left open; no link is dropped, and none is handed
to pages more than twice.

### 1.7 Drafts (`packages/desktop/src/main/draft-store.ts`, `packages/app/src/utils/draft-store.ts`, `utils/persist.ts`)

State: documents and blobs on disk, the desktop's write buffer and timer; per page the version
counter of a key, the encodings under way, the loading of a draft.

Operations: `get`, `set`, `delete`, `putBlob`, the timer's flush, the collection of unused blobs at
start, `close`; in a page `setItem` with its encoding, `removeItem`, loading with rewrite or migration.

Hard behaviours: documents are written half a second late and blobs at once; a blob is put before
the document that refers to it is set; encodings overtake each other, removals and migrations; the
user types while a draft is loading; a flush throws; the app quits, ends or crashes; a second
browser tab opens the same database.

Correct when: readers see a map whose durable copy follows as a whole; references resolve; the last
word of a page stands; a quit loses nothing; what is written does not linger in the buffer.

### 1.8 App: the event client and what it loads anew (`packages/app/src/context/server-sdk.tsx`, `server-sync.tsx`, `server-sync/connection.ts`, `global-sync/queue.ts`, `global-sync/child-store.ts`)

State: the lifecycle flags (`started`, `generation`, the abort signal of the context), the promise of
the current run, the controller of its attempt, the queue of a frame and its timer; the directories
that are shown, their loads in flight, the queue of directories to load anew and its drain.

Operations: `start` and `stop` (a page is shown from the back-forward cache, or hidden), a run with
its attempts and delays, `publish` and `flush`, the end of the context; `push`, `drain`,
`bootstrapInstance`, `child`, `disposeDirectory`.

Interaction: the client gives what it flushes to the listener of `server-sync.tsx`; the stream's first
event, and some changes, push directories.

Hard behaviours: a start before the stopped run has ended; a frame that is flushed by the timer or by
the end of a run; deltas that are merged; a stream that opens while the queue drains, a load is in
flight, or a configuration update is pending.

Correct when: one stream at a time, and one as long as it is wanted; no delta is lost, repeated or
moved; a load of what a page shows begins after the stream was lost.

### 1.9 Parts that are not modelled

See section 6.

## 2. Modules

| module | models | uses |
|---|---|---|
| `CmdRunner` | the store, the child processes, the parser, the HTTP handlers that change sessions | |
| `EventStream` | `GET /api/event` over the store | EXTENDS `CmdRunner` |
| `SessionFeed` | abstract: what a connection promises about a session prompted once | instantiated by `EventStream` |
| `UpdaterController` | the updater | |
| `WslServers` | the controller of WSL servers and their processes | |
| `WindowRegistry` | open windows and stored ids | |
| `DeepLinks` | links between the main process and the pages | EXTENDS `WindowRegistry` |
| `DesktopApp` | the main process: start, services, every way to end | EXTENDS `DeepLinks` |
| `DraftStore` | the desktop's and the browser's store of drafts | |
| `DurableMap` | abstract: a map with a durable copy | instantiated by `DraftPages` |
| `DraftPages` | the pages that write and load drafts | EXTENDS `DraftStore` |
| `EventClient` | the client of the event stream: runs, attempts, frames | |
| `RefreshQueue` | the directories shown, their loads, the queue that loads them anew | |
| `ServerSync` | both together, with the listener between them | EXTENDS `EventClient`, `RefreshQueue` |
| `MC...` | model values, instances and symmetry for TLC | |
| `...Proofs` | theorems and proofs | the module they name |

Operators whose comment begins with "Mutant of" are plausible wrong versions of a
definition. The models never use them; each property of section 3 is known to fail when
the definition is replaced by one of them, which shows that the property can see such
a bug.

### 2.1 `CmdRunner`

JavaScript runs a handler to completion, so one handler is one action. `sessions` is the
`Map` (`Absent` under ids it does not hold; `born` is the insertion order a stable sort falls
back on), `runs` the child processes, `wire` the sequence of arguments `emit()` was called
with in the last step. `used`, `prompts` and `stranded` are history: ids ever seen (a random
UUID is never one of them), how often an id was prompted, and ids whose last `spawn()` threw.
So is the field `rivals` of a child: the children of its session that were still open when it
was spawned. Nothing in the daemon or its clients keeps a session from being prompted while a
child of it runs (`server.ts:388-399`, `runner.ts:107-123`), so no model assumes it.

| action | code |
|---|---|
| `Create`, `Ensure`, `Prompt`, `Start` | the POST endpoints and the methods they call, `trimOld`, `emit` and `spawnRun` included |
| `Stdout` | a newline on stdout: parser, `applyFrame` or `fail`, `emit` |
| `SpawnError`, `Close`, `CloseTrailing` | the `error` and `close` events; with `CloseTrailing` the parser still holds a last line, so one step may emit twice |
| `ClockMoves`, `Restart` | `Date.now()` and a daemon that dies: environment |

Data is abstracted to what the code and the properties tell apart. A frame is one of a
successful result (`max_turns` is handled as success) with or without a text (`runner.ts:211`), a
failed result with or without a message, a `run_error`, a text delta, any other event, or a line that makes the parser's
`try` fail. `finalText` is the number of the run that printed it. The error text is missing,
the stock sentence that `close` may replace, or specific. Agent, model, cwd, usage and stop
reason are left out, because no code of the store branches on them; `ensure` of an id that
is held changes only those, hence is no step.

The constant `TidyCli` restricts the environment where a property needs it, and each run
says whether it does: a tidy CLI prints only frames and none after its result. Clients prompt
a session at any time, which is what the daemon accepts.

`NoStaleOutcome` says which runs an outcome may come from: the latest, or one of its rivals. That a
rival has a part is the code's: frames and close events carry the session id only
(`runner.ts:166-200`), so an earlier child may settle the later prompt, or leave its text. What the
property excludes is that an outcome outlives a prompt, or that a run which had ended
before comes back.

### 2.2 `EventStream` and `SessionFeed`

Listeners run inside `emit()`, so every step of `CmdRunner` is also a step (`Deliver`) of
every open connection. Connecting is one handler without an await between subscribing
and replaying. The log of a connection is the sequence of events per session; "start"
stands for the four events `toStartEvents` sends in a loop. A delta carries the run and
its place in it, and the number in its event id. The order in which listeners were added
is left open. `revived` is history: sessions whose record `trimOld` dropped while a child of
theirs ran, and `ensure()` then made anew as idle (`server.ts:317`). The child's next frame settles such a
record on the open connections, whatever it says, while the run goes on and a later connection is
replayed how it really went; `StreamsAgree` and `AnnouncedIsSettled` except exactly these sessions.

A connection's sets are never reset, so what it tells of a session that settles more than once (of
another prompt, or of a result after a line that was no frame) is the first outcome it hears of,
and no later one: `server.ts:452` drops it. `FirstOutcomeIsTold` states both halves of that, step by step,
for every session and any CLI: when a session settles, or a connection is opened and finds it settled, the
log of the connection holds, after that very step, the outcome on the record if it held none, and the one it
held otherwise. A connection that is opened later is replayed the record, so two connections may tell
different outcomes of a session that was prompted again; `StreamsAgree` is about the others.

`SessionFeed` knows nothing of processes or frames: start; at most one text part with
consecutive deltas of one run, ended with that run's text; then ended or failed, never
both; then `session.updated`. `EventStream` implements it with `feed <- the logs`, for
sessions prompted once and a tidy CLI. Both conditions are needed: the sets are not reset
between runs (section 5), and after a garbled line a live connection has told the failure
while a late one is replayed the result that followed.

### 2.3 `UpdaterController`

A body of `findAndStage` or `refreshStaged` in flight is a task that waits at the await it
has reached; the "check" slot is the variable `pending`, the "install" slot the refresh
that `install()` runs itself. `pending` is cleared in the microtask after the body's last
transition, before any other caller can run, so both are one step. The store
(electron-store) is synchronous: `start()`'s read and clear let nothing else in, and are
one action with the check that follows. `staged` is what electron-updater would install;
it is lost with the process, except that on macOS a staged update is installed when the
app quits (`autoInstallOnAppQuit`), which is why `Relaunch` may come up in either version.
The store may throw at any call; `unrecorded` is history: a version was staged whose record
could not be written. A controller without a platform has no transitions and is not modelled.

### 2.4 `WslServers`

A call in flight waits at one of its awaits (`stopping`, `installing`, `checking`,
`spawning`) and carries what follows; `StopServer` is the common first part, `Proceed` the rest.
What runs between two awaits is one step, so "stopped" and "starting" set in the same turn
are one assignment. A process is `booting` until its health check answers, `up`, `stopping`
once it was told to exit, and `gone`. A call reserves the number of the process it will
spawn when it begins; this is bookkeeping for the bound on processes.

| action | code |
|---|---|
| `StartServer`, `InstallOpencode`, `AddServer`, `RemoveServer` | the calls up to their first await |
| `Stopped`, `Installed`, `Verified`, `InstallFails` | `sidecar.stop()`, `installCli`, the version check |
| `SpawnResolves`, `SpawnFails` | `spawnWslSidecar` and the code after it; a failure kills what it started |
| `Exits` | the `exit` event with the handler of `startServer` |
| `StopServers`, `ServersStopped` | `stopServers()` before and after its await |
| `Relaunch` | the app ends and `startConfiguredServers()` runs in a new one; a process left behind is not followed |

`overlapped` and `forgotten` are history: servers two calls were in flight for at once (or one
during `stopServers()`), and servers whose sidecar `clear()` dropped alive. They delimit what the
code promises. For a server in `overlapped`, `NothingAstray`, `RemovedStaysDown` and
`CliReplacedWhileDown` are false: two starts lose one process, a start in flight survives a
removal, and a start during an installation runs the CLI that is being replaced. The windows
disable the update button while an installation runs (`packages/app/src/wsl/settings.tsx:122`), but
not the menu item that starts the server (line 142), and the controller enforces nothing.

`StoppedMeansDown` is about the step in which `stopServers()` resolves, on which a relaunch and a restart into
an update wait: every server outside `overlapped` is down then, and has no handle that `clear()` could
drop. A server whose start is in flight when `stopServers()` is called, or is asked for while it
waits, is in `overlapped`, and may be up in that step: it is not in the `Map` that is awaited
(`servers.ts:306-309`). So an app may be relaunched, or restarted into an update, with such a server up.

### 2.5 `DesktopApp`, `DeepLinks` and `WindowRegistry`

Electron calls back synchronously: an operator of `WindowRegistry` or `DeepLinks` is one turn, and
`DesktopApp` says when it happens. `Quit` is `app.quit()`: "before-quit", then the windows close one
by one (`QuitCloses`), then "will-quit" and the end, with no await on `stopServices()`, whose first
part is `StopServices` and whose awaits end with `DaemonStopped` and `ServicesStopped`. `waiting` holds
who has been told to wait for it. Of the WSL servers this model has only the time a `stopServers()`
takes (`stopping = "wsl"`); which of them are down when it is over is the question of 2.4.

| action | code |
|---|---|
| `HealthOk`, `HealthFails`, `ServicesStarted`, `ServicesFail`, `WindowsRestored` | the start, with the deferred `serverReady`; `ServicesFail` is `startWslServers` rejected (`index.ts:311`), after which the daemon stays up and the windows are told of the failure |
| `Relaunch`, `KillSidecar`, `UserQuits`, `Signal`, `PrepareToRestart`, `RestartBegins`, `UpdateFails`, `SessionEnd` | the ways to end the app |
| `WaitedQuits` | a signal or an update that has waited for the WSL servers |
| `UserCloses`, `QuitCloses`, `WindowOpens`, `WindowFocused` | the windows, with `register`, `closed` and the focus |
| `LinkOrPage` | a link comes in; a page loads, asks for links, is handed one, reloads |
| `DaemonExits`, `Crash`, `Launch` | environment; a daemon left behind is not followed into the next process |

`wished` and `either` are history: the windows the user left open, and those closed when it is the
code's choice what that means (the last window of all, on every platform, and any window while the
app is about to end). The comment at `window-registry.ts:38-41` says that closing the last window
quits the app; on macOS it does not, and the window comes back, as it does elsewhere.

What the model shows beyond its properties: an app that is quit while it starts, or crashes,
leaves its daemon ("aborted"; the handle is set at `index.ts:310` only). A relaunch that is
overtaken by the closing of the last window just quits. After `kill-sidecar`, or after the daemon
has died, nothing starts it again in this process. On macOS and Linux a daemon that is told to stop
waits in `server.close()` for the event streams of the windows that wait for it, so a relaunch
always runs into the two seconds of `daemon.ts`.

### 2.6 `DraftStore`, `DraftPages` and `DurableMap`

`DraftStore` is both drivers: on the desktop, `Set` buffers and schedules, and `TimerFires`,
`SessionEnds`, `BeforeQuit` and `WillQuit` flush in one transaction; in the browser `Set` writes. Blobs are
put at once by both, and `Collect` runs when either opens. `FlushFails` is the transaction that
throws, the timer's, session-end's or before-quit's: the buffer has been emptied before it
(`draft-store.ts:41-43`), and a listener that throws holds no quit up. A last flush that throws, in
`close()`, ends the process as `Crash` does. So `QuitLosesNothing` is about what `WillQuit`, the close that
succeeds, finds in the buffer, and `WordsReachDisk` says that the buffer does not linger, not that its words
are on disk: after a failed flush they are gone.

`DraftPages` is `createDraftStore` and the loading of a draft. A write on its way carries the
version it was given; `Encoded` passes it on only if the key was not called again. A draft is read
(`StartLoad`), rewritten or not (`ReadCurrent`), or migrated from an older store (`LookUp`, `Migrated`).
The branch of `readCurrentAsync` that removes the item (`persist.ts:285-288`) is not a disjunct of
`ReadCurrent`: `normalize()` is undefined only for text that is no JSON (`persist.ts:201-215`), and what the draft
store's `getItem` returns is the output of `JSON.stringify` (`draft-store.ts:82-85`). It serves the other
stores.
A page that is closed or reloaded goes with all it holds; a reload is another member of `Pages`.
`n` is the place of a document among all writes; `said` is the place of a page's last call.

Two things are true of the code and excepted by name. What the user types while the rewrite of
`readCurrentAsync` is being encoded is overwritten by it (`persist.ts:289`), and a failed flush loses
the words it held: both are in `excused`. A second browser tab collects, when it opens, what another
tab has put and not yet saved: `swept`. Two pages that hold one key do not hear of each other, so
`LastWordStands` is about the page whose document is there. A crash within half a second of a
migration loses the draft, because the older store was emptied at once (`persist.ts:326`), and a
draft that is removed while its migration runs can come back; neither is excepted, because no
property says otherwise: the first is what `DurableMap` allows, the second is the page's last call.

### 2.7 `EventClient`, `RefreshQueue` and `ServerSync`

A run is what `start()` makes: `queued` while it awaits the run before it, then `opening`, `reading`
and `delaying` in turn until it is `over`; `active` is the generation it was started in. `batch` is what
the listeners are given in the step, and `ServerSync` calls them in it.

| action | code |
|---|---|
| `Start`, `Stop`, `Dispose` | `pageshow`, `pagehide`, the end of the context |
| `Resume`, `Delayed` | the promise of the run before, or of the delay, is settled: a turn of `runStream`'s loop |
| `Handshake`, `Receive`, `EndAttempt` | `connect`: the first event, another one, the end for whatever reason |
| `Flush` | the frame's timer; the end of the latest run flushes too (`Ends`) |
| `DrainStarts`, `Ticked` | the timer of the queue and the ticks of `drain` |
| `LoadEnds`, `Open`, `Evict`, `UpdateConfig` | `bootstrapInstance` settles, a page asks for a directory, `disposeDirectory`, `updateConfig` begins and settles |

`coalesceServerEvents`, the spelling of a list of events, and what pushes and deletions make of the queue's
`Map` (`Enqueue`, `EnqueueAll`, `Without`) are folds, not recursive operators, so that they can be proved about.

Event data are the key of a delta with its fragments, the directory of a change, or the stream's first
event. What is heard is any of these in any order, which includes what `EventStream` sends: the client
looks at the first event of a stream and at the keys of deltas only, so the two are not composed.

`stale`, `joined` and `missed` are history. A directory is stale from the moment the stream opens until
a load of it begins. `CatchesUp` has two exceptions, and both are the code's. A load that was in flight
when the stream opened is joined (`server-sync.tsx:513-514`), so what it asked for before the loss stands:
`joined`. And `push` under a pending configuration update queues without a timer (`queue.ts:40`), as does
a drain that meets one (`queue.ts:55`, `queue.ts:70`); nothing schedules it when the update settles:
`missed`, until something else is pushed. In this app `updateConfig` always fails at once, but
react-query holds a mutation back while the browser is offline.

`CatchesUp` says that the load is made, not that each of its queries asks the server: `loadSessions`
returns when a list as long was loaded before (`server-sync.tsx:446`), and agents and paths come from
`ensureQueryData` (`global-sync/bootstrap.ts:374-384`), so the session list of a directory is not fetched
again by it.

## 3. Runs

| run | asks | bounds |
|---|---|---|
| `runner_safety` | `OutcomeExplained`, `RunningHasProcess`, `StoreBounded`, `SettlingIsPublished` with impatient clients and an untidy CLI | 2 ids, a store of 1, 2 children, 2 prompts an id, 2 clock values, 3 insertions |
| `stream_feed` | `WellFormedStories` (refinement of `SessionFeed`), `StreamsAgree`, `DeltaNumbersGrow`, `StreamTypeOK` | 2 ids, a store of 1, 2 connections, 1 child with 2 deltas, 1 prompt an id, 3 clock values, 3 insertions |
| `stream_overlap` | `NoStaleOutcome`, `FirstOutcomeIsTold` with impatient clients and an untidy CLI | 1 id, 1 connection, 2 children with 1 delta, 2 prompts, 2 insertions |
| `stream_live` | `NothingTwice`; `AnnouncedIsSettled`, `RunSettles` under fairness | 2 ids, a store of 1, 1 connection; either 2 runs, 2 prompts and 2 insertions under a clock that stands still, or 1 prompt, 3 insertions and 3 clock values that only grow (`Budget`) |
| `stream_restart` | violation of `StartEventsForEveryRun` | 1 id, 1 connection, 2 runs |
| `updater` | `InstallingIsShown`, `OnePlatformCall`, `ShownIsStaged`, `OfferIsKept`; `WorkResolves` under fairness | 3 versions |
| `updater_store` | violation of `FailureKeepsCurrent` | 3 versions |
| `wsl_servers` | `HandleIsLive`, `ReadyIsServed`, `NothingAstray`, `RemovedStaysDown`, `CliReplacedWhileDown`, `StoppedMeansDown`; `StartingResolves` under fairness | 2 servers; one has 2 calls and 2 processes at a time, the other (`Quiet`) 1 of each |
| `desktop_app` | `RestoresWhatWasOpen`, `LinksAccountedFor`, `NoDaemonLeft`; `InitializationResolves`, `RelaunchEnds` under fairness | macOS and Windows, 2 windows, 1 link, 2 ways to end waiting at once |
| `drafts_pages` | `RefsResolve`, `LastWordStands` | both stores, 2 pages, 1 key, 1 blob, 2 writes |
| `drafts_store` | `IsDurableMap` (refinement of `DurableMap`), `QuitLosesNothing`; `WordsReachDisk` under fairness | both stores, 1 page, 2 keys, 2 writes |
| `server_sync` | `OneStream`, `TypeOK`, `HeardInOrder`; `Reconnects`, `CatchesUp` under fairness | 2 directories, one taken at a time, 2 delta streams, 2 fragments, 3 starts, frames of 3 events, not all at once (`Budget`) |

The type invariants of the daemon's store, the updater, the WSL servers, the main process and the
drafts are proved (section 4), so no run repeats them.

Why the bounds are enough to be interesting. Two children of one session are what it takes
to overlap, to follow each other, and to settle a session a second time on a connection that told the
first outcome; a connection may be opened before, between and after them, and again.
A store of one and two ids make every insertion trim, of idle, running, settled and
just-made sessions; two clock values make the just-made one the oldest. Three clock values and three
insertions let a running session be dropped for a newer one and be made anew in its turn. Two connections
suffice for a late one to disagree with a live one and for the shared counter to
interleave. Two deltas are needed for "consecutive". Three versions are the running one,
the staged one and a newer one; the updater's state space is finite without further
bounds and is explored completely. Two calls of one WSL server are what it takes to overtake each
other, and a second server shows that `stopServers()`, begun for one, clears the handle of the other.
Two windows give a last one and one before it; two ways to end the app overlap in every pair, and no
handler looks at a third. One link is enough, because the queue is emptied as a whole and copies are
counted one link at a time. Two pages and two writes overtake each other, from one page or two; with
a rewrite or a migration that makes four encodings of one key. Two keys show that a flush is of the
buffer as a whole. Three starts make a run wait for one that waits itself; three events of two delta
streams are two deltas of one with another event between. `drain` takes two directories at once; with
`TakeCount` 1 and two directories it has to come back for the second. `Budget` cuts what does not
meet: long frames where no directory is shown and the page stays; frames of one event otherwise, with
two comings back of the page where no directory is shown, one where one is, none where two are.

Counters are capped in the guards: `MaxRuns`, `MaxPrompts`, `MaxClock`, `MaxBirths` (insertions
between two restarts), `MaxDeltas`, `MaxCalls`, `MaxProcs`, `Quiet`, `MaxWaiting`, `MaxWrites`, `MaxStarts` (comings back of the page),
`MaxQueue` (events of a frame). No
deadlock is possible where the daemon can restart or the app can be opened again, so deadlock
checking stays on; it is off for the drafts, where the loads of pages are bounded by `Pages` and the
user may close all of them, and for `server_sync`, where the context may be disposed of.

Symmetry is used for safety only. `WellFormedStories` and `StreamsAgree` need a tidy CLI and
one prompt a session, and would be false without.

Fairness. `EventStream` assumes that a CLI process ends in the end and that Node then
delivers `close` (weak fairness of `Closes`, one child at a time); the daemon has no timeout
of its own, so a CLI that hangs leaves its session running, and nothing is promised of
the clients. `UpdaterController` assumes that the awaited platform and store calls settle,
that `prepareToRestart` does (it kills the WSL sidecars and awaits their exit), and that
`installAndRestart` rejects, after ten seconds at the latest, or restarts. That last
assumption is electron-updater's to keep: once `before-quit-for-update` has fired the
timeout is cancelled. `WslServers` assumes that a killed process exits and that what a call awaits
settles: every `wsl.exe` command has a timeout (`wsl/runtime.ts:66-80`), and so has the health check.
`DesktopApp` assumes that the health poll ends (fifteen seconds), that awaited promises resolve, that
the two seconds of a stop pass, that Electron closes the windows of an app that quits, and that a
daemon that was told to exit does so at once on Windows, elsewhere once no window holds an event
stream open (`ToldDaemonExits`). `DraftPages` assumes that a timer fires and that a page's promises
resolve. `ServerSync` assumes the same of its timers and promises, that an aborted request is rejected,
that a load is answered or fails, and, strongly, that a daemon that is asked again and again answers
some time: a request that is not answered ends after two seconds, and the next follows.
No fairness is assumed of checks, clicks, exits of healthy processes, windows the user closes or the
CLI's output.

## 4. Proofs

The theorems hold for every set of ids, store size, number of runs, prompts and
connections, and, unless a theorem names an assumption (`PromptedOnce`), for an untidy CLI
and impatient clients (they use no more than the
assumptions the modules declare, `RunnerAssumption`, `ClientsAssumption`, `VersionsAssumption`, `WslAssumption`,
`WindowsAssumption`, `AppAssumption`, `DraftAssumption`, `NoDocIsNone`, `ClientAssumption`, `KindsAssumption`
(a delta's key is not another event's) and `QueueAssumption`, and TLC evaluates those on the
instances).

Of most liveness properties the *safety half* is proved: that the state always holds something that
will bring about what is promised, if it is scheduled. This is what handlers that overtake each other
could break; that it then happens is fairness, which TLC checks.

**`CmdRunnerProofs`.** `CallbackContract` says what a callback may do to the `Map` and to
`wire`: nothing for an unknown id; otherwise it touches one record, keeps its type, emits
that record, and is the only way to settle. The callbacks are `Fail`, `ApplyFrame`,
`Dispatch` and `Finish`; `CloseTrailing` composes two. `StepContract` lifts that to every
step. From these:

- `RunnerTypeCorrect`, by induction, with `wire` about one session only;
- `SettlingPublished`, from `StepContract` alone;
- `ErrorsExplained`, `SuccessHasEvidence`, together `OutcomesExplained`, and `RunningIsSupervised`: the inductive invariant
  `OutcomeInv` is the conjunction of the three properties, the types, and "every spawned run
  has an id". `ChildOutcome` says what a step of a child leaves of its session: an error text
  if it failed, a result's text or exit code 0 if it is done. Exit code 0 is the process's,
  not the session's, so the argument also needs that a child that has exited never changes
  again. A session is set running only together with a spawn, and a child stops being open
  only by a close event, which ends a running session, or by a restart, which empties the
  `Map`;
- `StoreIsBounded`: the sessions that `TrimOld` keeps are those with fewer than
  `MAX_KEEP` others listed before them; `ListedBefore` orders sessions, because
  insertion numbers differ, so ranking them is an injection into `0 .. MAX_KEEP - 1`
  (`TrimOldBound`). The invariant it needs says that insertion numbers are distinct and at
  most `births`;
- `OutcomeNeverStale`, for any clients and any CLI: the table of children is filled in order, so the last
  of a session in it is its latest (`InOrder`); every child that is open is that one or its rival
  (`OpenAreRivals`), because the rivals of a new child are all that are open, and no child opens
  again. So whatever settles or fills a session is a step of a run the property allows, and a prompt
  clears what there was (`RequestClears`).

**`EventStreamProofs`.** The invariant `ToldInv` (`InitToldInv`, `NextToldInv`) says that an open connection
has noted every settled session: a session settles in a step that emits the settled
record (`StepContract`); a listener given a record that is not running notes its id in
`settled`, and no step takes an id out of it; a new connection notes all settled sessions. That is
membership in a set that is never reset; what is told is `FirstOutcomeTold`, below.
The invariant adds that the connections are records with the right fields, without which
`EXCEPT` says nothing. `WrittenOnce` and `NumbersGrow` share the invariant `LogInv`: a session that is
not in `started` has no start in the connection's log, one that is not in `settled` has neither
`session.text.ended` nor `session.updated`, so each is written once (`Story`); and no number in a log exceeds the
session's counter. The lists of `compat.ts` are shown to hold each of these events at most once and no
start (`ListsAccount`). Only the first emission of a step can be a numbered delta, because the second
is made by the `close` handler (`HandlerWire`); a listener's number lies above the counter's old value and
not above its new one, in whatever order listeners are called. Connections must be finitely many
(`ClientsAssumption`). `StreamTypesHold` bounds that counter: it is at most the number of connections
times the number of deltas the session's children have printed (`Spoken`, `CountInv`), because only a
child's step that prints a delta publishes a numbered frame (`HandlerRemembers`) and each listener takes
one number for it. `AnnouncedIsSupervised` is the safety half of `AnnouncedIsSettled`: a running session has
a child, a settled one has been told, so only a session that is announced and idle could wait for nobody.
No request leaves one that was prompted (`Asked`), and a callback that leaves an idle record emits it,
which settles the session on every open connection (`AnnouncedKept`); what remains was made anew, and is
in `revived`. That a session no child ever had is not announced needs `PromptedFirst`.

**`EventStreamFeedProofs`.** `AccountsAgree` assumes `PromptedOnce` (one prompt a session, a tidy CLI), as
`StreamsAgree` is checked. The verdict on a session (step ended, step failed, both, neither) is a function of its record
(`Verdict`), and both lists of `compat.ts` tell exactly that (`ListsTell`). `OneChild`: a session has at most
one child, and when its record is settled, the child has printed its result or is gone, so all it may
still do to the record is to explain a failure, which keeps the verdict (`ChildVerdict`). So what a
connection that has noted the session holds is the verdict on the record while there is one
(`AgreedOn`), and afterwards nothing is said of it any more; a record made anew is never idle unless it is in
`revived` (`OncePrompted`). `Heard` says what a listener makes of the emissions of a step, whatever the record.

`FirstOutcomeTold` assumes nothing of the environment. A connection that has not noted a session has told
nothing of its end (`Untold`), and one that has, has finalized it (`Story`); with the types this is the invariant
`FirstInv`, and `FirstTold` what a step adds. In a step that
settles a session, a connection either has it noted, and `Heard` says that its log keeps the outcome it
holds, or is given the record that settles: the first emission of the step if that settles, else the
second, which is then the only one that does (`ChildSettling`, `HandlerFirst`); a connection that is
opened writes the verdict on the record (`ReplayTells`).

`StreamsTellStories` is the refinement: under `PromptedOnce`, `EventStream`
implements `SessionFeed`. A story is continued from its last event (`Path`, `Grows`), and the lists of
`compat.ts` lead from where the connection's sets say it stands to the update (`Chapter`). What is hard
is the next delta: it must be the next one of the run that printed the last. So the invariant `FeedInv`
says that an open text part whose session still runs ends in the last delta its run has printed
(`Written`), which holds because a session has one child (`OneChild`), a connection that has begun the
text misses no frame after that, and a frame of a record that is dropped, or made anew, is no delta of a running
session. The text of a record is that child's (`Texted`), so the text is ended by the run that
began it. Requests only announce (`RequestKeeps`); what a child does is `ChildKeeps`; what a listener
writes of either is `Told`.

**`UpdaterControllerProofs`.** The inductive invariant `IInv` adds three facts to the
properties: a search runs in the check slot only, and only while nothing is offered
(`SearchOnlyWithoutOffer`), so the one body that withdraws an offer has none to withdraw; the
refresh that `install()` runs itself is over before the restart is prepared
(`OwnRefreshOnlyInInstall`); and whatever is being staged or offered is a version
(`StagingIsSound`). From it follow `InstallingShown`, `OneCallAtATime`, `OfferKept`, and `OfferedIsStaged` and
`RestartAppliesOffer`, which except what was staged and could not be recorded. `SearchesShown` is the safety
half of `WorkResolves`: the status is "checking" or "downloading" exactly while the body in the check slot
is at the awaits that end it, and a download is shown with the version that is being staged.

**`WslServersProofs`.** The invariant is stated one server at a time (`ServerInv`), because a call or
an exit leaves the other servers alone (`OnlyOf`, `OthersKeep`). Its first half holds whatever
overlaps: the number a call reserved is its own and free until it spawns (`CallIsSound`,
`NumbersApart`), hence never that of the handle, which is why a handle is live. Its second
half, `Orderly`, is what serial calls add: a server with a call in flight has an empty `Map`
entry, an unlisted one has nothing at all, and while `stopServers()` waits nothing runs.
`ProceedKeeps` and `StopServerKeeps` are stated once for any call and cited by each request and
answer. From it follow `HandlesAreLive`, `ReadyMeansServed`, `NoneAstray`, `RemovedIsDown`,
`ReplacedWhileDown` and `StoppedIsDown`, for any number of servers, calls and processes. `SpinnersTurn`, the safety half of
`StartingResolves`, has an invariant of its own on top (`Attended`): a server shown as starting has a call
that spawns or waits, and a process some call waits for has been told to exit, or is gone, and its number
is nobody's, so no other start can bring it back to life under the one that waits for its exit.

**`DesktopAppProofs`.** `WindowsRestoredAsLeft` needs `QuitIsAwaited`: the flag that keeps ids is
set while the app is closing, and before that only while a way to end it is waiting, so a failed
update never leaves it set. `DaemonEndsWithApp` needs `DaemonIsHeld`: once the start is over, a daemon that
runs is one whose handle is set, and no `stopServices()` is under way that has passed it by. `NoEndIsStuck`, the safety half of `RelaunchEnds`, needs that nothing is stopped and no window is open before
the start is over (`StartsClean`); then a relaunch that waits has a `stopServices()` under way. `LinksAccounted` counts copies: a link has at most two, one for the queue it may be in
and one for the window it was sent to, and a copy is pending, on its way, seen or lost with a window
(`TwoCopies`, `NotLost`).

**`DraftPagesProofs`.** `ImplementsDurableMap`: with `now` what `get` returns and `safe` the documents on
disk, a write is a `Write`, the flushes are `Save`, a failed flush and a crash are `GoBack`, and all
else stutters, so the initial states and every step map. `RefsAlwaysResolve` has one
invariant for documents, buffer, pages and encodings (`RefsInv`), and needs that the buffer is empty
when the app starts (`EndIsEmpty`), since only what is on disk is counted by the collection.
`LastWordAlwaysStands` is the longest: besides the property, it says that every document and encoding
bears the name of its page (`ByTheirPages`) and, for every page and key, that what is there, or the
one encoding that is still current, will leave the page's last word (`Settles`). `QuitKeepsAll` needs
that an app that is up or quitting is the only one to change the documents.

**`ServerSyncProofs`.** `AtMostOneStream` rests on two facts about the runs. Each awaits the one before
it, so whatever follows a run that is not over is still queued (`Chained`): two requests are never open
at once. And a request that is not aborted is the one `stop()` would abort, of the latest run, whose
generation is the current one (`Known`), which needs that an earlier run's generation is past
(`Outdated`). `ClientTypesHold` is the type part of that invariant, `ClientInv`; it includes that a flush
is scheduled exactly while something is queued. `AlwaysOnItsWay`, the safety half of `Reconnects`, follows
the same chain back from the latest run to one that can go on; unless that is the one wanted, it has been
aborted or has asked for nothing yet, so it makes way.

`HeardAsRead` compares two folds over sequences of any length. The library's theorems about folds and
induction take operators as parameters, which the provers cannot instantiate, so a fold is shown once to have
the function it chooses (`FoldExists`), and is then read as the sequence of its values on the prefixes
(`CoalescesThrough`, `SpellsThrough`, `EnqueuesThrough`, `LeavesThrough`); a least counterexample
(`LeastNatural`, `Inductive`) does what induction on that sequence would. Then `CoalesceSpells`: appending a
delta to the last of the same key spells what two events would have, because a delta is never
without a text (`QueueWorded`).

`TypesHold` adds the queue to `ClientTypesHold`: pushes keep its keys apart (`EnqueuesAll`), deletions leave the
rest in order (`LeavesRest`), what the drain takes are the first `TakeCount` keys (`TakesFirst`), and it awaits
only loads that are in flight. `NothingWaitsInVain` says that what is queued has a timer or a drain, with
the exception of `CatchesUp` for a pending configuration update (`missed`). `StaleIsRemembered`, the safety
half of `CatchesUp`, follows a directory that is out of date from the stream's first event, which is in the
queue of events until it is flushed and survives the merging (`CoalesceNames`), through the listeners'
lists (`Flattened`) into the queue of directories, which it leaves only for its load.

Only model-checked is liveness (`RunSettles`, `AnnouncedIsSettled`, `WorkResolves`, `StartingResolves`,
`InitializationResolves`, `RelaunchEnds`, `WordsReachDisk`, `Reconnects`, `CatchesUp`): fairness and `ENABLED` are
beyond the prover. The safety half of `RunSettles` is `RunningIsSupervised`, that of `WordsReachDisk` the
conjunct of `DraftPagesProofs`' `TypeCorrect` that says that the timer is set exactly while a write is
pending; the others' are named above. That of `InitializationResolves` would only restate where `initialize()`
is, and is left out.

## 5. What the runs found

Two comments say something else than the code does.

1. `stream_restart`: "Events emitted as soon as a run starts" (`compat.ts:101`). A session
   that is prompted again sends no start events, and no settlement, on a connection that
   was open for its first run, because the sets of `server.ts:423-425` hold session ids.
2. `updater_store`: "a failure keeps the current one" (`updater-controller.ts:73-74`). If the
   record cannot be written after a newer version was staged, the older version stays on the
   button while the newer one would be installed.

Met while modelling, without a run of its own: "Returns false if the session is unknown"
(`runner.ts:107`), but `prompt()` makes the session and returns true, and the 404 branch of its
endpoint (`server.ts:394-397`) is dead. In `prompt()`, `emit()` makes up a successful result frame
that only the legacy per-session stream would pass on. A session that is dropped while it runs and made
anew is settled by the next line of its child, be it a delta (section 2.2). "Late subscribers don't get
duplicate start events" (`server.ts:421-422`), but the replay sends `session.text.started` without noting
it in `textStarted`, so a later run begins the same text part again on that connection.

## 6. Not modelled

| part | why |
|---|---|
| app: session, catalog and home-list caches (`packages/app/src/context/server-session*.ts`, `server-sync/catalog.ts`), optimistic prompts (`components/prompt-input/submit.ts`) | written against OpenCode's richer protocol, of which the daemon sends a handful of events; what they make of those is a fold over what `HeardInOrder` says arrives, and the rest is react-query |
| app: stores of directories that are read but never shown, and `refresh()` of the queue | the first are queued like the others when a change of theirs is heard, but no page waits for them; the second has no caller |
| daemon: legacy per-session stream (`server.ts` 503-523) | the app does not open it |
| daemon: CLI lookup, model list, read-only and stub endpoints, formatting | no state, no interleaving |
| daemon: the probe of a free port (`daemon.ts:29`) | another process may take the port before the daemon listens; the model begins after `spawn()`, where this is a start that fails |
| desktop: window creation, the recovery dialog, the cleanup of store files, the menu | Electron and file calls without an order to get wrong |
| desktop: deep links given on the command line | `process.argv` is never read at a cold start; on the other side nothing in `packages/app/src` drains `window.__OPENCODE__.deepLinks`, where the renderer puts links |
| desktop: WSL jobs and probes (`servers.ts:202`) | what the settings page shows while a job runs; `runJob()` clears the field of another job that is running |
| app: persistence of what is not a draft | its synchronous path has no interleaving |
| `packages/core`, `ui`, `session-ui`, `client`, `schema`, `util` and the other vendored packages | OpenCode's engine and presentation; the daemon does not run the engine |
