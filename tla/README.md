# Verification of the proxy monitoring tool (PMT)

TLA+ models, TLC runs and TLAPS proofs for the FastAPI application in `src/` and
for the JavaScript of its pages. This file says what the system consists of,
which module models which part, what each run checks and what is proved.

## The system

One uvicorn process (`run_app.py`) runs one asyncio event loop. `async def`
handlers and asyncio tasks are atomic between two awaits; `def` handlers run
in a thread pool; the retention job runs in a thread of its own. Rows live in
one SQLite file in WAL mode, session batches in temporary files, everything
else in process memory. A browser keeps one document open over many pages:
`base.js` fetches the next page and puts its content into the document, so that
scripts, timers, sockets and answers under way outlive the page they belong to.

| Part | Code | State it keeps | Operations |
|---|---|---|---|
| Background collection manager | `app/utils/background_collector.py` | `_running_tasks`, `_collection_status`, `_websocket_clients`, `_lock`, the retention task | start, stop, restart on a config change, start at startup, register and unregister web sockets, broadcast; periodic collection; hourly retention |
| Resource collector | `app/services/resource_collector.py` | counter caches per proxy, memory cache, interface config cache, two semaphores | SNMP and SSH reads, rates from counters, retention, cache cleanup |
| Resource usage and config API | `app/api/resource_usage.py`, `resource_config.py` | rows `resource_usage`, `resource_config` | collect once, background start, stop and status, web socket; history; read and save the config |
| Database start | `app/main.py`, `app/database/database.py` | `pmt.db`, its `-wal`, `.recovered`, `.corrupt`, `.unrecoverable`, `.lastcheck` | check, backup, dump, replace, create tables |
| Proxy registry | `app/api/proxies.py`, `proxy_groups.py` | rows `proxies`, `proxy_groups` | create, bulk create, update, delete with dependents |
| Traffic logs | `app/api/traffic_logs.py` | rows `traffic_logs`, `_live_state` | collect over SSH (replace), query, live tail, reset, analyse |
| Session browser | `app/api/session_browser.py`, `app/storage/temp_store.py` | batch files, `latest` pointers, per-proxy locks | collect, list, detail by record id, cleanup |
| SSH pool | `app/utils/ssh.py` | `connections`, `pool_lock` | get a client, evict idle ones, execute with retries |
| Config management | `app/api/config_management.py` | all config rows | export, import, reset |
| Page loader | `static/js/base.js` | history, content, loaded scripts, spinner and bar timers | click, back and forward, answers, full loads, scripts |
| Collector panel | `base.js`, `resource_usage_polling.js` | the status socket and its retries, `isCollecting`, `taskId` and their storage | open, lose and reopen the socket, status checks, messages, follow a task |
| Usage page | `resource_usage*.js` | selection, last data, table key, frames, series | poll, draw, patch, restore |
| Device selector | `device_selector.js` | groups, proxies, choice, storage | load, restore, choose |
| Proxy management page | `proxy_management.js` | the form, the bulk dialog | fill, save, parse, send, results |
| Settings page | `settings.js` | two forms, `initialConfigData`, `hasChanges` | load, edit, save, import, reset |
| Traffic log page | `traffic_logs.js` | grid and its blocks, live watch | collect, scroll, watch, stop |
| Session page | `session_browser.js`, `common.js` | records, IndexedDB, localStorage, analysis | load, restore, analyse, CPU column |
| History and analysis pages | `resource_history.js`, `resource_history_analysis.js` | results, dialog; panels, filter | search, delete; ask, render, filter |

How they interact: saving the resource config calls
`restart_on_config_change`, which stops every automatic collector and starts
one from the row and the active proxies. A collector reads proxies and config,
awaits SNMP and SSH reads (which share the caches and the SSH pool with
one-shot collections, live tails and session collections), inserts rows and
tells all web sockets. Deleting a proxy removes its rows but not its entries
in memory; retention purges those once an hour. A start of the process first
recovers the database, then creates tables, then starts collection. The panel
of every document listens to the broadcasts and asks for the status; the usage
page polls what the collector inserts; five pages share the choice of proxies
through `localStorage`.

### What is hard here

* Interleavings at awaits: a config change while another is half way, a stop
  while the task waits for the lock, browsers that come and go in a broadcast,
  a proxy deleted while its reads are under way.
* Two holds of one lock for one logical change (table, then broadcast).
* Waiting: a stop awaits the task it cancelled; sends happen with the lock held.
* State read before an await and used after it; caches and offsets keyed by
  ids that SQLite may use again; offsets shared by several watchers.
* A crash, a full disk or a failing move in the middle of recovery.
* Answers that come late, out of order or never, to a page that was left and
  entered again; timers and frames that fire on another page's content; storage
  that a visit behind the one shown writes to.
* Edges: 32 bit counters, 12 bit line indices, one-second file names, local
  time against UTC.

`PROJECT.json` lists the hazards with their lines and the properties that cover
them. It leaves out, for want of a model (see "Not modelled"): `send_json`
without a timeout (`background_collector.py:101`), the proxy ids an automatic
task keeps from its start (`:372`), the response of `background/start` that
raises after the task was started (`resource_usage.py:518`), a cache invalidated
under a name its module does not export (`resource_config.py:124`), the
thresholds and clocks of rates and retention (`resource_collector.py:203`, `:422`,
`:554`, `temp_store.py:155`), the keys of the SSH pool (`ssh.py:59`) and the test
for duplicate hosts (`proxies.py:48`).

### What makes each part correct

| Part | Properties |
|---|---|
| Collection manager | one task per id and none that cannot be stopped; a stopped task is silent; broadcasts of an id follow its life cycle; browsers know what runs; automatic collection uses the saved config, once; nobody waits for ever |
| Database start | committed rows are served after any crash; nothing a power failure spared is destroyed; a process started a day after the damage does not serve the damaged file; the `-wal` is not deleted |
| Proxy registry | one proxy per host; no rows of deleted proxies; the history of a proxy is its own |
| Rates | a rate is the difference of two readings of one device over the time between them |
| Live tail | the shared offset passes no line that no poll looked at |
| Session browser | a record id shows the session it was made for; the newest batch is the one shown and never the one removed |
| SSH pool | commands run with the credentials configured; one host does not block another |
| Page loader | address and content agree; every page comes to life; spinner and bar go away |
| Collector panel | menu and page end up with what runs at the server |
| Usage page | the table ends up with the selection, and what is copied from it is what it shows |
| Device selector | the user's choice survives visits, failures and late answers |
| Forms | an edit reaches the proxy it was made for, a result stands at its row, what the page calls saved is stored |
| Grids, lists, panels | they show one answer, the newest, and no rows known to be gone |

## The modules

| Module | Models | State and actions |
|---|---|---|
| `BackgroundCollector` | `background_collector.py` with the handlers that drive it | see below |
| `CollectionFeed` | abstract: what the web socket promises of each task id | `feed`, the last status broadcast |
| `CollectorFeed` | `BackgroundCollector` with two observers, shown to implement `CollectionFeed` | `feed`, `view` |
| `DbRecovery` | `_recover_sqlite_db` and `create_all` in `main.py` | files, disk, the step the process is at |
| `ProxyStore` | `proxies.py`, the collections and polls that work on proxies, the hourly retention | the table, what is kept under its ids, what each request, job and the retention thread has read |
| `SessionStore` | `temp_store.py` and the handlers of `session_browser.py` that use it | batch files, `latest`, cache, the row on the screen |
| `LiveTail` | `get_live_log` and what resets it | the remote file, `_live_state`, the polls in flight |
| `PageLoader` | `loadPage`, `AppLoader`, `AppProgress` of `base.js` | history, content, fetches, scripts, timers |
| `CollectorPanel` | the status socket and check of `base.js`, `resource_usage_polling.js` | tasks at the server, socket, messages, what the document believes |
| `UsageTable` | the polls and the table of `resource_usage.js`, `_heatmap.js`, the series of `_charts.js` | selection, answers, frames, table, series |
| `DeviceSelector` | `device_selector.js` | what each visit has read, the choice, the storage |
| `ProxyForm` | the form and the bulk dialog of `proxy_management.js` | rows at the server, answers, form, results |
| `SettingsPage` | `settings.js` | both configurations, the form, answers |
| `TrafficPage` | collection and grid of `traffic_logs.js` | rows, blocks, reads |
| `LiveWatch` | the live watch of `traffic_logs.js` | interval, calls, the server's entries |
| `SessionPage` | `session_browser.js`, storage of `common.js` | records, database operations, analysis |
| `HistoryPage` | `resource_history.js` | rows, searches, deletions, dialog |
| `AnalysisPage` | `resource_history_analysis.js` | runs, answers, panels |
| `...Proofs` | theorems about the module of that name; `PartsProofs` and `DocumentProofs` about `MCParts` and `MCDocument` | |
| `MC...` | constants for TLC; `MCDocument` and `MCParts` put parts together | |
### BackgroundCollector

The coroutines are request handlers, collector tasks and web sockets, each with
its own `pc`. `loop` is the coroutine that has the processor and keeps it over
the steps between two awaits, `lockQ` the FIFO of `asyncio.Lock`: the holder
first, then the waiters. Taking a free lock does not yield, which matters: after
releasing, `_broadcast_status` gets the lock at once if nobody waits and goes
behind the waiters otherwise (`ReleaseAndRequeue`). An action is one stretch of
code between two points where another coroutine can run or where the lock
changes hands.

| Code | Actions |
|---|---|
| `update_resource_config`, `restart_on_config_change` | `PutConfig`, `RestartNext`, then `StartOnStartup` or `NothingToStart` |
| `start_collection` | `StartTask`, `AlreadyRunning` |
| `stop_collection` | `StopTask`, `NotRunning`, `Join` |
| `_broadcast_status` | `BeginBroadcast`, `Deliver`, `DeliverFails`, `EndBroadcast` |
| `_periodic_collect`, `_collect_once` | `CycleStart`, `CollectStart`, `CollectNothing`, `CollectEnd`, `Unwind` |
| endpoints | `RequestStart`, `RequestStop`, `Connect`, `Register`, `Disconnect`, `Unregister` |
| proxy endpoints, in threads | `EditProxies` |

Abstractions: a config is a model value with a community and a flag that says
whether it has OIDs; `hash()` in the task ids is injective; SNMP reads are one
step that ends in rows or an error; `Tasks` bounds the task objects alive at
once, by an assumption that makes the bound never bite (an id has at most one
running task, and a handler holds at most one cancelled one). A broadcast sends to its clients in any order, as a
Python set does. The cancellation of a handler by a client that goes away is not
modelled (Starlette does not cancel it).

### DbRecovery

A file is a set of rows and a health: `ok`, `empty` (no tables yet), `damaged`
(opens, fails `quick_check`) or `unreadable`. `wal` is what the `-wal` holds.
SQLite merges the `-wal` when the last connection closes, also into a damaged
file, unless the disk is full. The three stages of `_recover_sqlite_db` are
`Check`, `Backup`, `Dump`, `MoveAway`, `MoveIn`, `Cleanup`, `MoveFails` and
`Fallback`; `Crash` may come between any two, `DiskFills` at any time.
`iterdump` keeps any subset of the rows of a damaged file. Ghost variables:
`committed` (rows committed and not destroyed by a power failure), `damages`,
`unmoved`, `starved`, and for the age of things `checkedSince` (the marker was written
after the last damage), `dayOld` (the damage is a day old) and `overdue` (it was when
the process last began its check). `TimePasses` makes the marker and the damage a day
old at any step of the process, also while it serves; nothing is checked but at a
start, so a process that started in time serves a damaged file for as long as it runs.

### ProxyStore

A birth number, which the program does not have, tells one proxy from the next
with its id; a row is the pair of the id it is filed under and the birth of the
proxy it was read from. SQLite gives a new row the highest id in use plus one
and does not enforce the foreign keys, as `PRAGMA foreign_keys` is never set.

| Code | Actions |
|---|---|
| `create_proxy`, `bulk_create_proxies`, `update_proxy` | `Create`, `Update` |
| `delete_proxy`, in two steps: it looks the proxy up, then deletes by id | `FindToDelete`, `Delete`, `DeleteFails` |
| `reset_full_config` | `Reset` |
| `_collect_once`, `POST /resource-usage/collect` | `CollectBegin`, `CacheCounters`, `CollectEnd` |
| `POST /traffic-logs/collect`, one thread per proxy | `FetchBegin`, `FetchEnd`, `JobFails` |
| `GET`, `DELETE /traffic-logs/live/{id}` | `PollBegin`, `PollEnd`, `JobFails`, `ResetLive` |
| `_periodic_retention` | `RetainUsage`, `RetainLogs`, `ReadIds`, `CleanCaches` and their failures |

A refused create or edit changes nothing and is left out, and with it hosts and
the test for duplicates.

### SessionStore

A file is the number of the collection that wrote it and its number of rows. The
handlers are coroutines without an `await`, so nothing runs between the steps of
a collection; they are separate actions because a write may fail (`WriteFails`:
some of the rows are in the file) and the process may die (`Crash`) between any
two. `Collect`, `WriteBatch`, `EndWrites` and `Cleanup` are `collect_sessions`;
`List` and `Load` put a row with its record id on the screen, from the files and
from the cache; `Item` is what the detail view finds. Record ids are arithmetic:
`IndexSize`, `TimeSize` and `ProxySize` stand for 2^12, 2^32 and 2^20. Ghost
variables: `newest`, `torn` (the last write of the proxy failed), `unlinked` (the
file was written but its name not).

### LiveTail

Each poll of `get_live_log` runs in a thread: `Start` reads the entry,
`CountLines` and `Tail` are the two halves of one SSH command, `Record` writes the
count back, `Fail` is a 502. `Log` and `Rotate` are the proxy. The keyword is the
poll's own while the offset is the proxy's, so each line comes with the set of polls
whose search finds it (`hits`), any set, and `Found`, `Newest` and `NextOnes` are the
pipes of `tail`, `grep` and `head` over it. `covered` is the history of the lines that
were given to a poll whose search finds them, or that a poll looked at and left out:
it does not find them, or they are too old or too many for it. A line that only
another browser's search finds is covered by the poll that passes it, and that browser
may never see it: the code does that, and no property here forbids it.


### The pages

What a page's script can do is one stretch of JavaScript between two points where
it waits, so an action is a handler up to its `await`, or the continuation after an
answer, a timer or an animation frame. Requests in flight are sets, since nothing
orders or cancels them: each is served at some moment (with what the server has
then) and answered at a later one, or fails. A page that is left keeps its
requests, timers and variables, and its handlers find no element, or those of the
next visit; the modules have `here` or a number of visits for that. A new document
forgets all but the storage. Values are told apart only as far as matters: rows by
the request or the collection they came from, configurations by who wrote them,
texts by which lines are proxies. A rejected validation, a confirmation that is
declined and a toast change nothing and are left out.

| Module | Code | Actions |
|---|---|---|
| `PageLoader` | clicks, `popstate`, `loadPage` | `Click`, `Travel`, `ClickTab`, `Answer`, `Fail`, `FullLoad` |
| | scripts appended by `loadPage`; `AppLoader`, `AppProgress` | `ScriptRuns`, `ScriptFails`, `Ready`; `ShowTimerFires`, `HideTimerFires`, `BarFades` |
| `CollectorPanel` | `initWebSocket` and its callbacks, `visibilitychange` | `Opens`, `Receive`, `Closes`, `RetryTimer`, `Hidden`, `Shown`, `Reload` |
| | `checkStatus`, `OpenPage` of the usage page | `AnswersCheck`, `CheckAnswered`, `CheckFails`, `OpenPage` |
| `UsageTable` | `fetchLatestForProxies`, `updateTable`, `_doUpdate`, `showSkeleton`, `restoreState` | `Completed`, `Receive`, `ReceiveSome`, `UpdateTimer`, `Frame`, `SkeletonTimer`, `Return`, `Restore` |
| `DeviceSelector` | `init`, `populate...`, `restoreFromStorage`, the change handlers | `Visit`, `Leave`, `GroupsSettle`, `ProxiesSettle`, `Ready`, `ChangeGroup`, `ChangeSelection` |
| | `saveState`, `restoreState` of `resource_usage_state.js` | `saveState`, `RestoreState`, `ApplyProxySelection` |
| `ProxyForm` | `openModal`, `cloneProxy`, `saveProxy`, the bulk dialog | functions of the same names, `Filled`, `Saved`, `GroupsListed`, `BulkAnswered` |
| `SettingsPage` | `loadResourceConfig`, `loadSessionConfig`, `checkForChanges`, `saveAllConfig` | `Loaded`, `LoadFails`, `Edit`, `saveAllConfig`, `Serve`, `Answered`, `Leave`, `Visit` |
| | `importConfig`, `resetConfig` | `ImportOrReset`, `ServeImport`, `Reload`, `ImportFails` |
| `TrafficPage` | `collectLogs`, the datasource of the infinite grid | `Collect...`, `Read...`, `Scroll`, `Refresh`, `Refilter`, `Select` |
| `LiveWatch` | `startLiveLog`, `fetchLiveLog`, `stopLiveLog` | `Start`, `Tick`, `ServePoll`, `Hear`, `Stop`, `ServeForget`, `Lose` |
| `SessionPage` | `loadSessions`, `persistState`, `restoreState`, the analysis | `LoadAnswered`, `DbServes`, `DbFails`, `RestoreTimer`, `Restored`, `Analyze`, `OpenCpu` |
| `HistoryPage` | `searchHistory`, `deleteHistory`, the dialog | `Search...`, `Delete...`, `OpenModal`, `closeModal` |
| `AnalysisPage` | `runAnalysis`, `Promise.all`, the filter | `runAnalysis`, `QuestionAnswered`, `QuestionFails`, `Filter` |

Ghost variables say what a property has to except or to remember: `alone` (no back
or forward had company), `misled` (a status check that failed or was overtaken),
`chosen`, `disturbed` and `overwritten` (what the user chose; what changed at the
server; that `restoreState` has set something since), `overlap`, `wiped` (a save beside
another, an import or a reset; a blank form that was saved), `crossed`, `torn`, `unread`
(an answer that came while records were read; one that expired or was not written; a
read that failed), `unheard`, `mixed`, `late`, `excused` in the modules that declare them.

Three of the pages do things that a reader may not expect, and that the properties
name as exceptions. The usage page keeps the choice of proxies a second time, under a
key of its own; `restoreState` sets the group from there when the selector is ready,
whose change handler selects and stores all proxies of the group (or none when they
could not be read), and a moment later sets the proxies of its copy without storing
them: the user's choice is shown once more and is gone on the visit after
(`ChoiceIsKept` ends there). An import or a reset is a request, an answer and a new
document, and the form can be edited and saved until then: a save beside it may say
"saved" over what the import stored (`SavedIsStored` excepts it). An answer that
IndexedDB does not take leaves the older batch with its stamp, and a later visit
restores that one (`ListIsKept` excepts it).

`UsageTable` begins with a collected value of every proxy: one that was never collected
is not considered.

`CollectorPanel` takes the server to be what `CollectionFeed` promises, which
`CollectorFeed` shows of the collection manager: the two meet in that abstract
module. `LiveWatch` uses of the server that a poll makes an entry and `DELETE`
forgets it; the poll's own steps are in `LiveTail`.

### MCDocument and MCParts

The parts of a document, and the pages, share no variable of the program that
their modules leave open (storage keys, DOM elements and endpoints are their own;
what one changes at the server the other has as an action of its environment). A
product of their state spaces would show nothing more, so the two MC modules put
them side by side with a variable `part`, chosen at the start: one part moves, the
others stay as they begin. In `MCDocument`, whose properties are about liveness,
the others begin at rest, where no timer is set and nothing is due, so that the
fairness of one part asks nothing of another. A property that spoke of several parts
could not be stated here; none does.

## The runs

| Run | Shows | Bounds |
|---|---|---|
| `collector` | type correctness, one collector per id, silence after a stop, stable clients in a broadcast | two handlers (the smallest number that can collide), one browser, one automatic and one on-demand id, four Task objects (both ids running and both handlers awaiting a cancelled one); 1,586,366 states |
| `collector_feed` | the right picture in the browser, and refinement of `CollectionFeed` | the same; 3,057,522 states |
| `collector_one_writer` | automatic collection uses the saved config, once | one handler, four configs over two communities, so that ids change and stay the same; one without OIDs |
| `collector_live` | liveness | one handler, one browser, two tasks |
| `restart_race` | expected violation | two handlers, two configs with the same id |
| `proxy_store` | rows stay with their proxy; what a deleted one leaves goes | two ids and two proxies ever created: enough for an id used again while another is in use or not; one deletion and one job in flight, with the retention thread |
| `live_tail` | the offset passes no line that no poll looked at, and every line comes to be looked at | two polls in flight with a search each, two lines a file that any of them finds or not, two files, a first look at two lines for one, later ones of one: every cut happens |
| `document` | page loader, collector panel and usage table: address, spinner, scripts, menu, followed task, table | three navigations over two pages, two scripts, one with a handler; two tasks, one socket, two changes and two breaks; two proxies, two fetches and one frame in flight, series of two points; 271,218 states |
| `parts` | the other pages, the session files and the database file | two of what can be confused (proxies, groups, visits, loads, searches, panels, saves), three polls and grids, so that an older and a newer one and one that is shown differ; for the database two rows and one damage, crashes and full disks without bound; one other act in the settings, so an import and a departure from the page together are left to the theorem; 2,412,116 states |
| `session_ids` | expected violation | four rows for an index of two |
| `db_recovery_full_disk` | expected violation | two rows, no damage |
| `settings_unloaded` | expected violation | one save, one other act |

Handlers, tasks and clients are interchangeable, so the safety runs of the
collector use symmetry; the liveness run does not. `document` and `parts` do not
check for deadlock, as a user may stop and every bound is then used up.

`NothingSparedIsDestroyed` holds for one damage and is false for two: the recovery
of the second overwrites what the first set aside as `.corrupt`. The bound of one is
part of what the run shows.

Fairness of the collector (`Fairness`): asyncio runs ready coroutines in FIFO
order, so each handler, task and client that can step infinitely often does (SF, as
another coroutine that keeps the processor or the lock disables a step for a
while). That a read, a sleep and a send end is part of this: reads have timeouts, a
send ends by delivery or by the web socket's ping timeout. Requests, edits and
connections are not fair.

`ProxyStore` assumes that the retention thread goes on, which its loop with the
`except` inside justifies, and that its failures (a locked database) are not for
ever (SF on its steps); no fairness of requests or jobs. `LiveTail` assumes that
a browser that watches polls again (`setInterval` in `traffic_logs.js`), that
every poll ends, and that not every SSH command fails.

`PageLoader`, `CollectorPanel` and `UsageTable` assume what a browser guarantees
(WF): every fetch is settled, timers fire, a navigation ends in a document, a
script that was appended loads or fails, a visible tab gets its frames, an open
socket delivers; and that the server goes on collecting while a task runs. Users
need not act and networks need not hold; the properties that need an open socket or
a visible page have it as a premise (`<>[]`). The parts in `parts` have no fairness.

### What the violations say

* `restart_race`: two config changes in flight. The first is between its stop and
  its start when the second lists the automatic tasks and finds none. The task
  id covers proxies and community only, so the second start is "already
  running" and is dropped, or the first one starts late. The older OIDs and
  interval stay in use while the page shows the newer ones.
* `db_recovery_full_disk`: the daily marker cannot be written on a full disk,
  which stage 1 takes for damage. Backup and dump fail for want of space, an
  empty database takes the place of an intact one, and the `-wal` with its
  committed rows is deleted, which the function's docstring says never happens.
  The main file remains as `.corrupt`.
* `session_ids`: a record id has twelve bits for the line and one-second
  resolution. A proxy with more than 4096 sessions has two rows with one id, and
  the detail view opens the first; two collections in one second replace the rows
  under the ids on the screen. `DetailsOpen` states what does hold.
* `settings_unloaded`: `checkForChanges` returns while nothing has been loaded, so
  `hasChanges` stays false and `saveAllConfig` asks nothing: on a page whose
  configuration is on its way, or could not be read, the blank form goes over both
  configurations.

## The proofs

`BackgroundCollectorProofs` proves for every value of the constants, from the
named assumptions of `BackgroundCollector` (coroutines, ids and configs are
distinct; finiteness), that `Spec` implies `[]TypeOK`, `[]OneCollectorPerId`,
`[]StoppedIsSilent` and `ClientsStableInBroadcast`.

The inductive invariant `IInv` adds to these what makes them inductive:

* `QueueInv`: the lock's queue holds a coroutine at most once, and only while it
  waits for or holds the lock (without it, a release could hand the lock to
  somebody who left);
* `SenderInv`: whoever broadcasts is at the head of the queue, so there is one;
* `CollectInv`: a task between the end of its broadcast and its first read has
  the processor, so nobody can cancel it there;
* `LocalsInv`: the locals of a coroutine are set where it uses them.

Lemmas about sequences (`EnqueueFacts`, `TailFacts`, `WithoutFacts`) carry
`QueueInv`; there is one lemma per action, and `NextInv` puts them together.
`LockIsPassedOn` adds `WaitersInv`: a coroutine at a step that needs the lock holds it
or is in its queue, unless it was cancelled. So the lock is never leaked and forgets
nobody, only its holder broadcasts, and no request awaits a task while it holds it:
the safety half of `RequestsAreAnswered`.

From the same invariant, and from `OneHandler` (requests come one at a time), follow
`[]AutoCollectsSavedConfig` and `[]OneAutoCollector`. `RestartInv` says how far a
restart has come: what runs automatically is among what it has yet to stop; when it
is about to start a task nothing runs automatically, and it holds the configuration
that is saved; no other request starts an automatic task. The premise cannot go: with
two handlers the run `restart_race` finds the first false, and TLC with two
communities, a browser and two handlers also the second.

`CollectorFeedProofs` builds on it and proves, for any number of coroutines, ids and
browsers, that `FeedSpec` implements `CollectionFeed` (`PromiseIsKept`) and
`[]ClientsKnowWhatRuns` (`ClientsAreRight`). The table and the broadcast are two
holds of the lock, so several broadcasts of one id may be waiting. `FeedInv` says
that those are a chain: the first is a legal change from what was broadcast last
(`FirstInv`), each is legal after the one before it (`NextOneInv`), and the last says
what the table says (`LastInv`). Lemmas on the order in the queue carry it through
joining, leaving and cancelling; one lemma per kind of step says what it does to the
chain. For the browsers, `ViewInv` says that a registered client without news to
come about an id has the right picture of it, and `SendingInv` the same of whom a
broadcast has already reached.

`ProxyStoreProofs` proves `TypeOK` and `StrangersAreLate` from
`BoundsAssumption`. The strengthening is `WorkIsAliveOrLate`: what a job has read
from the table is alive or is recorded as late. It is what makes the end of a
collection safe, whatever was deleted and created in between.

`LiveTailProofs` proves `TypeOK` and `OffsetIsCovered` from `SizesAssumption`.
A poll writes back what it read some time ago, so the strengthening follows each
poll (`PollIsCovered`): the entry it read was covered, it counted no more lines
than there are, and its answer accounts for those in between: given, not found by its
search, too old or too many. `AnswerCovers` is the arithmetic of `tail`, `grep` and
`head`. What is proved is that no line is passed without a look. With one search in use
every line it finds is then given to somebody or left out by a limit; with several, a
line that only another one finds can be passed.

`DbRecoveryProofs` proves `TypeOK`, `CommittedRowsAreServed` and
`LaterStartsFindDamage`, for any set of rows and any number of damages and
crashes, and `NothingSparedIsDestroyed` for one damage. `Untouched` says that
without damage and with room on the disk no recovery begins, and that a database
without tables has no committed rows; `SoundInv` that what a recovery is about to put
in place is sound, and that a file opened or served is sound, was damaged within the day
before the start, or could not be moved: a check that passed before the damage is older
than it, so it is due once the damage is a day old (`LaterStartsFindDamage`). Neither
theorem speaks of how long a process goes on serving what it once opened.
`SparedInv` follows the rows that the damage spared from file to file, through each
step of a recovery and through a crash between any two. It needs `MaxDamages <= 1`:
with two damages TLC finds a second recovery that overwrites what the first one set
aside. The assumptions of the module are
premises of the theorems.

`SessionStoreProofs` proves `TypeOK`, `NewestIsShown` and `DetailsOpen` for any
proxies, rows, seconds and number of collections, from `SizesAssumption`, the last
also from `IdsHaveRoom` (proxies and seconds fit into a record id; lines that do not
are excepted by the property). The strengthening ties everything to the newest file
of a proxy: it is the only one of its batch (`NewestInv`), the one "latest" names and
the cache holds unless the history says why not (`NamesInv`), and whoever holds its
batch, in the cache or on the screen, holds its second (`CacheInv`, `HeldInv`). It
holds in the middle of a collection too, since what is still to be written is newer
than everything of its proxy (`AnswersInv`). `DivModIs` is the arithmetic of the ids.

`PartsProofs` proves every invariant of the run `parts`. The parts share no state, so
a behaviour of them all is one of each (`EachPart`), and each has an inductive
invariant of its own:

* the device selector: a proxy that nobody moved, deactivated or deleted is where
  every visit that knows its proxies saw it, and the group stored with a choice is
  "all" or the group of the proxies chosen, so that no restore filters them out, or adds
  others to them, until `restoreState` of the usage page sets something (`ChoiceIsKept`);
* the proxy form and the bulk dialog: what a late answer may still fill in, and whose
  fields those are; the rows a bulk request was sent with, and those its results
  stand at (`ProxiesStayApart`, `ResultsStayWithRows`);
* the settings: unless a save had company, each PUT under way belongs to the last save
  and carries its value, no import or reset is on its way to the server, and what was
  answered well is stored; a new document hears of no save of the last one
  (`SavedIsStored`);
* the traffic logs: while no collection is dealt with and unanswered to the page, the
  blocks shown and those still to come are of the versions at the server, and of the
  proxies selected unless the selection changed (`GridIsCurrent`); the live watch: a
  poll under way is of the proxy that is watched, or of one that is excused
  (`EntriesGo`);
* the session page: the requests to IndexedDB are a queue, so either its last write is
  of the newest records or these are kept already, unless a write failed, and no read is
  behind a write of other ones (`ListIsKept`); the flag of the CPU column and the fetches that may still set it
  (`CpuIsOfAnalysis`);
* the history and analysis pages: what a search under way may bring and what a
  deletion under way takes (`ShowsSurvivors`); the panels of a run change together
  (`PanelsAgree`);
* the session files and the database file: their theorems are taken from
  `SessionStoreProofs` and `DbRecoveryProofs`, with their premises (ids have room; one
  damage).

`DocumentProofs` does the same for the run `document`, whose parts the composition
`MCDocument` starts in any state or leaves at rest. The loader: while no back or
forward had company, either only clicks are under way and address and content agree
(`OnlyClicks`), or one travel is under way to the address that is there (`OneTravel`).
The panel: the types, with what makes them inductive (only an open socket has
messages, no more than its queue holds). The table: the
rows of its cells are those its key names and are gone while another page is shown,
so a patch rewrites every cell it shows (`TakesWhatIsShown`); and no series outgrows
its limit, through a filter by age. The filter is a recursive function over a
sequence; that it exists and keeps a sequence no longer than it was (`SinceFacts`)
is an induction over the naturals, which the prover has no rule for: `SetInduction`
gets it from the pigeonhole theorem of the library, since a set that has 0 and all
successors and misses a number would allow a finite set to be put into a smaller one.

Only model-checked: liveness, since fairness and ENABLED are beyond the prover. Every
invariant of a passing run is a theorem. The properties that are false of the code
are those of the runs that expect a violation.

## The plan

Done: the collection manager with its feed, the database start, the proxy
registry, the live tail, the session files, and of the browser the page loader,
the collector panel and the page of every menu entry.

Left, in this order:

1. `Collection`: the collectors with the counter caches (rates against a reference
   over bounded counters: wrap, reset, time order) and the SSH pool (connections,
   credentials, idle eviction, retries).
2. `ConfigMerge`, `ConfigImport`: preserved fields, partial imports, the collector
   an import does not restart.
3. `ProxyStore` with hosts, whose uniqueness is tested before an await-free insert
   in another thread; rows that expire by the two clocks.

Theorems worth proving next: the safety half of the liveness properties (what a
document, a task or a watch that is not done still has under way), and that
`CollectionFeed` is also what a browser's panel shows.

## Not modelled, and why

* Rates and retention of the resource collector, the SSH pool, export and import
  of the configuration, uniqueness of hosts: planned, see above.
* The bulk of `resource_usage_charts.js` (drawing and zooming of charts, layout of
  panels), the statistics of the history analysis, sparklines and colours:
  computations on one answer, without state that outlives them.
* `ag_grid_config.js`, `table_config.js`, `resource_usage_utils.js`, formatting,
  toasts and dialogs of `common.js`, exports to CSV: options and conversions.
* `resource_usage_state.js`: copies of charts in `localStorage` (`saveBufferState` is
  not called). The choice of proxies, which the pages share, and the usage page's copy
  of it are in `DeviceSelector`; the drawn table, and what `restoreState` does to it, in
  `UsageTable`.
* `startPolling` and `stopPolling` (resource usage) are not called any more.
* `session_browser_analyze.js` is included by no template. The upload dashboard of
  `traffic_logs_analyze.js` asks once and draws; its guards at lines 277-293 keep it
  dead after a return through the page loader.
* The traffic page has a function that saves its state which nothing calls, while
  `docs/DEVELOPER_GUIDE.md:112` says pages restore theirs: a missing feature and
  not a behaviour to check.
* The tab with live sessions and `showDetail` of the session page: one request, one
  dialog.
* `CollectorPanel` allows any number of sockets; the run has one, so an old socket
  that is still closing when the next one opens is not explored.
* Templates, styling, vendored assets, one-off migration scripts, formatting of log
  lines, encryption (a conversion with a fixed key), logging.
* Faults no handler of the code deals with, such as a full memory.
