# A verification project for void-stack

void-stack is a workbench for developers: it starts and watches the services of
a project, indexes its code for semantic search, audits and draws it, keeps a
board of tasks, and shares the one GPU of the machine among the programs that
want it. This directory holds TLA+ specifications of the parts that carry state
and concurrency, model-checked with TLC on small instances and, where it says
so, proved with TLAPS for all instances.

Modelled: the **GPU broker** (`crates/void-stack-gpu`) with its history, its agent
sessions and its **Python client**; the **process manager**; the **semantic index**
with its jobs, its watcher and its cache; the **board**; the **global configuration**
and the renaming of projects; the **daemon** with its briefing. Proved, for instances of
any size: every safety property that a run checks, of every module, with the three
refinements: the broker and the broker of the client model implement `VramAllocator`, the
process manager implements `ProcessLedger`. Liveness is model-checked. The inventory lists
the rest of the system, the plan what is left.

## Inventory

State, operations, interaction, hard behaviour, and what makes it correct:

| Component | State | Operations | Hard behaviour | Correct when |
|---|---|---|---|---|
| GPU broker core `gpu/broker.rs`, `model.rs` | leases (queued, granted), held owners and tasks, modes, one reservation, last reading, Ollama, residents, pending effects, history | acquire, poll, heartbeat, yield_point, release, tick, hold, resume, set_priority, cancel, set_training, set_queue_paused, the buttons, set_ollama / set_residents / set_measured / set_interactive, drain_effects | every operation runs the scheduler; readings are late; requests to let go are unconfirmed; several reasons to yield overlap | what is granted fits; only the willing yield; no lost wakeup; the reservation is respected; the user's pauses hold; what is critical is not interrupted and gets in |
| GPU service `gpu/server.rs` | the broker behind a mutex; a sampler loop; spawned effects | HTTP handlers (`mutate`: lock, call, unlock, settle), `sample`, `settle`, WebSocket stream | reads the world without the lock and applies later; effects carried out after the lock | an effect never hits an engine that was leased meanwhile; history in order |
| GPU history `gpu/history.rs` | a SQLite table | `record` (merges bursts of turns), `since` | merge depends on the order of writes | no turn lost, none counted twice |
| GPU agents `gpu/agents.rs` | sessions of coding agents | `apply` a hook, expiry | hooks lost or reordered | a session is not shown working for ever |
| Probe, configuration, Ollama and ComfyUI clients | none of their own | read NVML, HTTP | failures read as "nothing there" | — |
| Python client `clients/python/gpu_lease.py` | lease id, cancelled, offline | start, stop, heartbeat thread, yield_point | two threads and a broker that restarts | never works unleased while a broker is up; no lease left behind |
| Process manager `core/manager` | states, exit watchers and logs by service name, each with its lock | start_one / start_all, stop_one / stop_all, exit watcher, refresh | check-then-act across locks; a watcher of an old process | one process per service; a running one is known |
| Runners `core/runner` | none | spawn and kill through the OS | — | — |
| Index jobs and watcher `core/vector_index/indexer/{jobs,watch}.rs` | statuses by project, a slot semaphore, watchers | background index, status, watch, unwatch | two jobs of one project; debounce; an error that ends the watcher, a run that fails with the event used up | status tells of the last run; a saved file is indexed in the end |
| Index store and cache `core/vector_index` | chunks, hashes, embeddings, FTS, a version; vectors in memory | index, search | crash between commit and embedding; version read before rows | a search sees an index no older than the version |
| Board, TODO sync `core/board.rs`, `todosync.rs` | a markdown file and an archive | add, move, edit, link, archive | whole-file rewrite from several programs, of two files one after the other; a markdown form that does not keep everything | no id twice, no task deleted in silence, a sync that can be repeated |
| Global configuration `core/global_config` | one TOML file, a cache | load, save, project operations | lost updates, stale cache | what was saved is read |
| Daemon, briefing scheduler `daemon/main.rs`, `lifecycle.rs`, `core/briefing.rs` | a pid file; the day of the last run | start, stop, status; run once a day | check-then-act | one daemon; one briefing a day |
| Front ends (CLI, MCP, TUI, desktop) | — | one core call per handler | — | — |
| Analyzer, audit, diagrams, Docker, detectors, ranking, structural graph, log filter | — | text and trees in, reports out | none that a state machine shows | — |

Clients talk to the broker over loopback HTTP; La Oficina (the desktop) does so
too and watches by WebSocket; the sampler is a task of the same process; Ollama
and ComfyUI are reached over HTTP. The process manager is called by the daemon,
the MCP server, the TUI and the desktop, concurrently. The index is written by
the CLI, the MCP server, the git hook and the watcher.

## Modules

| Module | What it is |
|---|---|
| `VramAllocator` | what the broker promises its clients, abstractly |
| `GpuBroker` | the broker core and the handlers of the service, its properties and its mutants; it implements `VramAllocator` |
| `GpuBrokerProofs` | the broker's inductive invariant, the theorems about states, and those about steps: the refinement and four action properties |
| `GpuSchedulerProofs` | what a pass of the scheduler, and a turn of the sampler with its passes, leave behind: four theorems |
| `GpuHistory` | the rows of the history: bursts of turns, written in any order |
| `GpuAgents` | a coding agent's session as its hooks tell it |
| `GpuLeaseClient` | the Python client's two threads, with a broker of one place that goes down and forgets; it implements `VramAllocator` too |
| `GpuLeaseClientProofs` | its inductive invariant and its theorems, the refinement included |
| `ProcessLedger` | what the records of the process manager promise of processes, abstractly |
| `ProcessManager` | start, stop, exit watchers and refresh, lock by lock; it implements `ProcessLedger` |
| `ProcessManagerProofs` | its inductive invariants and its theorems, the refinement included |
| `IndexStore` | runs of the indexer, jobs, the watcher, searches with their cache, in several programs |
| `IndexStoreProofs` | its inductive invariant and its theorems |
| `Lists` | what is left of a list when some of it goes, without recursion |
| `Chunker` | how a file is cut into chunks (a pure algorithm) |
| `Board` | the board file, its archive and the sync with TODO comments, between programs |
| `GlobalConfig` | the cached configuration file |
| `GlobalConfigProofs` | its inductive invariant and its theorems |
| `ProjectUpdate` | renaming and moving a project with everything derived from it |
| `Daemon` | pid file, commands and the briefing of the day |
| `Workbench` | the broker and the smaller components, side by side; it takes their modules by `INSTANCE` |
| `WorkbenchProofs` | the theorems about the renaming, the daemon, the agent sessions, the board and the configuration |
| `WorkbenchListProofs` | the theorems about the history and the chunks |
| `MCGpuBroker`, `MCGpuLeaseClient`, `MCProcessManager`, `MCIndexStore`, `MCWorkbench` | instances for TLC; one `.cfg` per run |

`Workbench` has a variable `part`, chosen at the start, that says which of eight parts
moves; the others rest in one of their initial states. None
of them reads what another keeps, so an invariant or an action property of one part
is not affected by the steps of another, and the reachable states are the sum of
those of the parts, not their product. What one part computes for the other in the
real system is an input that is enumerated anyway (the turns a broker ends are all
the possible turns of `GpuHistory`). Its run, `memory`, uses the broker's memory instance.

### How GpuBroker corresponds to the code

The Rust core is deliberately pure (header of `broker.rs`): a struct and methods.
The module follows it. The one variable, `broker`, is a record with the fields of
the struct; each method is an operator from record to record with its name
(`schedule` is `Schedule`, `make_room` is `MakeRoom`, ...); each HTTP handler is
an action, because `mutate` holds the mutex from the first to the last call, and
always with the scheduler pass that ends it. One turn of the sampler is one
action, `Sample`: `set_ollama`, `set_residents`, `set_measured`,
`set_interactive` and `tick` are called under one lock, each with its own pass of
the scheduler. `set_measured` and `set_interactive` are skipped when NVML gave
nothing, as in the code. `Settle` takes the effects out of the broker.

What a pass does is spelled out as in the code: the queue is sorted once, each
lease is visited once, and a visit sees what the visits before it granted or
reserved. `Turn` is one iteration; `Schedule` iterates it with a recursive
function, since TLAPS cannot use recursive operators.

What is abstracted:

- **Time.** `last_seen_ms` and `freeing_at` are compared with a limit and used for
  nothing else. Each is a flag (`overdue`, `late`) that an action raises at any
  moment (`GoQuiet`, `FreeingGoesLate`) and that the assignments of the timestamp
  lower. This allows every timing.
- **Arrival and grant times** are ranks. Requests may fall in one millisecond
  (`RequestGaps` holds 0) or not (1); two passes that grant fall in different ones. The
  passes of one turn of the sampler share one `now` in the code (`server.rs:202`); here
  each has its own rank, which only matters to the order of victims granted in one turn.
- **Ids** are `<boot>-<n>` compared as strings by the sort of the queue. `IdRank`
  is that order for n below 100; `Served` leases before the behaviour let ids go
  from one digit to two inside a small instance.
- **Ended leases** leave the vector in the code; here they stay with what their
  row in the history tells (the outcome), so that an id is never reused.
- **Owner and task** are one value, `who`: the code uses them as one key.
- **The priority** of a job is the one `acquire` settled on after `gpu.toml`.
- **The reading** `None` of a broker that has never measured is 0: both mean that
  nothing is unexplained.
- **Effects** are a set: `Changed` is left out, and the same request twice before
  it is drained is one.
- **Residents** are known from the start, absent until the first turn of the
  sampler; their names are taken to be distinct.
- Reasons, messages, progress, pids and the position in the queue are left out:
  nothing else depends on them. Sums are of natural numbers, not of `u32`.

### VramAllocator and the refinement

The protocol in the header of `broker.rs`, seen from outside: leases are numbered as
they are asked for, never go back (`queued`, `granted`, `ended`), keep their size, are
told to stop only while they work and are never told to go on after, to yield only
if they said they can, and what the holders asked for together fits. `GpuBroker`
implements it (`KeepsItsPromise` in run `queue`). The mapping, `SeenByClient`, keeps the
megabytes, the willingness to yield, the state and the directive of a lease and drops
what the broker keeps for itself (whether it is held, the ranks, the outcome); a lease
that is queued or has ended carries `continue`. `GpuLeaseClient` has a
broker of its own, cut down to one place; that it makes the same promise
(`BrokerKeepsItsPromise`) ties the two models together: the client was checked against
nothing that the real broker does not promise.

### How GpuHistory and GpuAgents correspond

`Record` is `History::record`: the newest row of the owner and task
(`ORDER BY ended_at_ms DESC LIMIT 1`; which one, when two ended together, SQLite does
not say, and the model takes any), and either a longer burst or a new row. Turns come
in any order, because `settle` drains them under the lock and writes them outside it.
`BurstsAreRows` holds for turns that are written as they end: one that is written late
may move the end of its row back, and may be merged into a row that the turn between
them should have closed. A lease that is released while queued is a row of its own that
later turns of the same work are added to (its `granted_at` is not looked at). The
megabytes of a row are left out.

`GpuAgents.Apply` is `Agents::apply` for one session: which hooks change the list of
tasks, and what they do to the progress, the finished tasks and the status. Hooks are
HTTP calls of processes of their own, so `Next` allows any of them at any time: one
that is late after `Stop` shows the session as working until the next one or its
expiry. A completed task that is renamed is finished twice. `FinishedIsKept` says nothing
of a list that is full: not that the newest are those it keeps. Expiry, goal, project and
texts are left out.

### How GpuLeaseClient corresponds

`client[c].main` and `.beat` are the program counters of `start` / `yield_point` /
`stop` and of `_heartbeat_loop`; an HTTP call and the use of its answer are two steps,
as neither thread holds a lock between them. `lease_id` is shared, as in the code. A
call can fail, be answered too late (the broker did what it was asked, the client does
not know), or raise. The broker may go down (`GoDown`, forgetting everything, since it
persists no lease) and come up; the program may be killed. `max_wait_s`, the work
without a broker under `_local_lock`, and the second sign-up after a 404 are there;
what `heartbeat()` reports to its caller is left out.

Seen while modelling, and in the model: a lease cancelled while queued is asked for
again by the 404 of its next poll; a client that found the broker gone after a yield
goes on without the local lock; one whose `max_wait_s` passed after a yield goes on
without a lease (`gave_up`); when `start` raises, the queued lease is left to expire.

### How ProcessManager corresponds

The manager keeps two maps by service name, each behind its own lock. A step is one
lock held, or one effect on a process: `CheckRunning`, `Spawn`, `StoreWatcher` and
`RecordRunning` are `start_one`; `TakeReceivers`, `Signal`, `WaitEnds`, `GraceExpires`,
`MarkStopped` and `ForgetWatchers` are `stop_one` and `stop_all` with
`stop_service_process`; `NoticeExit`, `ReadStatus` and `MarkExit` are the task of
`logs.rs` that waits for the exit. Processes die when they like and may ignore signals.

In the model as in the code: a service stopped on purpose may end recorded `Failed`
(the watcher read the status before); one that dies before it is recorded stays
`Running` until `refresh_status`; `stop_all` marks `Stopped` even if the signal failed.
Left out: pids that are used again, errors of `child.wait`, logs and hooks; a zombie
counts as alive until it is waited for. The instance of `manager` has one caller: the race
of two concurrent starts of one service (`process.rs:221`, check under one lock and record
under the next) is plain in the code and would only hide everything else.

With two callers, a process may be forgotten while it runs. What holds all the same, however
many callers there are, is `ProcessLedger`: a process belongs to one service for ever, is
recorded once, as the one its service runs, and then forgotten for good; a service has one
recorded process; what has died stays dead; and nobody is told to stop before it was
recorded, so no call stops a process that another is about to record. `SeenInStates` maps
the manager to it (`KeepsItsLedger`, run `manager`; for any number of callers, theorem
`KeepsLedger`): a process is `new` while the start that spawned it has it in hand, `recorded`
while the state of its service has its pid, else `forgotten`.

### How IndexStore and Chunker correspond

`index_project` is `TakeSlot`, `Collect`, `Remove`, `Load`, `Hash`, `Prepare`, `Persist`,
`Embed`, `Finish`, `Invalidate`: each a transaction, a look at the files, or a lock.
Files are saved between any two of them. `with_index` is `LookAtVersion`,
`LookAtCache`, `LoadVersion`, `LoadRows`, the last three under the cache lock of the
program. The watcher keeps a pending flag that the quiet window ends (`WatcherFires`); an
error that notify tells of ends its loop while the project stays in the registry
(`NotifyError`: `watching` goes on, `listening` does not, and `is_watching` still says yes).
Programs share files, rows and stamp, and have their own slot, jobs and cache; each
may be killed between any two steps.

Each step that the code leaves with `?` may fail: `Fails` (`open_meta_db`, what the rows say,
`cleanup_stale_chunks`, `persist_chunks`, `save_file_contexts`, the stamp), with nothing
written; `RemoveFails` (`delete_index`, or `meta.db` not opened anew), with the rows and the
stamp there or gone, each for itself; `EmbedFails`; and the statistics, the last step of a
run (`Invalidate`). `load_stats` may fail too, and then a run with nothing to do goes on
(`Prepare`); that needs no count, as nothing is lost by it. The loop of the watcher clears
its flag before the run, whose failure nobody answers with another: history `missed` is
set when the run that fails is the last there is for the event, and `SavedIsIndexed`
excepts it, as it excepts an event that came when nobody listened. Leaving any one of
these updates of `missed` out, TLC finds `SavedIsIndexed` violated: the exceptions are
what the code needs.

In the model as in the code, and exceptions of the properties: a run killed or failing
between `Persist` and `Embed` leaves rows that no incremental run gives an embedding
(`scarred`); an emptied file keeps its old rows; with no file left a run fails and keeps
everything; watching again within the quiet window loses the pending event until the
next save. The documentation of the watcher speaks of about 500 ms (`watch.rs:30`), the
constant is 5 s; the length does not matter to the model. Left out: files of several
chunks, files that cannot be read, the lexical index, import headers other than that they
make a file stale, the mtime shortcut when hashes are missing, `Transient` searches,
communities, the parts of a database that a removal stopped midway may leave. The slot is
per process, so that two programs may index one database at once; the instance has one
program that indexes and another that searches, and `SavedIsIndexed` is checked for that
one only.

The stamp is a number that grows with every write. In the code it is the time of
`index.version` (`stats.rs:67`), compared with `>=` (`cache.rs:191`): two runs within one
tick of a coarse clock, or a clock that is set back, give a later stamp that is not
greater, and `CacheIsCurrent` does not cover them.

`Chunker` has no state that changes: an initial state is a file (its lines are blank,
code, or the start of a function) and the invariant `ChunksTile` is about
`ChunkFile`, the whole of `chunk_file`, with `chunk_by_functions`, `push_segment` and
`chunk_by_lines` as they are. The sizes (40, 5, 150, 80, window 10) are cut to 3, 2, 5, 3
and 1, in the order that matters (listed in the module), files to 8 lines: every
comparison is met on both sides.

### How Board corresponds

Every call is load, change in memory, save; nothing locks the file. `Load`, the change
(`Add`, `Move`, `Edit`, `ArchiveDone`, `Sync`) and `Save` are steps, and a program may be
killed between them. The archive is a second file that `archive_done` reads and writes
whole before the board is saved: `ArchiveDone` reads it, `WriteArchive` writes what it
read and what it takes from the board, so that of two programs that archive at once the
later write drops what the earlier one added. A write may stop in the middle: `TornArchive`
leaves what there was, or a beginning of it, and `TornSave` the board up to some row, whose
token may be gone with what comes after, or an empty board of the default columns when no
heading was left. A task is its number, the hash of its marker and its column.

The markdown does not give back all it is given, and `Written` is what it gives. Titles are
sanitized and tags are not (`board.rs:191`), and the name in `TODO(name)` becomes a tag
(`todosync.rs:386`): an odd number of backticks in it pairs with those of the following
tokens, and the row comes back without its hash, the token a part of its title. Such
markers are `Spoilt`; such a task, and one whose title somebody typed with `sync:` and
eight hexadecimal digits, has the hash `Remnant`, which `--clean` deletes (`corrupted`,
`todosync.rs:297`). `edit_task` can bring the same about, or take it away (`Edited`). The
headings of the file are anything (`Headings`): without a Backlog a new task goes to the
first column, without a Done the orphans stay where they are, as `move_task` fails and
the sync goes on (`todosync.rs:424`).

So the claim at the top of `todosync.rs`, "re-runs never duplicate", is not so of a marker
with a spoilt row: every sync adds another task for it; and "Markers that disappear from
the code mark their task resolved" is not so of a board without a Done column.
`SyncSettles` excepts just these, and says the rest for any board a sync may find. Two
programs that overlap lose what the first wrote: that is how whole-file writing works here,
and the properties say what holds in spite of it (`IdsAreUnique`) and what holds of a call
nobody came between (`SyncSettles`, `NoSilentDelete`): no write of the board or of the
archive since it loaded the board, its own writes not cut short. What a call archived can
still be lost afterwards, by another that had read the archive before: "Never a silent
delete" is kept by each call as long as it runs alone, and not for ever.

`NoSilentDelete` asks that a task of the same number AND the same hash be on the board
after, but for a call of `edit_task`: with the number alone, a deleted task would be
excused by a new one that got its number. Seen while modelling: "archive ids never clash"
(`board.rs:232`) is not so, as `next_id` looks at the board only and gives the highest
number again after it was archived. A marker that comes back after its task was resolved
stays Done; one whose task is in the archive gets a new task.

Abstracted: any Done task may be old enough for the archive, undated ones too (the code
keeps those); Doing stands for every heading that is neither Backlog nor Done; a board cut
short keeps its rows in the order they were made, and no heading is cut in two. Left out:
the texts of titles, tags and links, so that a tag typed with a whole token or a line break
of its own is not there; the order in a column; edits of the file by hand and merges of it
by git; a program that reads while another is in the middle of a write (its call is one
that somebody came between, as that write ends after the read).

### How GlobalConfig and ProjectUpdate correspond

`load_global_config` is `Stat`, `Get`, `Read`, `Put`; `save_global_config` is `Save` and
`Clear`; editors and other programs write too. Time counts in ticks of mtime, so that
two writes may fall in one. `HitIsCurrent` has an exception that the code makes: `get`
refuses the cache while the file is fresh, but `put` stores a copy that was read while
fresh; when a second write in the same tick leaves the same size, that copy is served
once the file has settled (the comment at `mod.rs:76` says it is not). Two programs that
load, change and save lose the first change; a crash in `fs::write` may leave half a
file. Neither is modelled.

`ProjectUpdate` is `update_project`: the derived folders of each kind (`Move`), the hook
(`RewriteHook`), the trust store (`RekeyTrusted`), the registry (`SaveRegistry`), with a
failure or a kill between any two and a retry; meanwhile the project is indexed,
approved and moved. `WorkFollows` has the exceptions that the code makes, each named in
the property. One of them contradicts "so a failed step can simply be retried": the
hook is rewritten by `str::replace`, so a retry after it rewrites it again, and from
`app` to `app2` it then calls `app22`. Case-only renames and WSL paths are left out.

### How Daemon corresponds

A process that is given `start` is the daemon itself: check the pid file, remove a stale
one, load and ask, write the file, bind, serve; Ctrl+C stops it. `stop` and `status` are
processes too. `briefing_scheduler` runs in the daemon from before the port is bound
until the process is gone. Both properties except commands that overlap: check and
write are two steps, so two starts may both pass the check, and a daemon that drains
still ticks its scheduler beside a new one. They also except daemons that were asked to
shut down by RPC: the handler (`server.rs:177`) stops the services and answers, and the
process goes on serving without a pid file, although `cmd_stop` prints "Daemon stopped"
and `docs/architecture.md:131` promises a graceful termination. Seen while modelling,
too: the RPC may reach another daemon on the same port; a failed bind leaves the pid
file of a dead process; "never delays the tick loop's due-check" (`main.rs:153`) is not
so, the loop awaits the briefing, without harm. A death after the day was marked loses
that day's briefing, and a minute may pass unseen: exactly-once is not claimed. Pids are
not used again; services are `ProcessManager`'s.

### Properties

Each is at the end of its module, with the code it is about and the exceptions the code
forces. Three of `GpuBroker`'s need a word.

When a lease that works on Ollama is granted, or memory that nobody explained becomes
explained by a grant, memory comes free in the middle of a pass and those visited before
wait for the next pass: `NoIdleMemory` and `NoQueueJump` say nothing while Ollama is
leased or more than the desktop is measured.

`NoQueueJump` speaks of steps, and one turn of the sampler is a step of up to five passes.
The instance it was first written for has a quiet sampler; the attempt to prove it showed
that with readings it was false, and TLC found the instances. An early pass may turn an earlier lease
away, a later one have the news that lets a later lease in (a reading, the end of a game),
and the reservation may be made in one pass and used in the next. So the steps that bring
such news are excepted. For the others, the theorem has to show that all passes
before the last let nobody in.

`NotAskedAgain` excepts a resident that has answered: `Answered` says this of the reading
that is taken in the step (the cache is at half of what it was when asked, as `Confirm`
compares). It used to be said of what the broker remembers of earlier readings, which
excepts nearly every step; the proof showed it.

Every property of a passing run has a mutant in `PROJECT.json`: an operator placed before
the definition it replaces, with a plausible bug (a dropped guard, a forgotten pass, the
wrong order). With it TLC finds the property violated.

## Runs

| Run | Instance | Shows |
|---|---|---|
| `queue` | 3 leases of a critical trader (3), a renderer that can yield (3), a Blender that cannot (2); card of 6, desktop of 1; same millisecond, ids 9, 10, 11; priority, cancel and pause-queue buttons | `NoOvercommit`, `OnlyPreemptibleYield`, `RoomStaysReserved`, `NoQueueJump`, `CancelStands`, and the refinement `KeepsItsPromise` |
| `modes` | a critical job that can yield, the renderer, Blender; hold, resume, training; readings with and without a game | `NoIdleMemory`, `CriticalNotInterrupted`, `NothingPastTheUser` |
| `progress` | 4 leases of trader and renderer, cancel and unload buttons, fairness | `CriticalGetsIn` |
| `memory` (`MCWorkbench`) | 2 leases of a critical chat on Ollama (3) and a renderer on ComfyUI (2), readings with Ollama loaded, ComfyUI absent, idle, busy, its cache full or half; and the seven smaller parts | `TypeOK`, `LeasedEngineNotAsked`, `NotAskedAgain` of the broker; `FailuresStandOut`, `BurstsAreRows`; `ProgressTellsTheList`, `FinishedIsKept`; `IdsAreUnique`, `SyncSettles`, `NoSilentDelete`; `HitIsCurrent`; `WorkFollows`; `ChunksTile`; `FoundByItsFile`, `OneBriefingADay` |
| `client` | two clients, one of higher priority, one that can yield, is impatient and may be cancelled; one outage of the broker; crashes; fairness | `WorkIsLeased`, the refinement `BrokerKeepsItsPromise`, `WaitEnds`, `LeaseDiesWithClient`, `CancelHeard` |
| `manager` | two services, one caller, two processes; fairness | `AliveIsKnown`, `ExitedIsGone`, the refinement `KeepsItsLedger`, `CallsReturn`, `DeadIsNoticed` |
| `index` | a file that imports another, a program that indexes and watches, one that searches; one request, one save, one fault (a kill or an error); fairness | `CacheIsCurrent`, `IncrementalIsFull`, `RunEnds`, `JobEnds`, `SavedIsIndexed` |
| `intruder`, `inversion`, `pause`, `forgotten`, `restart` | a few leases, clients or processes | what the documentation says and the code does not do (below) |

Bounds. In `GpuBroker`, `MaxLeases` (leases in a behaviour), `Served`, `RequestGaps`, the
sizes, `Sampled`, `UserOps` (which buttons the instance has) and `NewPriorities`. Three
leases are the least that show a holder, one that waits with a reservation and one
that passes by; four let the progress run have a chain of them. Sizes are chosen so
that the pairs trader+renderer do not fit, renderer+Blender fit exactly, and
trader+Blender fit exactly: every comparison is met at its boundary. In the other
modules every bound is a constant marked `bound:` at its declaration. Three leases and
one restart let a client be forgotten, sign up from both threads and be told to yield;
two processes let one be started while the watcher of the other is late; one save and
one request, watcher included, make two runs that follow each other with a save
between any two of their steps; three turns are the least that make a burst and
something that interrupts it; three calls and one change of the code let a marker come
or go between two syncs with another program's write in the middle, and a task be added,
done and archived; of the two markers one is spoilt, and the headings are a board without
Doing and one of Done alone (after a torn write also the default ones); the programs are
interchangeable (symmetry); two writes and two
ticks are a rewrite within the tick and one after.

Larger instances, explored once: `Daemon` with 2 commands, 2 days and 2 ports (3.25 million states) holds
everything; `ProcessManager` with one service, two callers and two processes (1,083,390
states) keeps its ledger; a larger instance of `IndexStore` showed nothing in ten million states, and
was not finished.

`RoomStaysReserved` excepts the steps that bring news of the memory (a reading, the end
of the lease that explained what Ollama has loaded): one turn of the sampler can bring a
higher reading and grant what fitted before it. In `queue` the sampler is quiet; that the
property and `NoQueueJump` hold with readings of every kind is what their theorems show.

The runs stop when leases, calls or writes have been used up, so they do not check for
deadlock; the real programs would go on with new ones. That nobody waits for ever is
what the liveness properties say.

### Fairness

`GpuBroker.FairSpec` adds two assumptions, written on states rather than as `WF` and `SF`
because TLC would evaluate `ENABLED` of a whole sampler turn at every state:

- no lease stays overdue: the sampler loop of `run` never ends and each turn runs
  `tick`, which is weak fairness of `Sample`;
- a lease that is again and again heard from, and is told to yield or cancel, or
  cannot be interrupted, releases: clients stop at their next safe point (the
  protocol of `gpu_lease.py`), and work that nobody interrupts ends. It is strong
  fairness of `Release`, which a lease takes once, hence "eventually always not".

Nothing is assumed of leases that can yield and are not told to: `CriticalGetsIn`
has to follow from the broker's telling them. Nor is anything assumed of the user.
Arrivals do end in this run, because `MaxLeases` bounds the identifiers: the run
shows that room is asked for, that the one told stops, that its going is noticed and
that no stale reservation stays in the way. It does not show that an endless stream
of other critical requests cannot keep one waiting; nothing in the broker's code
excludes that.

`GpuLeaseClient.FairSpec`: the threads of a client run (every HTTP call has a time
limit, the heartbeat loop wakes by itself) and the work reaches a safe point again and
again; the broker grants, tells to yield and expires. Nothing says that work ends, that
the broker comes back or stays up.

`ProcessManager.FairSpec`: a call goes on to its end (each wait has a grace period), the
exit watchers are tasks of the runtime, the screens poll `refresh_status` for ever.
Nothing is assumed of callers or processes: one may ignore every signal.

`IndexStore.FairSpec`: runs, a search under way and the watcher's loop go on. Strong
fairness of `Collect \/ Invalidate` is that a run gets the cache lock though searches
take it again and again: a mutex of the standard library does not promise it, a
scheduler does give it in practice. Nobody is assumed to save, to ask or to search,
nor anybody to watch again after an error.

### Findings

Five statements of the documentation do not hold of the code:

- **`intruder`**: memory nobody explains "is not free" (header of `broker.rs`), but a
  grant explains it: the next grant of the pass takes memory that is in use, until
  a new reading. `NoOvercommit` holds all the same: it is about what is leased.
- **`inversion`**: the reservation, introduced against priority inversion, also keeps
  out a critical lease that fits, while room is being made for a lower one.
- **`pause`**: "to pause is to hold that work, not an id" (field `held`), but only the
  lease that was clicked is marked: another one in the queue of the same owner and
  task gets in.
- **`forgotten`**: a 404 is taken for a restart of the broker (`_send_heartbeat`). It also
  comes between the `DELETE` of a yield and the clearing of `lease_id`: the heartbeat
  thread signs the client up a second time, its answer overwrites the lease that is
  granted next, nobody keeps that one alive, and it expires under the work.
- **`restart`**: a running service is not started again (`start_one`), but the exit watcher
  of a dead process writes by the service's NAME, whatever runs by then: it overwrites
  the record of a restarted service, and the next start spawns a second process.

What else the comments say and the code does not (in the sections above) is an exception
of a property, and not a run.

## Proofs

`GpuBrokerProofs` proves, for every value of the constants allowed by
`GpuBrokerAssumption` (any jobs, card, residents, readings, number of leases):

- `TypeCorrect == Spec => []TypeOK`
- `NeverOvercommitted == Spec => []NoOvercommit`
- `YieldIsVoluntary == Spec => []OnlyPreemptibleYield`

They follow from one inductive invariant, `Sound(broker)` (theorem `SoundAlways`):
the record is well-typed, `total_mb` is one of the two totals there are, the granted
leases fit the card, and only preemptible leases are told to yield. The bound on
`total_mb` is what makes it inductive: a reading may change the total, and
`NoOvercommit` is about the larger one.

The argument follows the structure of the code. `Megabytes` is a cardinality, so
sums are handled with the library's facts on finite sets (`MegabytesOfASet`,
`MegabytesOfOneMore`, `MegabytesOfFewer`). `GrantingNothing`: what grants nothing and
tells to yield only the willing keeps a broker sound; it covers every method but
`grant`. `GrantSound` is the one place where the comparison of `Fits` is used. From
them, a visit, a turn and a whole pass are sound (`VisitSound`, `TurnSound`,
`ScheduleSound`), then every handler, then `Next`. The pass is a recursive function;
that it is defined (`PassIsDefined`) and that each of its turns is sound are shown by
a least counterexample (`NatMin`), as the library's induction theorems take an operator
as a parameter and cannot be instantiated here.

It also proves, under the same assumptions, what steps of the broker do:

- `Implements == Spec => KeepsItsPromise`, the refinement of `VramAllocator`
- `CancelsStand == Spec => CancelStands`
- `CriticalWorksOn == Spec => CriticalNotInterrupted`
- `UserKeepsOut == Spec => NothingPastTheUser`
- `LeasedEnginesSpared == Spec => LeasedEngineNotAsked`

A handler runs several methods and a pass of many visits, so the properties of a step
have to compose. The relation that does is `Kept(b, c)`: `c` is sound, what it made of
each lease is `Gentle` (no way back, what was told stands, nobody critical is told to
yield, nobody paused is let in), and no engine was asked that a lease works on. It is
transitive (`KeptTrans`) on sound brokers whose queue is told nothing (`Calm`, the
invariant), every method and the whole pass satisfy it (`ScheduleKept`, again by a least
counterexample), and every handler is something the user or a client does to one lease,
a request or a mode (`Opens`), and then only what is kept (`StepGoes`). From this the
five theorems follow lease by lease; the refinement adds that the sum of what clients
see as granted is `Megabytes`, bounded by `Sound`.

`GpuSchedulerProofs` proves, under the same assumptions, what the scheduler leaves behind:

- `NothingLiesIdle == Spec => []NoIdleMemory`
- `RoomIsReserved == Spec => RoomStaysReserved`
- `AskedOnce == Spec => NotAskedAgain`
- `TheQueueIsKept == Spec => NoQueueJump`

None of them is visible in one visit of a pass: a visit sees what those before it granted,
and spoils or frees memory for those after it. `Running(b, n, p)` says of a pass that began
at `b`, after `n` turns: it is `Steady` (only what waits is granted; nothing the queue is
sorted by, and nothing that keeps a lease out, has changed), who was visited and still
waits was `TurnedAway`, the reservation is for one that waits and passed from none to the
first that could have it (`Reserving`, `FirstIsServed`), what was granted leaves
room for it (`RoomLeft`) and nobody earlier behind who would have fitted (`InOrder`), and
engines were asked only if they hold something and were not asked yet (`Asks`). `TurnRuns` shows that a turn keeps it,
`ScheduleRuns` by a least counterexample that a pass ends with it (`Scheduled`). The
arithmetic is in a few lemmas: what is free is what is not taken (`FreeIsTheRest`), a grant takes
just its own megabytes when the reading and Ollama explain nothing (`GrantTakes`), and
what nobody has for an earlier lease nobody has for a later one (`LaterAsksNoMore`).

The invariant is `IdleInv`: the broker is `Calm`, no memory lies idle, and, while
the queue moves, the reservation is for somebody who waits. Neither of the last two
can be left out: a step that is not a pass (a client is heard from, effects are drained)
changes nothing that a pass looks at (`Rests`), so the invariant is carried over; and a
turn of the sampler begins from it. What such a turn does is followed reading by reading
(`SampleReads` and a lemma `...Reads` for each method): each changes its field, tells
engines and leases, and runs a pass (`Readies`). For a turn without news of the memory,
the account is the same from the first pass to the last (`CardIsKnown`), room was left for
the reservation throughout (`SampleKeepsRoom`), and all passes before the last find
everybody stuck as `IdleInv` says and let nobody in (`SampleStuck`).

`GpuLeaseClientProofs` proves, for any clients, priorities and bounds allowed by
`GpuLeaseClientAssumption`:

- `TypeCorrect == Spec => []TypeOK`
- `WorkersAreLeased == Spec => []WorkIsLeased`
- `Implements == Spec => BrokerKeepsItsPromise`

`IInv` is `BrokerInv` (types, what is granted fits, only the preemptible are told to yield)
with `Clients`, which says of each client what its two threads know together: which values
of `lease_id`, the last answer and the flags occur at which line (`Consistent`), that the
lease ids a thread holds are of leases of its own (`OwnsWhatItKnows`), and that the lease a
client relies on is still granted while the broker has not been down
(`HasWhatItReliesOn`). `WorkIsLeased` alone is not inductive: a worker gets its lease from
an answer that was on its way, and can lose it to a call of the other thread.
`LeasesGo` sums up what any step may do to the leases; what a client relies on stands
against it, unless the lease expires, and that the steps of the broker do only to
clients that are dead or silent.

`ProcessManagerProofs` proves, for any services and processes:

- `TypeCorrect == Spec => []TypeOK`, for any number of concurrent callers
- `LiveIsRecorded`: with one caller, `Spec => []AliveIsKnown`
- `WaitedForItsOwn`: with one caller, `Spec => ExitedIsGone`
- `KeepsLedger == Spec => KeepsItsLedger`, the refinement of `ProcessLedger`, for any number
  of concurrent callers

`Shape` is inductive by itself: what a call carries belongs to the service it is taken
for, a service is only said to have a process of its own, and a process is waited for
until it is gone. `AliveIsKnown` speaks of what rests; that it holds there depends on
what the call under way has in hand, so `Known` says that for each stage: a start past
its check has nothing else of its service alive (`CallKnows`), a stop has taken the
process that lives or has signalled it, and what a service is recorded with is the
process that lives, with the stop flag of that process or with none (`ServiceKnown`).
Processes whose record another one's watcher overwrote (`lost`, finding `restart`) are
excepted, as in the property. `OneCaller` is a hypothesis of these two theorems and not
of the module, since the code does have several (see the race above).

The refinement needs no such hypothesis. Its invariant, `LedgerInv`, is `Shape` with
`HandsApart`: what a start has spawned and not recorded is in the hands of that start alone,
no state names it, no stop aims at it and nobody has told it anything. With it, every step is
one of three: a process is spawned (`SpawnKeeps`), one is recorded (`RecordKeepsLedger`), or
the step is `Quiet` (no pid comes into `states`, nobody gets another process in hand, a
target is one that a stop had or that `states` has): then what is recorded can only be
forgotten (`QuietStep`).

`GlobalConfigProofs` proves `TypeCorrect` and `HitsAreCurrent`, `Spec => HitIsCurrent`,
for any threads and sizes and any settling time but zero (`Bounds`, a hypothesis, as the
run takes the module by `INSTANCE`). The property looks at the copy in memory, the file
and a load that began earlier; the invariant ties them together: whoever read a text
under a stamp that had settled sees every later text under a later mtime (`LaterShows`,
used for loads, for the copy, and between loads). A write at `now` keeps it because a
settled stamp lies at least a tick back.

`IndexStoreProofs` proves, for any files, texts, imports, programs and bounds:

- `TypeCorrect == Spec => []TypeOK`
- `CacheStaysCurrent == Spec => []CacheIsCurrent`
- `IncrementalDoesAll == Spec => []IncrementalIsFull`

For the cache: no stamp that is known anywhere is later than the last one written
(`StampsGrow`), so a stamp that is written is new to every cache and every load under way;
rows are whole unless a run is writing or left them otherwise (`RowsAreWhole`). For the
incremental run, `RunSound` says at each line of a run that nobody came between what it has
found out: its list is the files there are, the hashes it loaded are those of the rows, what
it decided to skip says what its row says, and a file that imports something changed is not
skipped. Nothing is said of a run in whose course a file was saved or another run finished:
the property excepts them. A step that fails closes its run without a word about the rows; a
removal that fails counts as a write without a stamp, like one that is under way.

`WorkbenchProofs` proves, for `WorkbenchSpec` and the constants that `WorkbenchAssumption`
allows:

- `WorkAlwaysFollows == WorkbenchSpec => []WorkFollows`
- `ListenerIsFound == WorkbenchSpec => []FoundByItsFile`
- `BriefedOnce == WorkbenchSpec => []OneBriefingADay`
- `ProgressAlwaysTells == WorkbenchSpec => []ProgressTellsTheList`
- `FinishedAlwaysKept == WorkbenchSpec => []FinishedIsKept`
- `NumbersStayUnique == WorkbenchSpec => []IdsAreUnique`
- `SyncAlwaysSettles == WorkbenchSpec => SyncSettles`
- `NothingIsSilentlyDeleted == WorkbenchSpec => NoSilentDelete`
- `HitsStayCurrent == WorkbenchSpec => HitIsCurrent`

and `WorkbenchListProofs`, which extends it:

- `FailuresAlwaysStandOut == WorkbenchSpec => []FailuresStandOut`
- `BurstsAlwaysRows == WorkbenchSpec => []BurstsAreRows`
- `ChunksAlwaysTile == WorkbenchSpec => []ChunksTile`

`RenamingInv`: with no update half done, everything is under the name and path that the
registry has (`Followed`); with one, under those or under what was asked for, and what the
update is through with only under the latter (`HalfFollowed`). The second is what a failure,
a kill and a retry leave, whatever step they come at. `DaemonInv`: while commands do
not overlap, one daemon is alive and the file names it, but for another that is still
looking (`Alone`); a day has its briefing only if it is not later than the marker, and a
briefing that is due is of a later day (`Briefed`). `BriefedOnce` needs `Alone`, as the
marker is read and written in two steps. `HitsStayCurrent` is the theorem of
`GlobalConfigProofs`, instantiated.

The other seven are about lists. `SelectSeq`, which drops elements from a list, is defined by
recursion over the list, and what such a definition gives cannot be proved here for every
list. So the models say it with `Lists.Picked`: the elements at some places, in their order,
by how many of these places come before. That `Picked` keeps elements, order and number is
proved from the cardinality of initial segments (`Nth`), once. Where the code appends one
thing after the other or cuts a file piece by piece, the models have recursive functions on
numbers; that they exist, and what they give, is shown by a least counterexample (`NatMin`),
as for the passes of the scheduler.

- **Board** (`BoardInv`): the board file, and what each program has loaded and made of it,
  are lists without a number or a marker twice, and no row of the file has a hash that the
  markdown would not have given back (`Kept`); while a program is `alone`, the board file is
  what it loaded, and `ProgramRight` says what its call made of that: whatever it took away
  is in the archive, or will be once the archive is written, or was cleaned away
  (`Accounted`), and after a sync every marker has a task and no task is open without
  (`Settled`). A write by another ends `alone`, of the archive as of the board, so nothing
  has to be known of archives that overlap. Saving maps the list to what the file gives
  back, which forgets hashes and so keeps numbers and markers different
  (`ForgettingKeepsOneEach`); a write cut short is the same of some of the rows.
  `EndsRight` says what a call leaves at its end, and the two step theorems follow. A number
  is unique on each board because it is computed from that very board; that two programs
  give the same number at once does no harm, as one of the two boards replaces the other
  whole.
- **History** (`RowsRight`): the rows stand for all turns; those of turns that failed are just these
  turns; and, of turns written as they end, the newest row of a job is the burst that its
  last turn belongs to, and the rows of a job are its bursts. One more turn lengthens the last burst
  or begins another; this is where the maxima in `Bursts` are taken apart.
- **Sessions** (`Keeps`): what is completed in the list is among the finished, and these are no more
  than `FINISHED_KEEP`: a hook changes the list and records what became completed in one
  step.
- **Chunks** (`Tiles`): chunks from line a to line b follow each other without a gap, none is too
  large or tiny. Each of the three loops tiles its stretch, and stretches that tile are put
  together function after function. The proof uses four relations between the sizes
  (a tiny rest is smaller than what is cut, and what is cut together with it stays under the
  largest), which `WorkbenchAssumption` states and the code's constants satisfy.

`WorkbenchAssumption` says what the modules' own bounds say, and what TLC evaluates for
the run: a settling time that is not zero; that no project is called by the value that stands
for none; that the two values for a task without a hash are not markers, that spoilt markers
are markers, and that a board of the beginning has a heading; that bounds and sizes are
numbers and markers finitely many; and those four relations.

Only model-checked: liveness under fairness (`CriticalGetsIn`, `WaitEnds`,
`LeaseDiesWithClient`, `CancelHeard`, `CallsReturn`, `DeadIsNoticed`, `RunEnds`, `JobEnds`,
`SavedIsIndexed`), which the prover does not reach, and the findings, which are
counterexamples.

The proofs trust the prover's encodings of TLA+ and nothing else: no statement is without
a proof, and the only assumptions are those named in the modules, which TLC evaluates for
every instance it checks.

## Plan

Done: `GpuBroker`, `GpuLeaseClient`, `ProcessManager`, `IndexStore` and `GlobalConfig`;
`ProjectUpdate`, `Daemon`, `GpuHistory`, `GpuAgents`, `Board`, `Chunker`; `VramAllocator` and
`ProcessLedger` with the three refinements; theorems for all safety properties.

Left, in order:

1. `GpuService` — the world (what Ollama and ComfyUI really hold), the sampler as read
   and apply, effects in flight: an effect that arrives after a lease was granted, a
   request that fails, a probe that stops answering. The hazards at `server.rs:155`, `207`
   and `broker.rs:704` wait for it; `GpuBroker` allows readings that are late, since a reading is
   any member of `Sampled`, but does not say when it was taken.
2. Two programs that index one project at once.

## Not modelled

- Probe, configuration, Ollama and ComfyUI clients: input and output; what they bring is
  the constant `Sampled`.
- Ranking, clustering, contracts: scores in floating point and text; no protocol.
- Structural graph, log filter, analyzers, audit, diagrams, Docker, detectors: pure
  functions from text and trees to reports, mostly tables of patterns. They are the bulk
  of the repository by lines, and hold no state that steps of two actors could disturb.
- Front ends (CLI, MCP server, TUI, desktop): each handler calls the core once and formats
  its answer; what they may do concurrently is what the callers of the modules do.
