# Workpane in TLA+

Workpane is a desktop workspace: a C++ product draws the interface and owns every service of
the platform, and a Lua half, the SDK in `lua/workpane` and the plugins, owns every feature.
The two halves meet through host functions and events that carry JSON. This directory models
the parts of the product whose correctness rests on an order of steps: several coroutines that
await, several threads around a queue, a file system that may refuse the next call, an answer
that arrives after what it answers has changed.

Paths below are relative to the root of the repository; `persistence/X.cpp` is short for
`src/persistence/X.cpp`, and so on for the other folders of `src`.

1. [The system and its parts](#1-the-system-and-its-parts)
2. [The modules and the code](#2-the-modules-and-the-code)
3. [What is checked](#3-what-is-checked)
4. [Fairness](#4-fairness)
5. [What is proved](#5-what-is-proved)
6. [What the code does that its documents do not say](#6-what-the-code-does-that-its-documents-do-not-say)
7. [Abstractions](#7-abstractions)
8. [What is not modelled, and the plan](#8-what-is-not-modelled-and-the-plan)

Every run is repeated with `tlc -config <cfg> <module>`, every proof with `tlapm <module>.tla`.

## 1. The system and its parts

Three kinds of activity act at once. The **interface thread** runs the frame loop of
`app/Application` and `app/Product`: it draws, hands events to Lua, and drains the main-thread
queue. **Lua** is one state of the external Varn runtime on that thread; its coroutines
interleave only at their awaits. **Other threads** are the one database worker, a pool of
workers for pictures, fonts and files, one serving thread per program a plugin started, one
worker per web server, the audio device. What they finish comes back through the main-thread
queue and, when Lua asked for it, through the reply channel.

| Part | State it keeps | Operations | Meets | What is hard | What makes it correct |
| --- | --- | --- | --- | --- | --- |
| Plugin order (`lua/workpane/plugins.lua`, `ordered`, `blocking`) | marks of a depth-first search | order the readable plugins, name the cyclic ones, say what blocks one | plugin lifecycle | cycles that share plugins, reached from several roots | each plugin once, dependencies first, the cyclic ones exactly |
| Plugin lifecycle (`plugins.lua`, `bootstrap.lua`, `app/Product.cpp`) | an entry per plugin, the list of started plugins, the switch `busy` with its queue, the disabled set | boot, resolve, start with migrations and data recovery, disable, enable, erase, stop all | registry, storage, runtime, the closing of the product | each operation awaits several times; presses, the boot and the closing interleave at the awaits; a start fails at any point; an author rewrites the folder | one change at a time, dependencies outlive their dependents, every change leaves a settled state, the closing ends and gives each plugin its stop |
| Database executor (`persistence/DatabaseExecutor`, `execution/MainThreadQueue`) | the queue of works, the flags of the closing, the queue of answers | submit, run, answer, drain, shut down | everything that stores; the product's closing | the closing races the worker; a statement may run for ever; the interruption has to spare the core | nothing lost, doubled or overtaken; the connection closes last; one core statement cut at most |
| Preference store (`persistence/PreferenceStore`, `scripting/StorageHost`) | an entry per document: current, committed, revision | write, erase, forget, list | database executor, plugin lifecycle, SDK preferences | writes shown before they are stored, completions of older writes arriving after newer ones, erases between writes | readers see the latest write; memory and database agree once all is answered; a success survives a crash |
| Database bootstrap (`persistence/DatabaseBootstrap`, `persistence/InstanceLock`) | the files of the data directory | acquire the lock, apply a staged import, restore, set aside, open | configuration transfer, the product's start | any call may be refused or be the last one before a crash, also while repairing the previous crash | the reader's database survives; notices are true; starts succeed again |
| Works of a session (`scripting/StorageHost`, `persistence/PluginDatabase`, `persistence/ConfigurationTransfer`) | the tables, rows and version of a plugin, an open transaction, a snapshot being made | migrate, write in a transaction, erase, recover, export, import | database executor, plugin lifecycle, the next start | one call of several fails, or the process ends between a copy and an erase; a roll-back that fails; a file that is validated, then opened again | all of a work or nothing of it; a recovery keeps what it erases; answers are true |
| Process host (`scripting/ProcessHost`, `platform/posix/PosixProcess`) | a bounded mailbox shared by all programs, the running programs with their readers | start, read, write, stop, forget, deliver, destroy | runtime, workspaces, terminals, the interface thread | back-pressure over a condition variable, reads that take part of a chunk, stops and withdrawals with output waiting, a destructor that joins threads which may wait | output once and in order, the end last, room accounted, no lost wake-up, stops and closings end |
| Plugin registry (`scripting/PluginRegistry`) | the registered manifests | register, remove, refuse calls | every host | a call of code a withdrawn plugin left behind | checked where it matters: in the lifecycle and the store |
| HTTP host (`scripting/HttpHost`, `http/`, `lua/workpane/http.lua`) | servers by the request that asked for them, the requests they answered, the ones that are being ended | serve, bind on a worker, answer, deliver, stop, withdraw, destroy | runtime, workers, main-thread queue | start, withdrawal and return of a plugin race a bind on a worker; a request arrives before its server is registered; the product closes meanwhile | no server left listening, requests handed over once and in order, each serve answered |
| Scopes of resources (`lua/workpane/resources.lua`, `bridge.lua`, `tasks.lua`) | operations and resources of a scope, requests by owner | admit, open, read, release, close, withdraw | every host that opens something | a scope closed or its plugin withdrawn while it opens; closings that fail; operations that wait on what is being closed | what was opened is closed once, limits and failures are accounted, closing ends |
| SDK preferences (`lua/workpane/preferences.lua`) | a copy of each document with a revision of its own | define, set, hear the answer, forget | preference store, lifecycle | commits and takes back later than the host does | the copy chooses as the host does |
| Trees of nodes (`lua/workpane/ui.lua`, `ui/model/SurfaceStore`, path fields, tabs) | a copy of the tree on each side, commands that wait, selections that wait | mount, set, replace children, command, edit, move a tab, browse, choose | every surface; the frame that draws | two copies computed independently; events in flight while the plugin changes the same node; late answers of selectors | both copies agree, nodes that stay are never rebuilt, each command arrives once, late choices are dropped |
| Main loop (`app/Application`, `app/FrameScheduler`, `app/GeometryRecorder`, `app/Product`) | frames to settle, deadlines, the place of the window, what posts and wakes | turn, sleep, serve, draw, stop | everything | a wake lost between the check and the sleep; minimizing, moving and closing between two reads | nothing waits over a sleep, changes settle, the place is kept, an idle window sleeps |
| SDK events, capabilities | subscribers, providers | emit, provide, call | bridge | a handler that subscribes or withdraws while it is served | deliveries in order, none after a withdrawal |
| Log service (`logging/LogService`) | a bounded queue of entries and one notification | write, take | every thread | one notification for many entries | no entry without a notification to come |
| File staging (`files/`) | a replacement file beside the old one | write, replace, roll back | file host | a crash between moves | old or new, never neither |
| Components, widgets, themes, fonts, Markdown | the interface's own state | draw | surfaces | sequential; nothing to interleave | out of reach of these methods |

`PROJECT.json` lists every part with its status and every hazard with its line and the
properties that would catch it going wrong.

## 2. The modules and the code

```text
 PluginOrder        <--- PluginLifecycle <--- MCPluginLifecycle
          ^------------ PluginGraphs    <--- MCPluginOrder
 PluginLifecycle, PluginGraphs <--- PluginLifecycle_proofs

 DatabaseExecutor <--- PreferenceStore <--- SdkPreferences <--- SdkPreferences_proofs
        ^                                         ^------------ MCPreferenceStore
        |------- MCDatabaseExecutor

 DatabaseBootstrap <--- DatabaseSession (its own instance) <--- DatabaseSession_proofs

 ResourceLedger <=== ResourceScope <--- MCResourceScope, ResourceScope_proofs
 FrameLoop <--- MCFrameLoop, FrameLoop_proofs
 HttpHost  <--- MCHttpHost, HttpHost_proofs

 ProcessHost <--- MCProcessHost, ProcessHost_proofs
 SurfaceTree <--- MCSurfaceTree, SurfaceTree_proofs
```

A single arrow is an `EXTENDS`, the double one an implementation (`INSTANCE ... WITH`). An `MC`
module only gives values to the constants. Operators named after another with a change, each
under a comment that starts with "Mutant of", are plausible mistakes in that definition: they are
used by no specification, and each property is known to fail when one of them takes the place of
the original.

### PluginOrder, PluginGraphs

`ordered()` is a recursive closure over marks. It is written as an explicit machine: a stack of
frames, each a plugin with the dependencies it has still to visit. `SearchStep` is one step of it,
and `Ordered(defs)` folds as many of them as no search of that graph exceeds (`SearchLength`); the
steps that are left over change nothing. It answers the order and the cyclic plugins,
`Blocking(def, running)` answers whether a plugin lacks a dependency (`missing`), waits for one
(`inactive`) or may start. A folder that cannot be read is the definition `Unreadable`. The graph
itself (`Edge`, `Reach`, `InCycle`) is defined without the search.

`PluginGraphs` asks `ordered()` once, of any graph whose lists are taken from `Lists`.

### PluginLifecycle

All of this code runs on one Lua thread, so the unit of interleaving is the stretch between two
awaits. `turn` names the coroutine that is inside such a stretch and is `Nobody` while the loop
waits; `RunsAt(c, where)` continues a stretch, `ResumesAt(c, where)` begins one. Stretches are
split into several steps only where a loop visits plugins; nothing else runs in between.

| Model | Code |
| --- | --- |
| `Enter`, `Leave`, `Wake` | `exclusive()`: the flag `busy`, the queue `waiting`, the released coroutine that looks at `busy` again |
| `Resolve`, `Pass`, `TurnedOff`, `Refuse`, `Wait`, `Start` | the pass of `resolve()` |
| `StartUnreadable`, `StartUnavailable`, `StartRefused`, `StartRegistered`, `Launched`, `LaunchFails`, `LaunchMisfits`, `Recovered`, `RecoveryFails` | `start()` with its migrations, its start function and the reset of data that does not fit |
| `Withdrawn` | `withdraw()` |
| `BeginDisable`, `StopDependent`, `StopItself`, `Halt`, `Disabled` | `plugins.disable` and `stop()` |
| `BeginEnable`, `BeginErase`, `Erased`, `ErasedOnly`, `BeginNothing` | `plugins.enable`, `plugins.erase` |
| `BeginClose` to `Closed` | `plugins.stopAll`, its share of the time for each stop, its log readers kept for last |
| `Press`, `Quit`, `Stopped`, `OutOfTime` | the switches of `application.lua`, `Product::requestQuit`, the answer of `bootstrap.lua`, the deadline of `Product::stop` |
| `Edit` | an author who rewrites the folder of a plugin while the product runs |

### DatabaseExecutor, PreferenceStore

`DatabaseExecutor` has one step per critical section: `Submit` (`enqueue`), `Take`, `Finish`
and `Leave` (`run`), `Drain` and `Deliver` (`MainThreadQueue::drain`, which swaps the vector
first), `BeginShutdown`, `Drained`, `Interrupt` and `Close` (`shutdown`), `LastDrain`
(`Product::stop`). What a work does is its outcome: success, failure or interrupted.

`PreferenceStore` extends it. Every step is a step of the executor to which the store adds its
own effect (`Write` and `Erase` submit, `FinishRequest` changes the rows inside one transaction,
`DeliverRequest` commits in memory or takes back) or a step that leaves the executor alone.
This is what makes the executor's theorems theorems of the composition.

### DatabaseBootstrap

A start is a list of calls to the file system, `todo`, produced from a label of the code, `at`.
`Do` performs the first call, `Fail` and `CrashStarting` end the start before it. The labels are
the places where the code looks at the directory or validates a file and decides what comes next:
`ApplyStagedImport` (interrupted, nothing staged, staged and dropped, staged and placed),
`Validate`, `Opened`, `SetAside`. `InstanceLock` is the variable `mark`. A session then stages
an import, stops cleanly or crashes with commits only in the log.

### DatabaseSession

What the sessions between those starts do on the database thread, where works run one after the other.
`Take` turns a work into a program of calls (`Program`), each a record of what it does, where and for which
version: `Migrations` and `Transaction`
(`PluginDatabase::migrate`, `transaction`), `EraseProgram` (`erase`), `Export` and `Import`
(`ConfigurationTransfer::exportTo`, `stage`), and `Recovery` (`StorageHost::erasePluginData`), which exports
beside the database and then erases. The loop over the migrations is a call of its own, `loop`, which `Rest`
unfolds into the transaction of one version and the loop again until the declared version is reached.
`Statement` performs a call on the connection and `Copy` one on the files
of a snapshot; `Break` is the first call that fails, with the roll-back of `PluginDatabase::rollback`; `Succeed` and
`Answer` end the work. `live` is what the database holds of one plugin (version, tables, rows), `open` the same
inside a transaction. `Enter` and `Leave` join this to the start and the end of a session: what `live` becomes depends on which
file the start opened, and the installed version of the plugin may be another at each.

### ProcessHost

The variables are grouped by who owns them: the mailbox behind its mutex, the serving threads,
the main thread, and what a plugin was told. `ReadStream`, `Sleep`, `Put`, `Drop` and `Exited`
are the serving thread (`PosixProcess::run` and the callbacks `ProcessHost::start` gave it),
`Deliver` is `deliver()` and is called by `RunDelivery`, `Read`, `Stop` and `Forget`; `Close`
and `Closed` are the two halves of the destructor.

### SdkPreferences

Extends the store by the copies plugins hold and the answers on their way to them. `Define`, `Set`,
`Hear` and `Forget` are `preferences.lua`; `Set` and `Forget` contain the step of the host they call,
`Complete` adds the answer to a completion of the store, `Elsewhere` is everything of the store that
does not meet the SDK. `Heard` is the commit and take-back of `persist()`, which the host's `Written`
repeats with other revisions.

### HttpHost

The variables follow the threads: the plugins' side (`registered`, `handlers`, `settled`, `heard`),
the host on the main thread (`starting`, `servers`, `retired`), what workers were given (`tasks`), the
main-thread queue with the drain in progress (`queue`, `ready`) and the threads of the servers with the
mailbox they share. `Serve` asks, `Bind` and `PostRegistration` are the worker, `RunRegistration`,
`RunDelivery` and `RunErase` the tasks of a drain, `Hear` the next event Lua is given, `Retire` and
`Join` the two halves of ending a server, `DestroyHost`, `ShutWorkers` and `LastDrain` the closing.

### ResourceLedger, ResourceScope

`ResourceLedger` is the promise of `docs/plugins.md` in four variables: what was opened, what a closing
was called for, what came back, whether the scope is over. `ResourceScope` is the code: `Admit`, `Begin`,
`Reply`, `Unanswered` are `run()` and `acquire()` of `resources.lua` over `bridge.request` and its
replies, `Release`, `CloseEnds`, `PluginCloses`, `AwaitReleases`, `AwaitOperations` are `release()` and
`close()`, `Withdraw` is the end of the plugin, which closes its scopes before the bridge settles its
requests. The refinement mapping reads the ledger off `native`, `closing` and `scope`.

### SurfaceTree

`children`, `value`, `place`, `holds` and the rest of `sdk` are the tables of `ui.lua`; `below`,
`content`, `shown`, `root` and `busy` are the surfaces and components of the shell; `inbox` is what the
runtime has still to hand to Lua. `Mount`, `Set`, `Replace`, `Arrange`, `Command`, `Unmount` are calls,
each complete on both sides, written so that each side computes the nodes that stay, are made and leave
with its own algorithm (`Kept` and `Leaving` for `ui.lua`, `Replaceable` for `SurfaceStore`). `Edit`, `Browse`
and `MoveTab` are a component in a frame, the `Hear` actions the handler of `workpane.ui.events`,
`HearBrowse` and `HearAnswer` the two sides of the await in `selectPath()`.

### FrameLoop

`pc` walks one turn: `Turn` (poll Lua, decide how long to sleep), `Sleep`, `Serve` (drain, dialogs,
Lua, place of the window, hidden work, whether to draw), `Draw`, and `Stop`. The world acts between any
two of them: `Happens` and `Moves` are the window system, `Push` and `Wake` the two halves of
`MainThreadQueue::post`, `Answer` a dialog, `Elapse` a clock. `WaitTime`, `Noticed`, `Drew`, `Deadline`
are `FrameScheduler`, `Observed` and `Written` are `GeometryRecorder`.

## 3. What is checked

State counts are distinct states. Between them the passing runs of a module take every action of
its specification. Where a property is a conjunction, its parts are named definitions of the module
and listed here.

### plugin_order

`PluginGraphs` over every dependency graph over three plugins in which each list names at most two of the three
plugins and one nobody installed, in either order, or the folder is unreadable: 5 832 graphs.
A list may name its own plugin, because the order is computed before the registry can refuse
it. Three plugins are the fewest in which two cycles share a plugin without being equal, and a
list of two lets the search come back to a plugin it already left.

- `OrdersRight` each readable plugin is ordered exactly once (`OrdersAll`), and stands behind every
  dependency it shares no cycle with (`DependenciesFirst`).
- `CyclesReal` a plugin is called cyclic only if it is on a cycle, and every graph with a cycle
  has at least one called so.

### plugin_lifecycle

`top` needs `mid` needs `base`; they are found in the reverse order. `mid` may be unavailable,
refused, fail, or have data that does not fit; its author may write it once more, unreadable
or repaired. The reader presses two switches or erase buttons, of any kind on any plugin, at
any moments; the window closes at any moment after loading. `base` reads the log. 437 117 states.
A chain of three is the shortest in which a dependent has a dependent; two presses and the
closing fill the queue of `exclusive()` with two waiters behind one change.

- `Exclusive` two changes are never half way at once (`OneChange`); while a coroutine waits, the change
  it waits for runs or a released one will look (`QueueServed`); a plugin is not started while its stop
  function runs (`NoStopBesideStart`).
- `DependenciesHold` every registered plugin stands behind its dependencies in the list, which are past
  their start (`DependenciesUp`), and a stop begins only after those of all dependents began
  (`DependentsStopFirst`).
- `Settled` between two changes no state is half way, list and states agree, nobody waits whose
  dependencies run, nobody runs that is off.
- `EveryStopBegins` when the closing found no change in progress, the product leaves only after
  every started plugin began its stop, whatever time the stops before it took.

### plugin_lifecycle_ends

The same with a `top` that names a plugin nobody installed until its author mends it, and with
a window that may be closed while the plugins still load. 310 962 states, with fairness.

- `CloseInRange` the loop of `stopAll`, which reads the list again at each index across its
  waits, never reads past the end that a failing start moved.
- `ClosingEnds` the product closes whatever its plugins do.
- `PressesEnd` a press that waits gets its turn, unless a start function never returns.

### database_executor

Two works of the core, a plugin statement and one that never ends by itself, any of them
submitted, in any order. Two core works are what it takes to show that a second one is spared; the slow
statement is what makes the bound of the closing matter. 79 035 states, with fairness.

- `Conserved` what was accepted is, in order, what was answered, waits to be answered, is held or
  is queued.
- `ClosedAfterAll` the connection closes only when the queue is empty and the worker left.
- `OneCoreCut` the interruption costs one core statement at most.
- `ShutdownEnds` the closing reaches its end and its last drain is delivered.

### preference_store

Three requests over two documents of one plugin and two contents, made through the SDK, with the plugin
disabled and enabled at any moments; symmetric in requests, documents and contents. 697 026 states.
Three requests are the fewest in which an older and a newer write surround a third event that changes
what the older one falls back to.

- `LatestShown` while the latest request of a document is an unanswered write, that write is
  what readers see, whatever becomes of those before it.
- `AllSettle` once every request of a document is answered, current, committed and stored agree
  (`Settles`), and once every answer reached Lua the copy of the plugin shows the same document and
  would fall back to the same (`CopyFollows`). The one exception is explicit: a copy defined over an
  open write, see section 6.
- `RowsExplained` at every moment the row is the committed document or the effect of the newest
  undelivered success: what was answered with success survives a crash at any moment.

### database_session

Any sequence of starts and sessions with at most four cuts, a cut being a crash, a refused call
or a check the machine fails, and two works in the sessions. Four cuts allow a repair to be cut, the repair
of that repair, and a crash of the session before each. Two works are enough for one to meet what the other left:
a migration, then a recovery; a broken transaction, then a statement. A plugin declares one or two migrations, so that
a list can break between two and an installed plugin can be older than its tables. 616 495 states, with
fairness; deadlock is checked.

- `SessionKept` the reader's database is somewhere in the directory with every commit, or a whole import
  took its place (`Kept`; the exception, a start cut between the two renames of a move, is explicit);
  a database never meets the log of another (`NeverMixed`); what is committed is whole, version with tables and
  rows together (`SessionTypeOK`); a copy that can be seen is whole (`CopiesWhole`); and what a recovery erased
  stands in one (`Rescued`). All of it after any crash.
- `SessionTold` a notice is given only once the previous database is back or set aside (`NoticeTrue`); a start
  that was not cut applies the staged import or says it refused it, and names what it set aside
  (`Answered`); the reader is told of an unclean end only after one (`RecoveredReal`). A work answered with
  success is committed or published (`DoneIsDone`), one answered with failure changed nothing (`FailedIsNothing`), and none
  leaves its transaction to the next. The exception, a `ROLLBACK` that failed, is explicit (`stuck`).
- `StartsSucceed` once the machine stops failing, a start opens a database.

### process_host

A program that is read writes four units over its two streams, one that tells two; they belong to
two plugins. The mailbox takes four units in three chunks, a pull program three units in two chunks,
a read one or two units; two calls in all, each a read, a stop or a withdrawal. These are the
smallest numbers with which each of the four bounds is the one that holds a thread back, a read
takes part of a chunk or crosses into the next, and a stop meets each state of the output. 151 028
states, with fairness.

- `Delivered` the counters are what the mailbox holds and stay inside their bounds (`Accounted`); a plugin
  is told each unit once, in order and on its stream (`InOrder`); the end comes after the last output,
  unless the output was cancelled (`EndLast`); what may be delivered has a delivery queued, and no
  producer sleeps whose piece fits (`NoLostWake`).
- `ReadsAnswered`, `StopReports`, `CloseEnds` a read is answered once there is something to answer
  it with, a stopped program reports its end, and the destructor ends. One pull program cannot fill
  this mailbox alone, so a stop always reaches its thread; section 6 says what two of them can do.

### http_host

Two servers of two plugins, the first asked twice: two requests share a batch, follow one another, or
surround the registration. Binds succeed or fail; stops, withdrawals, returns of a plugin and the
closing come at any moment. 176 065 states, with fairness.

- `Held` a server that listens is in the hand of a worker, in a registration that waits, or registered
  for a plugin the registry knows; one that closes is kept until it is joined; none is left when the
  product is gone; both sides of the bridge agree on which servers there are.
- `NothingLost` the requests a server answers reach its plugin once, in order, without a gap from the
  first after the registration at the latest; what waits in the mailbox has a delivery to come.
- `ServesAnswered` a serve is answered whatever became of the server meanwhile.
- `WithdrawnEnd` a server whose plugin was withdrawn ends for good, also when its bind was still under way
  and the plugin is back before the bind is done.

### resource_scope

Three openers and a reader in a scope that admits two operations and two resources, and a request the
plugin makes beside the scope. Three openers with room for two show a place given back and taken again,
the reader shows a closing that ends an operation. 133 200 states, with fairness.

- `Implements` the scope implements `ResourceLedger`: what the host opened is closed exactly once, also when
  it opened it after the scope began to close or the plugin went, and the closing is answered only when
  all of it came back.
- `Counted` the counters are the pending operations and the resources open or being opened, inside their
  limits.
- `FailureAnswered` the close fails exactly when some closing of the scope failed.
- `ClosingEnds` closing ends, though readers wait on what it closes.

### surface_tree

A strip of tabs, a box and a path field, each order and nesting of them, over one surface, with an inbox of
two and one selector at a time. The box lies in the strip, the field beside it, in it or nowhere: two
levels are the fewest in which a node keeps its place below a child that leaves, and in which a kept node is
lifted out of another. Three commands, two for one node around one for another, show both orders that
have to be kept. 269 532 states.

- `Agree` both sides know the same nodes on the same surfaces, and the same value and children of each that no
  event is on its way about; nodes whose change overlapped an event are the explicit exception (section 6).
- `KeptInOrder` other children never build a kept node again (`KeptAlive`), and the commands one mount delivers
  keep their order across nodes (`MountsInOrder`).
- `CommandsReach` each command sent reaches the shell once, or waits for a node no surface holds, and those of
  a node keep their order.
- `ChoicesReal` a field shows that it is picking only while a selection of it is under way (`PickingReal`), and
  a late choice never replaces a value edited meanwhile (`LateChoice`).

### frame_loop

One other thread, two places of the window, and four events of the world or effects of Lua and components
in all; the frames that settle are the two of the code, and input stays in ImGui for two frames. Four let a
move, a minimization, its end and a close, or a push between check and sleep beside a change and input,
meet in any order. 206 823 states, with fairness.

- `SleepsSeen` the loop never sleeps over something nobody will wake it for.
- `Settled` when it sleeps with the window on the screen, two frames followed the last input or change.
- `PlaceKept` at the end the database has the last place of the window.
- `EverythingServed` a posted task runs, an answered dialog is found, a change is drawn.
- `GoesIdle` once nothing more happens, the loop sleeps without a deadline.

### The run that finds a violation

`database_bootstrap_moves` checks `MovesTogether`, a sentence of a comment of the code that the code does
not keep; see section 6.

`CHECK_DEADLOCK FALSE` is set wherever the product really stops: a closed product, a finished
order, a closed host, a scope that is over; and where a plugin and a reader may simply do nothing more.

## 4. Fairness

- **PluginLifecycle** weak fairness of the steps of each coroutine, because the loop of the product
  lets the runtime resume whatever is ready on each turn, and of the closing, because
  `Product::stop` has a deadline of its own. The end of a plugin's start function is not fair:
  nothing in the product bounds it. Stops are bounded, so they are part of the coroutine's steps.
- **DatabaseExecutor** weak fairness of the worker's steps, of the drain and of each step of the
  closing. `FinishSoon` excludes a slow statement nobody interrupted, so it may run for ever.
  Nothing obliges a caller to submit, the reader to quit, or the bound of the closing to pass
  late.
- **DatabaseSession** the reader starts the product again and a start goes on until it ends. No work and no end
  of a session is fair.
- **ProcessHost** weak fairness of each serving thread for what it can do by itself: put, drop,
  and reap a program that was asked to end and whose grace passed. A program that was not asked
  may run for ever, a reader may never read again. The interface thread runs its queue and its
  destructor.
- **HttpHost** weak fairness of each worker's task, because the pool takes every task and a bind and a
  join end, of the turns of the main thread, which what is posted or emitted wakes, and of the closing
  once it began. Nobody need ask, stop or close anything.
- **ResourceScope** weak fairness of the coroutines, of the host's answer to each request, and of each
  closing function, which the scope bounds by nothing but the host answers. A reader is fair only once
  its resource is being closed.
- **FrameLoop** weak fairness of the loop, which is one thread; of the clocks, because time passes; and
  of the wake of a thread that pushed, which is the next statement it runs. The world may do nothing.
- **SurfaceTree**, **SdkPreferences** state no liveness.

## 5. What is proved

Each proof module names the constants it speaks of and the assumptions it takes; there are no others.

`PluginLifecycle_proofs` proves first, for any plugins and any graph of manifests, from `DiscoveredAssumption`
(each plugin is found once):

| Theorem | States |
| --- | --- |
| `OrderedRight` | `Definitions(defs) => OrderOf(Ordered(defs).order, Ordered(defs).cyclic, defs)` |

`OrderOf` is what `ordered()` promises: the order holds each readable plugin once, a plugin stands behind
each dependency it shares no cycle with, a plugin called cyclic is on a cycle, and a graph with a cycle has
one called so. `OrdersHold` (`GraphSpec => []OrdersRight`) and `CyclesHold` (`GraphSpec => []CyclesReal`), about
`PluginGraphs`, are read off it.

The search is a fold, and the prover has no induction over data: the theorems of the library that offer
it take a predicate. What takes its place is that a set of numbers that is not empty has a least one
(`LeastNumber`), from the well-foundedness of finite subsets. From it follow `Counting`, that the function a
fold is defined by exists (`FoldExists`), and that its results are a run of single steps (`OrderedRuns`).
`SearchMoves` says what the six kinds of step do. `SearchInv` is the invariant of a search: each plugin of the
stack is reached from those below it (`Along`), marks, stack and order agree (`Marked`), a list holds only
dependencies (`Remaining`) and a dependency no list holds any more is done, next on the stack or the reason of
a cycle (`Handled`), the order so far is right (`Sorted`) and what was called cyclic is on a cycle (`CyclesFound`). `Work` falls with every step that changes anything (`WorkLess`)
and is at most `SearchLength` in the beginning, so the bounded fold ends with the search.

`PluginLifecycle_proofs` proves, for any plugins, manifests, authors, presses and readers of the log, from
`LifecycleAssumption` and `DiscoveredAssumption`:

| Theorem | States |
| --- | --- |
| `ControlInvariance` | `Spec => []Control`, the types and the lock, `OneChange` and `QueueServed` among them |
| `CloseStaysInRange` | `Spec => []CloseInRange` |
| `ClosingFitsBudget` | `Spec => []Budget`: unless a change was late, the closing ends before the runtime is taken away |
| `EveryStopBegan` | `Spec => [](Orderly => EveryStopBegins)` |
| `ChangesExclude` | `Spec => [](Orderly => Exclusive)` |
| `ChangesSettle` | `Spec => [](Orderly => Settled)` |
| `DependenciesStand` | with `StableNeeds` and `ReadersApart`, `Spec => [](Orderly => DependenciesHold)` |

`Orderly` says that the window was not closed while the plugins load; with `QuitWhileBooting = FALSE`, as in
the run `plugin_lifecycle`, it always holds. It is needed: the run `plugin_lifecycle_ends` lets the window
close earlier, and a stop then runs beside a start (section 6), so `Exclusive` does not hold there. What holds
whenever it is closed, `Control`, `CloseInRange` and `Budget`, is proved without it. `StableNeeds` says that no author changes
what a plugin depends on, `ReadersApart` that what reads the log relies only on what reads it too: each rules
out one of the two divergences of section 6 in which a plugin runs without its dependency, and nothing else.

The invariants build on one another:

- `Control` is `Types`, `Lock` and `Phases`. A lemma for each action says only which shape it has (a coroutine
  enters, leaves, moves, rests; `StepShape`), and the lock is shown once per shape: at most one coroutine is
  inside a change, `busy` says so, and whoever waits is queued once.
- `InRange` follows the list of the started plugins while `stopAll` walks it from the end. The list is a
  sequence that members leave from the middle: `AmongThins`, `AmongShorter` and `AppendsOne` say what that does
  to the places of the others.
- `Budget` is what the closing has spent and what it still may, share by share; `Quiet` that nothing runs once
  the closing is done; `Walk` that what the closing has passed was asked to stop.
- `Placed` says where the plugin stands that a coroutine is starting or stopping, at each of its awaits;
  with `Lock` it gives `Exclusive`. It speaks of the coroutine that is alone, which is why it needs `Orderly`.
- `Resting` says of a system in which no change runs that each state is the one `resolve()` would give again,
  and of a `resolve()` half way which plugins are settled already and that the rest is still in its list. It
  uses `OrderedRight`: a pass that starts a plugin cannot unblock one it has passed, because dependencies come
  first. With it a single pass suffices, which is `Settled`.
- `Founded` is `Grounded` (each started plugin has what it needs before it in the list, and what stops has no
  dependent left that did not), `Rooted` (so has the one that is being started), `Downward` (what a switch has
  still to stop goes from the last started to the first and holds every dependent) and `Lifo` (so does what the
  closing kept for last). `FoundRight` is that the fold over the list finds the dependents of dependents too.

`SdkPreferences_proofs` proves in three parts, one for each module it stands on. About `DatabaseExecutor`,
for every set of works and every number of submissions, from
`WorkAssumption` alone (plugin works are works, slow ones plugin works, `None` is no work):

| Theorem | States |
| --- | --- |
| `TypeCorrect` | `Spec => []TypeOK` |
| `WorkConserved` | `Spec => []Conserved` |
| `ClosesAfterAll` | `Spec => []ClosedAfterAll` |
| `CutsOneCore` | `Spec => []OneCoreCut` |

The inductive invariant is `Inv == TypeOK /\ StagesAgree /\ Conserved /\ CutOnce`.

- `StagesAgree` ties the stages of the closing to the flags and to the worker: nothing is accepted
  once `m_closed` is set, the worker leaves only an empty queue, the drain in progress is finished
  before the closing begins. `ClosedAfterAll` is a consequence of it and is not inductive alone:
  without "`done` means the queue is empty and closed" a submission could follow the worker's leaving.
- `Conserved` needs the types, and `StagesAgree` for the two drains, which overwrite `ready`: it has
  to be empty.
- `CutOnce` strengthens `OneCoreCut` by what makes the next step keep it: before the flag is set no
  core work was cut, and while the one statement the interruption met is still running none was
  either.

Each of `TypeOK`, `StagesAgree`, `Conserved` and `CutOnce` has a lemma with one step per action.
The lemmas beneath them are about sequences: `WorksOf` of a concatenation, a sequence as its head
and its tail, and what appending an answer adds to the set of cut core works.

About `PreferenceStore`, for any requests, documents, owners and plugins, from `WorkAssumption`,
`StoreAssumption` (the core is no plugin, each owner belongs to one) and `EntryAssumption` (no entry is the
mark of a missing one):

| Theorem | States |
| --- | --- |
| `StoreImplementsExecutor` | `StoreSpec => Spec` |
| `StoreConserves` | `StoreSpec => []Conserved` |
| `StoreTypeCorrect` | `StoreSpec => []StoreTypeOK` |
| `ShowsLatest` | `StoreSpec => []LatestShown` |
| `ExplainsRows` | `StoreSpec => []RowsExplained` |
| `StoreSettles` | `StoreSpec => []Settles` |

The first is the step-by-step implementation of the executor; through it the invariant `Inv` of the executor
is available. `StoreInv` adds four facts about the requests that were accepted and are not answered, which
the three properties only mention at their ends:

- `Requested` every accepted work is a request that was recorded.
- `EraseLast` at most one erase waits, that of the change in progress, and no write of its plugin follows it:
  this is why taking back a write cannot bring a document back over an erase.
- `Revised` the writes of a document that wait carry strictly growing revisions, none past the entry's.
- `Latest` the last of them is what readers see, and without one current and committed are the same. This is
  what `revision == request.revision` in `deliver` decides by, and `LatestShown` and `Settles` are read off it.

`RowsExplained` is inductive beside them. It speaks of the newest success that was not delivered, which
`Deliver` takes from the front and `Finish` adds at the end, so the lemmas beneath it (`FiveParts`,
`Positions`, `Shifted`, `RowsShift`) say which position of the accepted works stands in which queue.

About `SdkPreferences`, it lifts these to the copies of the plugins: `SdkImplementsStore` (`SdkSpec => StoreSpec`)
shows that each call of the SDK is a step of the store or leaves it alone, so `SdkShowsLatest`,
`SdkExplainsRows` and `SdkSettles` hold under any use of it.

It also proves what the copies rest on, from `CopyAssumption` (`None` is no copy):

| Theorem | States |
| --- | --- |
| `CopiesSettle` | `SdkSpec => []AllSettle` |

The copy counts its writes from its own start and the host from the first of the document, and the two look at
the same answers at different times. The invariant `SdkInv` relates them write by write, `Mirrored` for each
owner: `Numbered`, the writes asked for through a copy carry numbers that differ from the host's by a constant,
in the same order; `StrangersFirst`, writes from before the plugin started anew are older than all of its own,
and a copy over such a write is `raced`; `LatestExpected`, while any answer is expected that of the latest write
is, so the comparison of the revisions decides rightly which answer settles the copy; `CommitsFollow`, what the
host has committed is what the last success on its way to Lua will commit. `Distinct` and `RepliesOrdered` say
that a request is accepted once and answers arrive in the order of the writes. The lemma `WriteAnswered` of the
store, what the answer of a write leaves in the entry, serves the host's half of it.

`ResourceScope_proofs` proves, for any openers, readers, requests and limit, from `ScopeAssumption` (finite
sets, each reader on an opener, a limit of at least one):

| Theorem | States |
| --- | --- |
| `TypeCorrect` | `Spec => []TypeOK` |
| `ScopeImplementsLedger` | `Spec => Implements` |
| `CountsAreExact` | `Spec => []Counted` |
| `FailuresAreAnswered` | `Spec => []FailureAnswered` |

The inductive invariant `IInv` joins the types, `Placed` of each opener (where its request, its resource and
its closing stand at each point of `acquire()`) and `Reached` (what the closing can rely on at each of its
awaits). `Placed` is why a late answer is never lost: a resource the host opened belongs to a request the
scope still owns, to an entry, or was closed. The step of the refinement that is not a stutter or one
action of the ledger is the closing of the scope, which gives back many resources at once, `Give`.

`FrameLoop_proofs` proves, for any threads, places, input and length of a run, from `FrameAssumption`:

| Theorem | States |
| --- | --- |
| `NeverSleepsOver` | `Spec => []SleepsSeen` |
| `SleepsSettled` | `Spec => []Settled` |
| `KeepsPlace` | `Spec => []PlaceKept` |

`SleepsSeen` and `Settled` speak of a loop that sleeps; the invariant says what has to hold while it does not.
`Marked`: what no frame has shown is marked changed or has frames to come. `Fed`: input that waits in ImGui has
frames to come, or the turn that saw it has. `Woken`: a queued task has its wake to come, posted, or taken by
this very turn. `Framed`: the frames drawn since a change and those to come are those it needs. `Slept` keeps
what `WaitTime` looked at true until an event or a wake arrives, which is the race between the check and the
sleep. `PlaceKept` needs `Timed`: the place written is the one in the database, and one that is not written
has its wait.

`HttpHost_proofs` proves, for any servers, plugins and number of requests, from `HttpAssumption`:

| Theorem | States |
| --- | --- |
| `ServersHeld` | `Spec => []Held` |
| `RequestsReach` | `Spec => []NothingLost` |

The invariant `HInv` follows a server through the hands it is in. Beside the types of the queues (`Types`) and
what each stage of the closing leaves (`Stages`), it says of each server:

- `Fresh` nothing of a server nobody asked for is anywhere.
- `Placed` it is in one place of its way: a worker binds it, posts its registration, the registration waits, it
  is registered, a worker joins it, or what is left waits to be erased; and its listener is what that place
  left. `Held` is read off it: what listens has somebody who will end it.
- `Known` what Lua believes of it and what the events on their way will make it believe. Without the events the
  last part of `Held` is not inductive: an answer that says "served" must not arrive after the server is gone.
- `Unheard`, `Flows` before the registration nothing reached Lua; afterwards what was heard, the batches on
  their way and the mailbox, put together, are the requests from the first to the last. `NothingLost` is `Flows`
  with `Posted`, which keeps a delivery queued while the mailbox holds something.

`Once` (a registration waits once) is what keeps the second half of `Placed` when the first copy is run.

`DatabaseSession_proofs` proves, about `DatabaseBootstrap`, for any number of cuts, from `CutsAssumption` and
`NoneAssumption` (`None` is
no content of a file):

| Theorem | States |
| --- | --- |
| `StartsKeepData` | `Spec => []DataKept` |
| `StartsTellTruth` | `Spec => []Told` |

`DataKept` alone says nothing of a start that is half way, so the invariant `BInv` names every point of one:
`Importing`, `BackingUp`, `TakingPlace`, `InPlace`, `Accepting`, `Dropping`, `Restoring`, `Opening` and
`MovingAside`, each with the calls still to make and what stands in the directory between any two of them;
`Between` is what a start leaves to the next, however it ended, and `Directory` what holds always. A cut at any
call falls from one of these points to `Off`, and the next start begins there: that is the recovery argument.
`Following` is the state of a move between its two renames, where the sentence of section 6 is lost.

and on top of it, about `DatabaseSession`, for any number of versions, works and cuts, from
`SessionAssumption` and `NothingAssumption` (`None` is no work, no answer and no data) as well:

| Theorem | States |
| --- | --- |
| `SessionsKeepData` | `SessionSpec => []SessionKept` |
| `SessionsTellTruth` | `SessionSpec => []SessionTold` |

`SInv` joins `BInv` and a point for each kind of work: `Migrating`, `Transacting`, `RunningOne`, `Erasing`,
`Recovering`, `Exporting`, `Staging`, each again the calls still to make with what the transaction holds, what is
committed (`Stand`: what stood when the work was taken) and what a copy made so far holds. `Idle` is why a work
may rely on its `BEGIN`: no transaction is open unless a roll-back failed. `Finished` and `Done` are what the
answer promises; the loop over the migrations has a point for every version, so the proof needs no induction.
A step of the start is a step of `DatabaseBootstrap`, so the lemmas about `BInv` are used as they are.

`ProcessHost_proofs` proves, for any number of programs and plugins, whatever the programs write, and for any
bounds, from `ProcessAssumption` (finitely many programs, a piece fits into an empty mailbox, `None` is no piece):

| Theorem | States |
| --- | --- |
| `MailboxInvariance` | `Spec => []Inv` |
| `OutputDelivered` | `Spec => []Delivered` |

`Delivered` speaks of what was told and of counters; neither says where a unit is in between. `Inv` does, for
each program: `Base(p)` is how many of its units left the mailbox, and `Place` says that the chunks that wait hold
the units after those (`Numbered`), the hand of the thread the ones after these, and that the plugin was told
everything up to `Base(p) + offset[p]`. `Put` moves a piece from the hand into the box and leaves `Base` alone,
a delivery moves `Base` by what it frees and `offset` by the rest of what it read, so a chunk read in part is told
once. `Stage` says where the thread, the entry of `m_running` and the end of a program may stand; `EndLast` follows
because an end is only told with the last chunk and nothing is in the hand of a thread that ended. `Woken` is
why nothing is forgotten: after a delivery nothing may be delivered, whoever called it, so the flag `posted` may
be cleared while an older task is still queued. What stays true after the closing is `Truthful` and `Lasting`.

`deliver()` is proved once, in `DeliverInv`, for whatever readers and marks its caller set; `read`, `stop`, `forget`
and the task are instances of it. Beneath it are three small theories, none of which the library has:

- Sums. `Sum` folds over a set by choosing one member after the other. `TableExists` shows that the function the fold
  is defined by exists and that the order does not matter; `SumLess`, `SumMore` and `SumNat` are what the counters need.
- Sizes. `SizesOf` is the running total of the lengths of chunks; `CutRight` says which chunks a read leaves empty,
  `SplitRight` what stays behind, `AppendChunk` and `JoinChunk` what a piece adds.
- Units. `FlattenRuns` says that chunks put one after the other are one run of units, so that what a delivery tells
  of them (`UnitsTold`) continues what was told before (`StoryOn`).

`SurfaceTree_proofs` proves, for any finite set of nodes, any surfaces, values, commands and children a plugin
gives, from `TreeAssumption`:

| Theorem | States |
| --- | --- |
| `TreesInvariance` | `Spec => []Inv` |
| `TreesAgree` | `Spec => []Agree` |
| `CommandsArrive` | `Spec => []CommandsReach` |
| `ChoicesEndOnce` | `Spec => []ChoicesReal` |
| `ChangesKeepOrder` | `Spec => KeptInOrder` |

`Agree` compares the two copies of a node no report is on its way from; it says nothing of the others, and the
next delivery could break it. `Inv` says it of all of them, in seven parts:

- `Trees`: no node lies inside itself (`Grounded`), a node on a surface has the same children on both sides, if not
  in the same order, no two places of the shell hold one component (`OneEach`), and each surface shows the tree of
  its root and nothing else (`Grown`). It does not speak of the inbox: a report may change the order of children
  and no more, because `remember()` refuses an order that does not name them all.
- `Hearing`: unless a call of the plugin raced with a report, the last report of a node that waits tells what its
  component shows, and where none waits both sides know the same (`Told`). An order names each child once.
- `Picks`: a button that is picking has a selection or its browse waits, on the surface the node is on. A node that
  leaves loses all three at once.
- `Selecting`: a selection is an open selector or one answer in the inbox, never both (`Single`, `Pending`); one that
  an edit overtook is outdated already, or the edit stands in the inbox before its answer (`Overtaken`), which is
  why the order of the inbox suffices to drop a late choice. `UnknownFree` is why a number may be used again.
- `Numbered` and `InOrderSent`: each command waits or was taken, once, and what waits for a node is younger than
  what that node took. `Typing` is the rest.

A tree is a recursive function over its nodes, which exists only because no node lies inside itself. `WalkIs` shows
it without induction: the least set that holds a node and the children of its members satisfies the equation of
the function, so the `CHOOSE` behind it has a value. Where no node lies inside
itself it has no other: `WalkWithin` takes the nodes whose walk would leave a set, and `Grounded` gives one of them
whose children are none. `TreeFacts` says what the rest uses of it.

`ReplaceSets` is the centre. `setChildren()` and `replaceChildren()` compute what stays, what is made and what leaves
in two ways, one from the tables of Lua and one from the components, and it shows that they agree: what was
inside and is not carried by a kept node is what leaves, nothing that is made was on the surface, and nothing
is carried twice. `NamedOnce` counts, and `NamesOnce` shows that the count is right only if no node is named
twice. From it, `ReplacePlants` keeps `Trees`, and `KeptAlive` follows because no component of the surface is made again.
`MountPlants`, `UnmountPlants`, `TurnedPlants` and `ReorderPlants` are the other ways a tree changes.

What `Mount`, `Unmount` and `Replace` have in common is `Rebuilds`; each part of `Inv` is shown of it once. The same is
done with `EmitFacts` for what a component reports and with `TakeFacts` for what the SDK hears. `ByKey` is the sort
of `deliver()`: `RisingExists` and `RisingOnce` say that a finite set has one sequence by rising keys.

Every invariant and every action property of the runs is proved. Not proved, but checked on
the instances of section 3:

- Liveness: every temporal property with fairness rests on `ENABLED`, which the prover does not reason about.

## 6. What the code does that its documents do not say

**A database without its log** (run `database_bootstrap_moves`). A move renames the main file first
and the log after it, and no later start looks for the log a cut move left behind: commits that
were only in the log are gone, while `DatabaseBootstrap.cpp:162` says that both move together.

Other things met while modelling, each reproduced with a variant of a run above. The properties
of the runs are stated so that they hold beside them, and say where they make room for one:

- **A cycle named in part.** With `a -> [b, c]`, `b -> [a]`, `c -> [b]`, `ordered()` calls `a` and `b`
  cyclic and not `c`, which is on `a -> c -> b -> a`: the search already left `b`. `c` waits with
  `plugin_dependency_inactive` where `docs/plugins.md:111` promises `plugin_dependency_cycle`.
- **Started without its new dependency.** `resolve()` asks what blocks the definition in memory; `start()`
  then reads the folder of a plugin that ran before again. A dependency the author added meanwhile is not
  looked at (`plugins.lua:347`).
- **A stop beside a start.** A window closed while the plugins load runs a stop beside the start of the same
  plugin, because the boot does not go through `exclusive()`; `docs/plugins.md:107` says "so no stop runs
  twice or beside a start". `plugin_lifecycle` therefore closes the window after loading, and
  `plugin_lifecycle_ends` checks what still has to hold when it does not.
- **A dependency stopped before its dependent.** A plugin that reads the log and depends on another one is
  stopped after it: readers are kept for last (`plugins.lua:688`), while `plugins.lua:677` says that a
  dependency outlives every plugin that relies on it. In the runs the reader is `base`, which depends on
  nothing.
- **Listed without a row.** A first write that fails leaves its entry, so `plugins()` of the store lists a
  plugin that keeps nothing (`PreferenceStore.cpp:81`).
- **A copy that keeps a failed document.** `preferences.define` takes the document the host shows for the
  committed one. When a plugin is disabled and enabled while a write is open and that write then fails,
  the host goes back and the new copy does not, until its next write succeeds (`preferences.lua:88`). The
  flag `raced` of a copy marks it.
- **The path of a database set aside** is told by the start that set it aside; if that start ends
  before it tells, the next one does not know of it (`DatabaseBootstrap.cpp:54`, `Product.cpp:277`).
- **A crash not told.** A crash whose next start fails is not told by the start after that: releasing the lock
  empties its file (`InstanceLock.cpp:121`, against `docs/architecture.md:40`). `RecoveredReal` is therefore
  stated in the one direction that holds.
- **A transaction that outlives its work.** When the `ROLLBACK` of a broken work fails too, the transaction
  stays open (`PluginDatabase.cpp:21`): every later `BEGIN` and every export fails, and a single statement or a
  preference written meanwhile is answered as done and lost when the product closes. Nothing closes the
  connection or tells. `stuck` marks such a session.
- **The folder of an interrupted snapshot.** A crash between the folder and the publication leaves
  `.workpane-configuration-<random>` with the copy beside the destination, and no later start removes it
  (`ConfigurationTransfer.cpp:119`).
- **The file validated and the file staged.** `stage()` opens the chosen file a second time
  (`ConfigurationTransfer.cpp:78`). A start judges the staged file again, but not the versions of its plugins; those are
  met by the next migration, which refuses and recovers.
- **A stop that waits for a stranger.** All programs share one mailbox, and unread pull programs fill it for
  good. The serving thread of another program waits for room (`ProcessHost.cpp:146`), and looks whether it
  was asked to stop only once it is back.
- **Requests before the registration.** A server answers from its bind on, and `deliver()` drops what belongs
  to a server the main thread did not register yet (`HttpHost.cpp:232`), though `HttpHost.h:20` and `http.lua:9`
  promise each request. `NothingLost` counts from the registration.
- **A copy of the tree behind an event.** When a plugin sets a value or children while an event about the same
  node is on its way, `remember()` puts the older value or order into the copy of the SDK over the newer one
  the shell shows (`ui.lua:395`), until one of them changes again. `raced` marks those nodes in `Agree`.

## 7. Abstractions

- The Varn runtime is outside the repository: coroutines, awaits and timers are modelled from how
  `plugins.lua` uses them. A released coroutine competes with presses that arrive before it runs.
- Time is not counted, except in the closing of the plugins, where `spent` adds the shares the
  stops used. `late` says that a change was in progress when the closing began, in which case the
  budget may pass before the plugins are reached.
- The interface disables a switch whose change runs; a press already queued is possible, so presses
  are not restricted.
- `Fickle` names the plugins whose own code may fail; the others never do, which keeps the number of
  states small without removing a kind of failure.
- Preference documents are contents without structure: the rules of values, the keys, the watchers and the
  controls of the interface are left out, and `set`, `update` and `reset` each write a whole document, which is
  what the code sends. The loading of a damaged document and the names of owners are not modelled. The caller
  of `plugins()` leaves the core out.
- A database is its main file and its log; `-shm` carries no data. The exclusion of a second process
  is one `flock`. Files set aside are one place, emptied once a session told of it. Contents are what
  the properties tell apart. Failures of the machine and crashes share one budget, `MaxCuts`.
- In `DatabaseSession` the data of one plugin stands for the content of a database. Whether the plugin runs is not
  looked at, so works come in any order; SQL is reduced to what it does to the version, the tables and two
  rows. An import comes with whatever its author had. The failures of the machine and crashes share `MaxCuts` too;
  what a plugin or a reader hands over may fail for nothing.
- A unit of output is a run of bytes. A piece read from a pipe (64 KiB) always fits in an empty
  mailbox (4 MiB, 1 MiB for a pull program), so it is never split; this is `ProcessAssumption`.
  `deliver()` is one step: after it releases the mutex it touches only what the main thread owns,
  and its events are handed to Lua on a later turn. Programs write a given number of units, so a fast
  program that never ends, starving another of the condition variable, is not explored.
- The HTTP library is outside the repository: a bind succeeds or fails, an answered request calls the handler,
  and a listener asked to stop ends. The resolution of paths and the bytes of files are left out.
- In `ResourceScope` the bounds of 64 operations and 64 resources are one constant, the limit of scopes per
  plugin is left out, and a resource is the request that opened it.
- In `SurfaceTree` one property stands for all the properties of a node. A plugin gives a node to one surface at
  a time and makes no node its own descendant, refused calls are guards, and images, focus and the surface that
  failed are left out. The queue of events of the runtime is first in, first out.
- In `FrameLoop` a clock is off, ahead or past; one poll of Lua and one frame have one effect each; one task
  stands for all that a drain runs. GLFW latches events and wakes until the next wait, ImGui takes the input of
  one frame at a time. A window does not move while it is minimized. The menu of the system, native views,
  sound and the scale are left out.
- Bounds: `MaxEdits`, the number of `Clicks`, `MaxCuts`, `MaxVersion`, `MaxWorks`, `MaxCalls`, `Writes`, `Asked`, `Commanded`,
  `MaxSelections`, `MaxInbox`, `MaxTyped`, `MaxBudget`. The counters of the code have no other bound in the models.

## 8. What is not modelled, and the plan

Partly: plugin tables and the storage host (statements, arguments, queries), the process host (input, terminals, lookup), the HTTP
host (files), the SDK preferences (rules, watchers), trees of nodes (parsing, images), the main loop (drawing,
the menu, sound), the SDK bridge (coroutines, subscribers), the plugin registry (parsing), the closing of the
product (the teardown of the interface).

Not modelled because there is nothing to interleave or nothing the methods reach: components, widgets,
drawing, fonts, Markdown, localization, text and JSON conversions, platform calls, audio, SQL itself,
the wrappers of the SDK over the hosts, the build. The bundled plugins are programs of their own.

Next, in this order:

1. **ProcessHost, the rest**: the input queue and its bound, and terminals, whose serving thread refines
   the one modelled here.
2. **SDK events and capabilities**: deliveries to subscribers taken before any runs, a provider withdrawn while
   it answers, composed with the tasks of the bridge.
3. **FileStaging**: replacement of a file with its roll-back, in the manner of `DatabaseBootstrap`.
4. **LogService, WorkerPool**: the one-notification pattern of the mailbox without its bounds, the closing of
   the executor without its interruption.

No invariant of a run is left to prove. A module of this list that is written gets its theorems beside it, in the
manner of `ProcessHost_proofs` for the first and of `HttpHost_proofs` for the second.
