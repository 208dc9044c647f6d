# Verification of the endpoint client: scheduler, servers, agents and stores

The program is an endpoint client: a small daemon loads a *scheduler*, the
scheduler loads *modules* (shared libraries) named in an XML file, and the
modules talk to each other only through the scheduler. The project models the
scheduler and its routing, the ring buffers of the largest module, the web
socket server and the request server on top of it, the agent of the control
centre, the logger, the upgrade with its scripts, and the paths by which reports
leave and tasks enter the monitor. Paths below are relative to the repository.

## Inventory

| component | state | operations | interacts by |
|---|---|---|---|
| `src/main_daemon` | the scheduler's handle | launch: create, run, destroy | calls into `cbd_scheduler` |
| `src/scheduler/common/scheduler.cxx` | stop flag, message queue with a spin lock, lists of modules per category, rules from declared types | constructor, `run`, `stop`, destructor; `notify_scheduler` for modules | threads of isolated modules, callbacks, shared flags |
| `src/scheduler/cbd_scheduler` | configured rules | `dispatch_module_message`, `handle_module_message` | calls `assign` of modules |
| `src/scheduler/common/module_config.cxx` | none after loading | parse settings and rules | read once by the constructors |
| `src/module_data`, `src/common/utils` | property container of one message | get/set/copy | passed by pointer |
| `src/ipc_server`, `src/common/src` | connections shared by the service thread and workers, with reference counts and queues | receive, send, close, stop | queues, reference counts, callbacks |
| `src_refactoring/rpcsrv` | map from request id to connection, run/stop flags | requests, results, notices, close | messages, web sockets |
| `src_refactoring/kv_engine`, `av_sdk` | request ids | synchronous requests, scans | web sockets to `rpcsrv` |
| `src/center_agent` | login state, current task and its result | login, registration, heart beats, logout, `assign`, `stop` | HTTP to the centre, messages |
| `src/logger` | log files, buffer | `assign` (write, rotate) | messages `MSG_TYPE_LOG` |
| `src_refactoring/upgrade`, `bin/*.sh` | version files, the installed directory and its backup | requests, download, exchange, start, revert | messages, shell scripts |
| `src_refactoring/stap_edr_monitor`: buffers | ring buffers | monitors push, one loop pops | shared memory without locks |
| ... tasks and `tunnel` | queue of tasks, one file per command, settings | `assign`, load, store, apply | ring buffer, files |
| ... uploaders, `upload_factory` | two SQLite files, running transfers | push, transfer, retry, stop | libcurl, SQLite |
| file, process, network, usb monitors | readers of SystemTap output | run, stop, callbacks | messages, callbacks |
| `src/rpc_client` | idle and busy threads | dispatch of sockets | condition variables |
| `vc_client`, `vc_server`, `report`, `file_scaner`, ... | older or thin modules | | messages |
| `src/common/*` libraries | vendored | | |

What is hard here: every isolated module has its own thread and all of them push
to one queue; flags and sizes are accessed without the lock that guards what they
describe; objects are destroyed on one thread while another is calling them;
threads wait for room in each other's queues; requests of all clients share one
map; a task and its result are two variables; files are renamed, emptied and
exchanged in several steps, any of which may fail or be the last before a crash.
`PROJECT.json` lists each such place with the property that covers it, or the
reason why none does.

What makes the components correct: a message goes exactly where the rules say,
in its order and without gaps; modules are told to stop only when nothing is
dispatched to them any more; a stop takes effect; a ring buffer is a bounded FIFO
queue; the state of a connection lives as long as someone holds it and no longer;
a client gets the answer to its own request; a result is stored with its own
task; log files hold the newest lines; an upgrade leaves something that starts; a
report stays stored until the server has it; a setting in effect is on disk.

## Modules

| module | models | actions |
|---|---|---|
| `MessageRules` | the tables and the lookup (`cbd_scheduler.cxx`) | no state; a category mask is the set of its bits, a rule table a function |
| `ModuleLoader` | the constructors | one action per turn of `load_modules_internal` (skip, fail, load) and the end of the constructor; then `Route` and `RouteLog` look a message up |
| `Scheduler` | the scheduler from the end of its constructor to the end of its destructor | see below |
| `RingBuffer` | `ring_buffer.cpp` | `Push`, `WriteSlot`, `AdvanceWrite`, `PublishWrite` of a producer; `Pop`, `ReadSlot`, `PublishRead` of the consumer; `ClearDestroy`, `ClearFinished` |
| `BoundedFifo` | what the ring buffer promises | `Push`, `Reject`, `Pop` on a sequence |
| `EventLoop` | `libwebsockets_server_eventloop.c`, `shared_ptr.c`, `queue.c`, `thread_pool.c`, `ipc_server.cpp` | callbacks of the service thread, workers, `DoSend`, the stop sequence |
| `RpcServer` | `rpcsrv/implements.cxx`, `kv_engine.cpp` | client requests, `OnReceive`, `OnClose`, `Assign` of results and notices, `run`/`stop` |
| `CenterAgent` | `center_agent.cpp`, `functions.cpp` | login, registration, heart beat, task, logout; `assign`; `stop` |
| `Logger` | `logger.cxx` | `assign`, each step of a rotation, `Write`, `Crash` |
| `Upgrade` | `upgrade_interface.cpp`, `version_manager.cpp`, four scripts of `bin/` | the request and one action per command group of a script; `Crash`, `Boot` |
| `Uploader` | `uploader_edr.cpp`, `upload_report.cpp`, `cache_to_sqlite.cpp` | pushes of the statistics thread, the upload thread's loop, transfers, `Stop`, `Crash` |
| `SysTask` | the task half of `sysinfo_statistics.cpp`, `sysinfo_interface.cpp`, `tunnel.cpp` | `AssignTask`, loading, the loop's turns, store, apply, `Stop`, `Crash` |
| `RingBufferProofs`, `EventLoopProofs`, `RpcServerProofs`, `UpgradeProofs`, `UploaderProofs`, `SysTaskProofs` | | theorems about the module of that name |
| `SchedulerProofs` | | theorems about `Scheduler` and about `ModuleLoader` |
| `ModuleProofs` | | theorems about two modules that the scheduler loads, `Logger` and `CenterAgent` |
| `MC...` | | instances for TLC |

How they fit together: the tables of a running scheduler are written out in
`MCScheduler`, and an assumption there (`TablesAreLoaded`), which TLC evaluates,
says that they are what the operators of `ModuleLoader` build from the settings. `RingBuffer` implements
`BoundedFifo`, and `SysTask` instantiates `BoundedFifo` as its queue. `RpcServer`
relies on what `EventLoop` does with a connection (a request is handled by some
worker, `OnClose` runs once and on another thread) and on `ModuleLoader`'s result
that a request reaches its module more than once (`Copies`).

### ModuleLoader

`infos` is the array of lists, one for each category bit, and `original` the rules made
from declared types. A load reads every type of every module in every list
again (`Readings`: a position in the lists, the index of a type, a bit of the mask), in
the order of these, and appends a broadcast rule for each. `InTurn` is that loop: it
enumerates a finite set in a given order, so that neither the reading nor the
accumulation of configured rules (`EntriesFor`, in the order of the file) needs
recursion. The calls that a message makes are a function from a rule and a place in its
list to a module.

### Scheduler

The threads are the main thread (`run`, then the destructor, as `launch_module`
calls them), any number of callers of `stop`, and one thread for each list entry
of an isolated module. `pc` says where a thread is, `calls` which messages it is
handing over: the bottom frame of the main thread is the message popped from the
queue, all others are synchronous notifications, made from the code of a module
and possibly nested.

Steps are cut where another thread can make a difference:

* `push_module_message` takes the lock and reads the flag (`PushModuleMessage`),
  and then appends and unlocks (`PushEnd`), because `stop` writes the flag
  without the lock. `pushing` is the lock together with what its holder appends.
* `pop_module_message` reads the size without the lock (`PopModuleMessage`) and
  takes the oldest message with it (`TakeModuleMessage`). The unlocked read is a
  data race. `std::deque` computes its size from several pointers which a push
  changes one by one, so during a push the model lets the read be zero or not.
* The one-second sleep lies between the read of an empty queue and `CheckStop`.
* `destroy_module` frees the object and then clears the pointer
  (`DestroyObject`, `DestroyPointer`). A call that begins in between gets the old
  pointer. A call with a cleared pointer enters no module.
* Calls into modules are entered and left in different steps, and in between the
  module may notify. The results `MODULE_OK` and `MODULE_ERROR` only differ in
  the text that is logged; `MODULE_FATAL` destroys the module.
* An isolated module whose `run` has returned goes on in threads of its own
  (`background`), as `file_monitor` does; the model keeps them in its thread.

The flags are plain `bool`s. The build files set no optimisation, so a busy wait
reads memory each time round; the model has them that way. Crashes end a
behaviour and are not shown (a synchronous call while the destructor runs is one:
the derived class is gone by then). History variables are `sent`, `asked` and
`taken`; a message carries its sender and number so that a property can speak
about its order.

### RingBuffer

The monitors' callbacks push, the statistics loop pops. The indices are volatile
and stored in program order on x86, whose stores are not reordered with each
other; a compiler that moved the plain store to the slot behind the volatile
store of the index is excluded by the build without optimisation. `Serialised`
is the spin lock that the callbacks of the network monitor push under.
The buffers are destroyed with a callback (tasks, files, usb) or without
(network, processes), which `WithCallback` says. Items are numbers in the order in
which their pushes begin.

### EventLoop

The threads are the service thread (`pc[Service]`, the callbacks of
libwebsockets), the workers, callers of `do_send` and the thread that stops the
server. A spin-locked section is one step; what the code reads before it
(`found`, the copy of `p_connection`) or frees after it is another. `heap` is what
is allocated of each connection. A use of something freed sets `fault`, and a
faulted process takes no further step, because nothing can be said of it; the
properties are about all states up to there. `holders` records who has a counted
reference, so that `reference_count` can be compared with it. Waiting for room in
a full queue is a state in which the thread's step is disabled.

### RpcServer

A client opens a connection per request and takes the first message on it for its
answer; the payload of a result is the connection its request came on, so that
`OwnAnswer` can compare. `msg_conn_maps` is keyed by the id alone, as in the code.
`queue` is the scheduler's queue as far as this module uses it; `HandleByModule`
takes a request and puts its result there `Copies` times. `SendResponse` of a
worker and `OnClose` of the service thread interleave; the answer that
the scheduler's thread sends is looked up (`FindConnection`) before it is sent
(`KVEngineDoResponse`). A client may die and start again (`crashes`).

### CenterAgent

`centre` is external: what the centre knows of this node. A request or its answer
may get lost, the centre may forget its nodes; both count as `lost`. `stop` has two
callers, the scheduler's `stop_modules` and `destroy`, which calls it before it deletes
the object, whether or not `run` has ended or somebody else is in it; what a caller then
reads of the deleted object may be anything. `assign` stores
a result and its task in two steps under the mutex, while a heart beat stores the id of
a new task without it. What a heart beat reports is left out. The specification is called
`AgentSpec` (and that of `ModuleLoader` `LoaderSpec`), because a module of theorems
extends it together with another one.

### Logger

`log_count`, a variable that `Init` chooses and nothing changes, is the code's value
after it was decremented, so file 0 is the current one and `log_count` the oldest. A
file is the numbers of its lines and its length, which is what `ftell` returns; the
lengths of single lines only matter for their sum. A rotation is
a sequence of steps (remove, rename by rename, reopen), and a crash
between two of them leaves the files as they are. After a failed `fopen` the next
line uses a null pointer, which is the same as a crash.

### Upgrade

A version is the sequence of its three tokens, compared as `tok` compares them. A
directory is the version of the daemon in it, its library, the library's backup
and `version.txt`. Every command may fail and the machine may go down between any two.
`faults` counts the failures that a script looks at, and that of the version file's
download, which nobody looks at; `unchecked` counts those of `rm`, `mv` and `cp`, after which the script goes
on as if nothing had happened. A `rm` that fails may leave a part (`PartVersion`,
`PartLib`), so may a failing `tar`, and a `mv` onto a directory that is still there moves
into it (`Moved`). `Garbled` is `run_cmd`'s uninitialised buffer. A package contains
no `version.txt` of its own, and new versions are released while no script runs.

### Uploader

A database is the sequence of its rows; `curl_map` holds the transfers with what
`cache_id` says. A transfer ends well, is refused, or is delivered without the
client learning of it. libcurl and SQLite are external; a call to either is atomic.
`ends` counts how often the process has ended, by a clean stop, a crash or the null
pointer of a task record. A failing `curl_multi_wait` (`WaitFails`) leaves the inner
loop early. A start at which a database cannot be opened, or its table not created,
removes that database's file before the constructor's assertion ends the process
(`CreateFails`).

### SysTask

Parameters are numbered in the order in which they are assigned, so later is
greater; garbled parameters are the ones that cannot be parsed. Storing is two
steps because `fopen` empties the file first. An empty file and no file are passed
over alike. Pushes that overlap are the subject of `RingBuffer`, not of this module.

## Runs

| run | instance | checks |
|---|---|---|
| `loader` | the modules, rules and messages around client requests of `etc/customize_edr.xml`, and with them a module in two categories that declares a type twice, one in none, rules with two or no target bits | `RulesFollowTheLoads`, `RoutedByEntriesOrDeclarations` for every set of modules that fail to load |
| `scheduler` | logger and one isolated module that logs, one caller of `stop`, two notifications and one synchronous one per module | `PopFindsMessage`, `DispatchedIsPrefix`, `StoppingAfterLoop` |
| `scheduler_live` | one isolated module that sends without end, two counted notifications and a synchronous one, one caller of `stop` | `StopEndsLoop`, `QueuedIsDispatched` |
| `ring_buffer` | two serialised producers, 4 slots, 7 pushes | `IsBoundedFifo` (the refinement), `NoSlotRace`, `NothingLeaks` |
| `event_loop` | one connection, one worker, one caller, a worker's queue with room for one message and a connection's with room for two, both kinds of stop, four requests, two notices, a failing `lws_service` | `HeldStateAlive`, `StateReclaimed`, `WakeupNotLost`, `RequestsRelease`; `StopReturns` |
| `rpc_server` | one engine with its permanent connection, requests that a module answers, each handled twice, four connections, one notice, one crash of the engine | `OwnAnswer` |
| `rpc_server_live` | requests of five kinds, three connections, `run` and `stop` | `TableIsCurrent`; `RequestAnswered`, `StopEndsRun` |
| `center_agent` | two tasks, four faults, both callers of `stop` | `ResultHasTask`, `TokenTakenBack`, `StoppedIsLoggedOut`; `LogsInAgain`, `StopReturns` |
| `logger` | no, one or three rotated files, limit 4, lines of length 1 to 4, nine lines, two crashes, one failing `fopen` | `KeepsTheNewest`, `DropsOnlyWhenFull` |
| `upgrade` | three versions of the daemon and two of the library, all requests, packages with a library, two failing commands of any kind, one crash, garbled buffer | `InstallationSurvives`, `LibrarySurvives`, `NoDowngrade`; `RunsAgain` |
| `uploader` | a snapshot, an action, a task record, four handles, one fault (of a wait, a transfer, an insert or a start), one stop or crash | `DeliveredOnce`, `CachedKept`; `EventuallySent`, `StopEnds` |
| `sys_task` | two commands, a queue of 2, three tasks, one failing write, one crash, stops | `InEffectIsStored`, `LaterTaskWins`; `StoredIsApplied`, `ReportedIsDone` |

Behind the semicolon are liveness properties. `scheduler` and `ring_buffer` check
`TypeOK` too, which is proved; in the other modules it (`LoaderTypeOK`, `AgentTypeOK`
in two of them) is the first conjunct of one invariant (`RulesFollowTheLoads`, `RequestsRelease`, `TableIsCurrent`,
`ResultHasTask`, `KeepsTheNewest`, `InstallationSurvives`, `DeliveredOnce`,
`InEffectIsStored`); `Logger`'s says that a file stays below the limit. The two
`_live` runs have smaller instances, for the sake of liveness.

Bounds. The scheduler's queue is bounded by the notifications, and two per module are the
fewest with an order and with a gap (one message dropped during a stop, the next
one accepted after it). Nested synchronous notifications, as `upgrade` makes them from
within its `assign` (`upgrade_interface.cpp:392-428`), several callers of `stop` and any
number of messages are covered by the theorems below. In `scheduler_live` there are also
notifications that are not counted (`NotifyMore`): a module sends them for ever, up to two in
the queue at a time (`MaxQueue`), so that the loop always finds another message until
`push_module_message` drops them because of the stop.
Seven pushes go nearly twice around a ring of four slots, which is full with
three items. Two producers include the case of one. In `event_loop` all queues fill up: a queue holds one message less than
it has slots, and two notices and four requests are enough for the worker to wait for room in
the connection's queue while the service thread waits for room in the worker's, for a second
message behind the one being written, and for the connection to close over a request that
is taken, queued or not yet dispatched. With several workers the run would be out of reach at
these bounds; the four safety theorems hold for any number of workers, connections and callers.
Four connections in
`rpc_server` are the
engine's permanent one and three requests, so an answer can come late by one or by two
requests, or reach the engine's next life. Nine lines fill all of `Logger`'s files and
rotate them again. Two faults in
`upgrade` let a step fail and its revert too, or a step that is not looked at and a later one. A snapshot and an action are in different
databases, of which one waits for the other; four handles are one more than
there are reports, for a row that is taken twice after a failing wait. Three tasks
overflow a queue of two, also behind a stored one.

Deadlock. The check is on for the scheduler, the loader, the ring buffer, `Uploader`
and `SysTask`, whose only states without a real step are explicit ends. It is off
for the others: their servers may be gone, stopped or crashed, clients and the
centre need not ask anything, and the bounds on lines and releases end a behaviour.
What must go on there is stated as liveness instead.

Fairness. `Scheduler`: weak fairness for `PushEnd` (a thread in its critical section is
scheduled), for the main thread's steps and for each caller of `stop` once it has
begun. This contains the assumption that `assign`, `stop` and, on the main
thread, `run` return, which the scheduler depends on by design. Nothing is
assumed of isolated modules: they need not notify and their `run` need not end.
Nobody has to call `stop`. `EventLoop` and `RpcServer`: every thread is scheduled, and a
peer eventually reads what it is sent; nobody has to send anything.
`CenterAgent`: `run` goes on, `assign` leaves its critical section, and the
mutex is not withheld from `run` for ever (strong fairness of `FinishTask`).
`Upgrade`: a script that has been started is executed. `Uploader`: the upload thread
runs, transfers end (they have a timeout; strong, because they only make progress
within `curl_multi_perform`), address and token arrive some day, and the
server does not refuse a report for ever (strong fairness of `Succeeds`), without which
the row on top of the database holds up all others. `SysTask`: the loop runs, and a
crashed process is started again.

### Exceptions that the properties make

Where the code does less than a reader of it would expect, the model has it too, and
the property says under which condition it holds.

* `rpcsrv`, `file_monitor` and `upgrade` add the logger's bit to the category they
  send requests and results with (`implements.cxx:124`, `interface_monitor.cpp:527`,
  `upgrade_interface.cpp:219`). The lookup by exact category then finds no rule of
  `etc/customize_edr.xml` and uses the declared types, whose rules are repeated because
  `load_module` reads the types of all modules again after each load. A request
  reaches `file_monitor` and `upgrade` several times and `center_agent` never.
  `RoutedByEntriesOrDeclarations` is about the mask that is sent.
* A module whose `run` returns `MODULE_FATAL` is destroyed on its own thread with no
  lock, while the main thread may be inside its `assign` (`scheduler.cxx:505`); and
  `stop` called after the loop has ended waits for ever. No property claims otherwise.
* `load_tunnel` pushes stored tasks on the statistics thread while `assign` pushes new
  ones on the scheduler's, into a buffer made for one writer: what is checked and proved
  of `RingBuffer` beyond its types assumes `SingleWriter`.
* The service thread spins until a worker's queue has room, the worker until a
  connection's queue has, which only the service thread empties. `StopReturns` of
  `EventLoop` excepts exactly that state (`EveryoneWaits`), which the run reaches and in which
  both stay for ever, and a failing `lws_service`, after which nothing resets the flag. A stop on request ends the loop when its last
  turn wrote nothing, not when nothing is queued.
* `p_connection` is read before the lock is taken and only that copy is tested under it
  (`libwebsockets_server_eventloop.c:1002`), so a queue may be used after it was freed;
  the workers' contexts are freed without a join; a connection refused during a stop
  has no object. The model stops with a `fault` there, and the properties are about
  what happens before.
* All engines count their ids from 0 and share one map, so two of them get each other's
  answers; `OwnAnswer` is for one engine, until it dies.
* A heart beat reads id and result without the mutex, so it may report a pair of two
  tasks; no property claims otherwise. The result of a re-login is ignored, so a loss of the
  login may be announced twice; `TokenTakenBack` bounds what is announced from the other
  side. A lost or refused logout leaves `stop` waiting: `StopReturns` is about a centre
  that has not forgotten the node and no request lost since. A `stop` that comes after
  `run` has ended never returns, and that is the one that `destroy` makes after another `stop` has
  returned (`center_agent.cpp:443`); a second call may also set the flag again before the first
  has seen it reset. `StopReturns` says nothing of the one and excepts the other.
* The results of `rm`, `mv` and `cp` are not looked at. If the `mv` that makes the backup fails
  and the download too, the revert moves the only installation away
  (`upgrade_daemon.sh:63`, `:36`); if the revert's own `mv` fails, the directory is missing or
  the library is. `InstallationSurvives` and `LibrarySurvives` are about failures that the
  scripts look at, in any number, or about one that they do not look at, alone; `RunsAgain` is
  about one failure of either kind.
* A failed download of the version file exits with 255 and only 1 counts as failure, so
  an old file decides; `NoDowngrade` is about runs in which nothing fails. `tok` repeats the last
  token, so 1.2 counts as 1.2.2; the versions have three tokens. One script writes the versions
  of both components, and the library's script does not look at whether the daemon
  starts, nor starts it after a failure; `RunsAgain` is about the daemon's own upgrade. A script
  that is run again after a crash removes the library's backup, so `LibrarySurvives` is
  about runs without a crash.
* The record of a task has no database; when it cannot be sent, a null pointer is used
  (`uploader_edr.cpp:84`), which ends the process. The destructor deletes the databases
  with what is still to be sent, and so does a start that cannot open a database or create
  its table (`cache_to_sqlite.cpp:77-96`, `:167`); `CachedKept` excepts these two. A report whose transfer cannot
  be started is dropped; `EventuallySent` excepts it.
* A task that does not fit into the queue is reported as done, and a stored setting that
  is queued behind a newer one wins; `ReportedIsDone` and `LaterTaskWins` except these.
* A stop or a crash loses what is only in memory. `tunnel_output` removes a file when it reads it
  back (`tunnel.cpp:100`), so until the task has come through the queue and is stored again
  the setting is nowhere else; and the loop ends without draining the queue, whose tasks, reported
  as done, `destroy` frees (`sysinfo_statistics.cpp:2654`, `:2795`). `StoredIsApplied` and
  `ReportedIsDone` make this exception (`Lost`: the loop has ended or the process is down, and
  the task is in no file). A crash after the task was stored is not excepted: the next start
  must apply it.

## Proofs

`SchedulerProofs` holds for all sets of modules, categories and ids, all rule
tables, any number of threads and all bounds, from the assumption in `Scheduler`
that the constants have their types and the kinds of threads are distinct.

`Inv` is inductive. Beside the types it says
  * `PopFindsMessage`: only the main thread takes messages off the queue, and a
    push that was seen early ends before the lock is free;
  * `ControlInv`: the loop is left exactly when `continued` becomes false, and a
    stop flag that has been taken back while someone waits means the loop has ended;
    without it `StoppingAfterLoop` is not preserved by `StopWaited`;
  * `FlowInv(m)` for each module: the queued messages of `m` are in the order of
    their numbers and have no gap, they follow those already dispatched, and the
    one being pushed follows the last queued one; and as long as no stop is
    pending, none has been dropped. All this holds while the loop runs. It is what makes `DispatchedIsPrefix` inductive: a
    gap needs a message accepted after one was dropped, and that happens only
    after the loop has ended.

From it follow `TypeCorrect`, `PopSafe`, `PrefixDispatched` and `StopsAfterLoop`.
`Inv` was checked by TLC on small instances, with one and with two callers of `stop`,
before it was proved.

`RingBufferProofs` holds for every size of at least two, any set of producers and any
number of pushes. `TypeCorrect` needs nothing else; `SlotsApart`, `Implements` and
`NothingLeaksHolds` assume `SingleWriter` (a lock, or one producer), which the queue
of tasks lacks. The invariant says that a producer in the middle of a push is alone,
keeps the room it has found and has written its slot, and that a consumer in the middle
of a pop keeps its item. The refinement maps the queue to the slots between the
indices; the lemmas `ContentAppend` and `ContentTail` say what moving an index
does to them, in terms of the arithmetic of `index_format`. `NothingLeaks` speaks of
the end only; `LeakInv` adds where an offered item is before that (`Accounted`), that
what was accepted and has not come out is counted by the indices (`Balanced`), and that
`ring_buffer_clear_destroy` runs alone (`Cleared`).

`EventLoopProofs` holds for any number of connections, workers, callers, requests and
notices, any capacity of the queues and both kinds of stop. `HeldStateAlive` and
`StateReclaimed` compare the heap with the holders, the code only has a counter, and
what connects them is `CountInv` (the counter is the number of holders), which is
preserved because a request gives back a reference that is its own and still there
(`HeldInv`) and gives it back once, since it is in one place only (`OnceInv`: with the
service thread, in one worker's queue, or with one worker). `OwnInv` is the connection's own reference
until `callback_close` drops it; `StopInv` keeps the thread that destroys the
server and the service thread from closing the same connection. `WakeupNotLost` needs
no more than that. `RequestsRelease` is `Released`, with the types. Since all steps of
a thread on a connection touch little of this, the proof first reduces each action to
what it may change (`Kinds`, `Frames`) and proves the conjuncts from there.

`RpcServerProofs` holds for any clients, connections, notices, copies of a request and
crashes. The table is keyed by the id, so what can be said for any number of clients is
`AnswerHasTheIdHolds`: an entry names a connection that asked with its id (`Filed`), and
messages, answers and the target of a response carry the id of the request they are
about (`Routed`). That it is the client's own answer (`OwnAnswerHolds`) assumes
`OneClient`, because two engines both count from 0, and then uses that the ids of one
life are distinct (`Distinct`). `TableIsCurrentHolds` needs to know that an answer, and the
end of a connection whose peer waits for its answer, come after the worker has
registered it (`Current`), which a peer that dies breaks.

The second part of `SchedulerProofs`, about `ModuleLoader`, holds for any modules, settings, entries, commands and messages, from
the assumption that settings and entries have their types and that no module is set
twice, and from `CategoriesAssumption` (categories are bit numbers). Both properties count
something that the code builds by appending, so the invariant does not count but
compares: `InOrderOfLoading` says that a list holds exactly the loaded modules with its
bit, each once and in the order of loading, and `Tabled` that there is a bijection between
the places of a row and the rules of the reference, which takes a place to a rule for
the same category. A load keeps the old part of that bijection (`RulesGrow`: no rule of
the reference goes away, and the new ones are those of this load) and adds a new one:
readings are in bijection with the rules of the load (`ReadingsMakeRules`, since a module
is once in the list of each of its bits), and places with readings because `InTurn` visits
every element once whenever the order is a strict total one (`InTurnVisits`, by ranks).
Counting comes last: `SameCount` for a row, and `CallsByRules` for the calls to a module, one
for each rule that reaches it. `RoutedInv` says that the last message went where the
tables send it, which stays so because nothing is routed before they are complete.

`ModuleProofs`, the logger: for any numbers and lengths of files, any lines, faults and
crashes. `KeepsTheNewest` is `InOrder` (the lines of a file, and of the files from old to
new, ascend) and `Newest` (with a line, all later ones are held), and is inductive with
`RoomInv`: at each place of `assign` the file that comes next has room, and a rename never
goes onto a file that is in use. `DropsOnlyWhenFull` needs `FullInv`: without crashes
and failures there is no gap among the rotated files other than the one that `loop_rotate`
is moving towards the current file.

`ModuleProofs`, the agent: for any tasks and any number of messages lost. `ResultHasTask` is
inductive with `AssignInv` (the result that `assign` has stored is still there when the
task follows it, because of the mutex), `StoppedIsLoggedOut` with `StopInv` (`run` goes
to the logout only while the flag is set, and only a logout that succeeded, which ends `run`,
takes it back, for whichever caller of `stop`), `TokenTakenBack` with `TokenInv` (each login comes after the last one
was declared void).

`UpgradeProofs` holds for any released versions and any number of faults and crashes.
`InstallationInv` says at which place of which script the startable installation is the
directory and at which the backup, in two conjuncts, because the two cases of the properties have different
reasons: while `rm`, `mv` and `cp` do their work (`Unfailing`) every failure leads
to a revert that finds the backup where it was put; where one of them fails and nothing else does
(`Failing`), no command leads to a revert except a daemon that does not start, and then the
backup is whole. `LibrarySurvivesHolds` assumes `LibInPackage`: the
package of the daemon has a library in it, because the new directory is made from the
package alone. `LibraryInv` does the same for the library. `VersionInv` says that a
version file is right about the daemon beside it and that the daemon's script only runs
for a newer version, from which `NoDowngrade` follows by the order of versions.

`UploaderProofs` holds for any reports, handles, faults and ends of the process.
`DeliveredOnce` needs `QuietInv`: a report is in one place, and `active_cb` looks for a
row only when none is being transferred, because the inner loop of `priv_run_upload` has
read the end of every transfer. `CachedKept`, an action property, needs `SentInv`: a row is
deleted for a transfer that ended well, and that one has delivered its report; every other step that
takes a row away is one of the two that the property names.

`SysTaskProofs` holds for any commands, capacity, tasks, faults and crashes.
`InEffectIsStored` is inductive with `StoreInv` (what is about to be applied is in the
file) and `HandInv` (nothing is in effect before the files have been read back).
`LaterTaskWins`, an action property, needs `OrderInv`: a queued task that was not read
back is later than everything in effect, in the files that are still to be read, and
before it in the queue.

The inductive invariants were checked by TLC on the instances of the runs before they
were proved. The provers treat Boolean variables and arithmetic apart, so several
modules keep the types of the Boolean variables in a definition of their own
(`Flags`, `Booleans`) and put `TypeOK` together at the end.

Every safety property that a run checks, invariants and action properties, is stated by one
of these theorems. Only model-checked: the liveness properties, because fairness is out of
the prover's reach.

## Not modelled

Within the modelled parts: the text of messages and logs; failures of `malloc`,
`pthread_create` and of the spin lock's initialisation; the XML parser and its
fixed buffers; the stray rule that `start_cb` adds under an empty key; the mode of
the event loop without workers, which `rpcsrv` does not use; the framing of bytes
on a connection; the content of assets and reports; the node's status and the
reports of `center_agent`; how the statistics of `stap_edr_monitor` are computed;
the race on the tree of `std::map` in `OnClose`.

Whole parts: the thread pool of `rpc_client`, an adopted library whose server no
program of the repository uses; the Huawei uploader, one archive per run without a
retry; the SystemTap readers and the scanning modules, which read files and notify
(their threads and notifications are in `Scheduler`); rules, white list and
histories, which are string matching on one thread; `rpc_message`, a pure encoding;
`vc_client` and `vc_server`, which no shipped configuration loads. By far the most
lines of the repository are vendored (protobuf, curl, expat, openssl, sqlite, json)
or generated, often in several copies; the program's own logic is a small part of
it, and the map is about that part. `PROJECT.json` has the reason for each.

## Plan

1. *Done:* routing and loading, the scheduler, the ring buffer and its abstract
   queue, with their theorems.
2. *Done:* the event loop, the request server and its clients, the centre's agent,
   the logger, the upgrade, the uploader, and the tasks across a restart.
3. *Done:* theorems for every safety property of every component.
4. Not begun: the statistics pipeline between the ring buffers and the uploader, and the
   Huawei uploader.
