# icsw: a TLA+ model of the cluster's daemons

icsw (init.at Clustersoftware) is a set of Python daemons that control and
monitor a cluster. On every machine a *meta-server* keeps the other daemons
where the administrator wants them. If it is wrong, everything else stops or
never comes up. The project therefore starts with it, and goes on with the
frame all daemons share (processes, messages, timers) and with two of the
protocols built on it: package installation and the distribution of monitoring
configurations. This file is the inventory of the system, the guide to the modules, the account of what is
checked and proved, and the plan for what is left.

Paths are relative to `src/initat/` unless they start with `src/`.

## 1. Inventory

| Component | State | Operations | Hard behaviour | What makes it correct |
|---|---|---|---|---|
| service decision tables (`meta_server/servicestate.py`, `icsw/service/container.py`) | none | `ServiceActionState.get_action`, `ServiceContainer.decide` | two tables written independently | an action leads to a state the action table keeps |
| meta-server state machine (`meta_server/servicestate.py`) | sqlite tables `service`, `state`, `action`; dictionaries of targets, ignore flags and last states; locks; dependency problems; shutdown flag | `update`, `handle_command`, `transition_finished`, `sync_with_instance`, `enable_shutdown_mode` | caches, stale observations, clocks and limits, lost transitions | caches equal the database; targets are reached; healthy services are left alone; a hopeless service is disabled |
| meta-server event loop (`meta_server/server.py`) | list of transitions, transition timer, exit flags | `_check`, `_handle_transition`, `_new_transitions`, inotify events, commands, `_sigint` | signals abort handlers; flags used after they changed | no stranded transition; a server told to stop stops its services and ends |
| service transitions (`icsw/service/transition.py`) | remaining steps, time of the wait | `step` | decided once, carried out seconds or minutes later | does not hit a service that has come back |
| service checks and actions (`icsw/service/service.py`, `container.py`) | none of its own: processes, MSI blocks, rc scripts | `check`, `start`, `stop`, `cleanup` | processes run on between the check and the action | the state reported is the state found |
| instance files (`icsw/service/instance.py`, `src/opt/cluster/etc/servers.d/*.xml`) | dependency relation, `wait_time` | load, `get_start_dependencies`, `get_stop_dependencies` | unknown or circular dependencies | start and stop relations are converse |
| process and timer framework (`tools/threading_tools.py`) | timer list, processes, message buffers | `register_timer`, `_handle_timer`, `loop`, `process_pool` start, stop and exit | the timer list changes while it is walked; children end at any time; asynchronous exceptions | no timer lost or doubled; one ordered queue per process; exit waits for the processes |
| monitoring configuration server (`md_config_server/`) | build processes, version, open rows of the distribution | rebuild, `start_build`, `end_build`, `sync_slave`, reload | one process per slave, nothing orders them | every configuration built is asked to be distributed |
| monitoring configuration sync (`md_sync_server/`) | version, files and acknowledgements per slave | send, store, report, reload, register | late, lost and repeated reports; files written while they are read | called distributed only when the slave has the files of that version |
| package installation (`package_install/`) | command queue, running command, send buffer | batches, commands, reports, resend, retry | link failures, restarts, commands that hang | one command at a time; the server's record is right in the end |
| host monitoring (`host_monitoring/`) | open connections, pending requests, blacklists | connect, send, answer, timeout | a late answer races the timeout | every request is answered once, by its own answer |
| cluster server (`cluster_server/`) | background jobs in the database | create, dispatch, finish, time out | jobs of dead servers | a job ends once |
| mother, md-config-server, cluster-config-server, collectd, rrd-grapher, rms, discovery, SNMP relay, log and report servers | mostly the Django database and files | data transformation around external programs | little control of their own | not modelled, see section 7 |
| database models, web frontend (`cluster/backbone`, `cluster/frontend`) | the Django database | declarations, views | none of the kind a model checker reaches | not modelled |

How the parts of service control interact. The meta-server is one thread that
runs `process_pool.loop()`. In each turn it runs the due timers and then serves
the sockets (commands of `icsw service`, inotify). Its handlers are called from
there and never run in parallel. `_check_processes` lets the container check
the services, passes the results to `ServiceState.update`, and turns the list of
actions it gets back into `ServiceTransition` objects. Each makes its first step at once. The
unfinished ones are stepped by a 5 s timer, which exists only while there are
any. Three things cut across this:

* the **processes** run on while the server is between its check and its action;
* a **signal** raises an exception (`threading_tools.my_error`) in the middle of
  whatever the server is doing. SIGINT and SIGTERM are registered and lead to `_sigint`;
  SIGHUP, SIGALRM and SIGTSTP raise as well (`threading_tools.py:1332-1353`), and the meta-server,
  which has not registered them, logs them and goes on without the rest of the handler;
* the **database** survives the server, its dictionaries, locks and transitions
  do not.

The hazards this gives are listed in `PROJECT.json` at the line where each bites.

The other modelled parts run on the same frame. Every server has a main process
and child processes, each with its own loop; they exchange messages over 0MQ
ROUTER sockets, and a message to a child that is not connected is buffered. The
package client is a main process (network) and an install process (commands). A
monitoring configuration passes through four: the build processes and the syncer of
md-config-server, the md-sync-server of the distribution master, and the
md-sync-server of the slave.

## 2. Modules

| Module | Models | Kind |
|---|---|---|
| `ServiceActions` | the action table `init_sas`, `run_state`, and the step table `decide` | pure |
| `ServiceCycle` | one service under both tables, no time | state machine |
| `ServiceCycle_proofs` | theorems about `ServiceCycle` | for TLAPS |
| `ServiceHistory` | one service with a clock: rows of `state` and `action`, stability rules, lock, automatic disabling | state machine |
| `ServiceHistory_proofs` | theorems about `ServiceHistory` | for TLAPS |
| `MetaServer` | all services, their dependencies, commands, signals, crashes and restarts, shutdown | state machine, the core |
| `MCMetaServer` | instances of `MetaServer` | for TLC |
| `ServiceControl` | one order at a time for each service | abstract specification |
| `MetaServer_proofs` | theorems about `MetaServer`, among them that it implements `ServiceControl` | for TLAPS |
| `TimerBase` | the timer list and the callbacks of meta-server, host-monitoring and mother | state machine |
| `TimerBase_proofs` | theorems about `TimerBase` | for TLAPS |
| `Selection` | the elements of a list that fulfil a condition | pure, used by `TimerBase`, `ServiceHistory` and `PackageClient` |
| `Selection_proofs` | induction over the naturals, and lemmas about `Selection` | for TLAPS |
| `Mailbox` | one ordered queue per process | abstract specification |
| `ProcessPool` | `process_pool` and its children; implements `Mailbox` | state machine |
| `ProcessPool_proofs` | theorems about `ProcessPool`, among them the refinement | for TLAPS |
| `PackageClient` | package client, its link, and the record of the server | composition of three processes |
| `PackageClient_proofs` | theorems about `PackageClient` | for TLAPS |
| `MonSync` | build processes, syncer, distribution master and slave | composition of four servers |
| `MonSync_proofs` | theorems about `MonSync` | for TLAPS |
| `MCProcessPool`, `MCPackageClient`, `MCMonSync` | instances | for TLC |

`ServiceHistory` and `MetaServer` look at the same code with different data. `MetaServer`
keeps several services and every interleaving and leaves the time open: what
the code compares times with has a variable (`settled`, `locked`, `late`,
`recent`, `streak`) that changes in an action of its own, at any moment the
clock allows. `ServiceHistory` keeps one service and counts time, to see what
the thresholds do together.

### MetaServer: state

| Variable | Code |
|---|---|
| `proc` | processes and MSI block of a service. `dead`, `starting` (no MSI block yet), `up`, `partial`, `stopping` (got SIGTERM), `crashed` (MSI block without process) |
| `env` | configured state and licence state of the last look-ups |
| `dbTarget`, `dbIgnore` | columns `target_state` and `ignore` of table `service` |
| `streak` | number of newest `action` rows that are starts within `TRANSACTION_WINDOW`, up to 3 |
| `settled` | services for which `_check_for_stable_state` returns True |
| `targetDict`, `ignoreDict`, `stateDict` | `__target_dict`, `__ignore_dict`, `__state_dict` |
| `locked` | unexpired entries of `__transition_lock_dict` |
| `startProblem`, `stopProblem` | `__dependency_problems` |
| `recent` | services in `__throttle_dict` younger than 5 s |
| `shutdown` | `__shutdown` of ServiceState and `__exit_process` of the server, set together in `_sigint` |
| `transitions`, `timer`, `first` | `__transitions`, `__transition_timer`, `__loopcount == 0` |
| `stranded` | history, no variable of the code: services whose transition lost its timer because a signal ended `_new_transitions` between the `append` and the arming |
| `pc`, `job`, `todo` | where the server is in `_check_processes`, its arguments and what its caller does next, and the rest of `trans_list` |

### MetaServer: actions

| Action | Code |
|---|---|
| `Check`, `InotifyEvent` | timer `_check`; `_update_or_create_msi_by_file_name` and `_delete_msi_by_file_name` |
| `Update` | `check_system` and all of `ServiceState.update`: observation, stability, throttle, dependencies, lock, `_generate_transition`, `post_disable` |
| `NewTransition` | one turn of the loop in `_new_transitions`: creation, first `step`, possibly `transition_finished` |
| `NewTransitionsDone` | the arming of the timer and what follows the call: return, exit, or the end of `_sigint` |
| `HandleTransition` | `_handle_transition`, its forced check as a continuation |
| `EnableCommand`, `DisableCommand`, `MonitorCommand`, `IgnoreCommand` | `handle_command` with reload of the dictionaries and the forced check |
| `NextStopIsRestart`, `InstanceEvent` | the command of that name; `sync_with_instance` |
| `AbortHandler` | the exception of a signal: the handler ends, the rest of its list is lost, locks and appended transitions stay |
| `Sigint` | SIGINT or SIGTERM in any state, with its four outcomes |
| `Sighup` | SIGHUP, SIGALRM or SIGTSTP in any state: `handle_exception` knows no handler, the loop goes on |
| `Kill`, `Boot` | the server dies; a new one is started on the same database |
| `Started`, `Ended`, `Crash`, `Reconfigure` | the world |
| `Settle`, `LockExpires`, `WaitExpires`, `ThrottleExpires`, `WindowMoves` | the clock |

A handler is cut into steps where it looks at the processes again or where a signal
makes a difference. `Update`, one step of `_new_transitions`, and
`HandleTransition` are each one step. A signal inside one of them is not
distinguished from one before or after it. What is lost by this is listed in
section 6.

`ServiceControl` says the same without targets, observations, locks, timers and lists: each service has
its processes and at most one order. `Control == INSTANCE ServiceControl WITH ...` reads the order from
`todo` (not begun) and `transitions` (begun), and takes a server that does not run to have
none. Services in `LongWait` are left out, because overlapping transitions give them two. A service in
`stranded` is `adrift`: nothing is promised about it until the server is started anew. `adrift`
grows only in the step of a signal (`Drift`), and only by services with an order.

`LockExpires` lets a lock time out at any moment, with one restriction: a transition that is stepped by the
timer from its beginning and waits for less than `LOCK_TIMEOUT` is over before its lock.
`ServiceHistory` derives this from the times (`OneTransition` there). It does not apply to services in
`MayOverlap`: those with a longer wait, and the stranded ones, whose transition nobody steps. `wait_time`
and the lock then run out independently of each other.

### ServiceHistory

All times are ages in ticks. `records` are the rows of `state` (newest first),
`starts` the ages of the newest consecutive start rows of `action`, `lock` the age of the
lock, `waits` the transitions that wait for processes. `Stable` has both
comparisons of `_check_for_stable_state` in the order of the code. `Tick` is
refused while a timer is overdue, so the periodic check and the 5 s step happen at
every possible phase and never late. `depsOk` stands for the other services. At the end of the last
transition of the server a dependency problem, of this service or of another one, forces a check past
the grace time (server.py:290-292): a branch of `HandleTransition` if the transition is this
service's, `DependencyCheck` if it is another's. Both count as outside events, since the other services are outside.

### TimerBase

`register_timer` appends to the list in place, `unregister_timer` replaces it, and
`_handle_timer` walks the list it found and stores a new one at the end. `list` is
`__timer_list`, `walked` the list of the walk, `shared` whether they are still the same
object, `fresh` the new list. A *view* is what a callback can change. `Outcomes`
and `HandlerOutcomes` are what the callbacks and message handlers of the three
daemons do to the timers, with the flags and lists (`want`) they decide by. `Abort`
is the exception of a signal between two callbacks. The package client is a fourth daemon with a timer of this
kind: `_set_resend_timeout` unregisters and registers the timer in its own callback, which is what `trans` of
the meta-server does in the model.

### ProcessPool and Mailbox

| Action | Code |
|---|---|
| `Top`, `Timeout`, `Check` | a turn of `loop`: stop processes, poll, leave |
| `HandleStart`, `HandleExit` | `_process_start_zmq` (flush), `_process_exit` (count, join, remove) |
| `InterruptedExit`, `RequestExit` | a signal of any kind during the join, which requests the exit or not; SIGINT and SIGTERM elsewhere |
| `Submit`, `Redirect` | `add_process` with `send_to_process`; a message between children |
| `Connect`, `Receive`, `SendExit`, `End`, `Crash` | the life of a child |

`Queues == INSTANCE Mailbox WITH queue <- ...` maps socket and buffer of a process, in this
order, to its one queue, and the living children to `living`. `OrderedDelivery` is `Mailbox`'s
specification under this map. `interrupted` counts the joins a signal cut short: each leaves the counter
one lower than the table.

### PackageClient

| Action | Code |
|---|---|
| `CommandBatch`, `PackageList`, `HandlePendingCommands` | a batch is stored; taken up once no command is left |
| `ProcessCommands`, `CheckCommands` | the next command starts; `_command_done` for a finished pre, main, post or refresh command |
| `PdcDone` | the report, and the retry for an outdated repository |
| `Expire`, `StrayEnds` | `max_run_time` is over; the external command runs on |
| `SendReport`, `CheckSendBuffer` | sending, buffering, resending |
| `Greeting`, `ClientStart`, `Restart`, `ConnectionOkTest` | the requests after a start |
| `LinkDown`, `LinkUp`, `Order` | network and administrator |

The output of the package tools is reduced to what `interpret_response` reads from it
(`shown`), and a package is installed or not. `ServerTakes` is what the server does with a message, and it may refuse any of
them (`EC.consume`, `package_install/server/server.py:357-360`): a refused request comes back with an
error, a refused report is lost. `doubt` is history: packages whose record may be wrong, and why (`overtaken`,
`refused`, `retry`, `stray`).

### MonSync

`master` and `worker` are the build processes of the master and of the slave, `row` the
open `mon_dist_slave` row, `source` the slave's files on the distribution master, `dist` the
slave's entry there (version sent, `dist_ok`, files and which are created), `slave` its
files, what its daemon loaded, its `FileInfo` and its registration. The content of a file is
the build that wrote it. `HandleSyncSlave` reads the files in one step but between the
writes of a build that may be going on. A file in `large` exceeds `MAX_SEND_SIZE`; `SyncSlaveAborted` is the
handler with such a file: it has set `dist_ok` to False and entered a part of the files when
the call of the missing `self._send` (sync_config.py:610) ends it, and nothing is sent.
`ReloadAfterSync` only sends SIGHUP (`slave.hup`); `DaemonReads` is the daemon reading the directory, at any
later moment, also between `clear_directories` and the files. `sent`, `unsynced` and `unsent` (the last distribution
was given up) are history.

## 3. Runs

| Run | Question | Bounds | Result |
|---|---|---|---|
| `service_cycle` | do the two tables fit together, on every tuple? | none: all tuples, both kinds of service | holds |
| `history` | lock, number of starts and flapping at every phase of the timers | one outside event | holds |
| `hopeless` | is a service that never comes up disabled in the end? | two outside events | holds |
| `services` | caches, timer, lock, healthy services under crashes, commands, signals of both kinds, kills, restarts and changed instance files | 2 services, one slow, stopped asynchronously and needing the other, which is stopped synchronously; 2 events | holds |
| `overlap` | `wait_time` longer than the lock: do overlapping and stranded transitions converge, does the server end? | 1 service, 3 events | holds |
| `converge` | are transitions lost with a killed server made up for? | 2 services, one throttled, 2 events | holds |
| `timers` | is a timer lost or doubled by what callbacks do to the list? | 3 daemons, 4 timers | holds |
| `pool` | are messages lost or reordered, is a child left, does the server end? | a worker and a permanent process, 3 jobs, 2 faults | holds |
| `package` | one command at a time, nothing left lying, right record? | 1 package, 2 package tools, 1 order, 2 faults | holds |
| `mon_sync` | does a configuration arrive, and is it called distributed only then? | 2 full builds, 2 files, one that a build may remove or make too large, 1 fault | holds |
| `shutdown_hang` | does a server told to stop end? | 2 services, 1 signal | **violated** |
| `mon_reload` | does the slave run what it was sent? | 2 builds, full or of some hosts, no fault | **violated** |

What the properties say:

* `OneActionSettles`: after the plan of `decide` has run, the action table keeps
  the service. A table that did not would start or stop it at every check.
* `StartsBounded`: the grace time after a start and the minimal age of the oldest start
  bound the starts of a dying service; a forced check, which knows no grace time, may add one, and it
  comes with a command, a restart of the server or a dependency problem at the end of a transition. The bound is
  claimed as long as `LIMIT 10` shows that many starts: with the thresholds of the code
  it is 8, so for up to two of these in the window. With a dependency problem that stays, forced checks follow
  each other and the code gives no bound.
* `FlappingIsSlow`: a service that has been seen running after its start is not
  started again by a periodic check before `STABLE_INTERVAL` is over. It
  also holds if the server, whose cached state decides whether a row is inserted, was
  restarted meanwhile. Each such restart adds a row; the property is claimed while the
  row of the running state is among the 10 newest (`events + 5 <= Rows`).
* `HopelessDisabled`: liveness, the automatic disabling is reached.
* `CacheCoherent`: dictionaries and database agree outside shutdown mode.
* `TimerArmed`: between handlers the timer is armed only if a transition waits, and a transition
  without it is one whose arming a signal cut off, in normal mode and in shutdown mode.
* `OneTransition`: one transition per service, if its wait is shorter than the lock and no signal took the
  timer from it.
* `HealthySurvives`: a complete service is stopped or killed only if the last
  observation asks for it, so no stale list, plan or cleanup hits it. Services whose transitions may overlap are
  excepted, because there it happens (section 4).
* `OrdersKept`: refinement of `ServiceControl` by the services that wait for less than the lock.
  A service has one order at a time; it is begun with SIGTERM before anything is killed,
  carried out as it was given and never on a service that has come up meanwhile, and, once
  begun, ends only that way or with the server. Signals withdraw only orders that have not begun, or
  set the service adrift when they cut off the arming of the timer.
* `Converges`: liveness, once nothing happens outside any more, every monitored
  service gets to its target and stays there, or waits for one that is not where it is
  needed.
* `ShutdownCompletes`: liveness, a server told to stop ends. `MetaServer` and
  `ProcessPool` each have one. The second names the three ways in which the code can
  hang, and says there is no other.
* `TimerKept`, `TimersExact`: a callback the daemon's flag calls registered has an entry
  after every pass, and, where a flag guards the registration, exactly one. A
  registration after a removal in the same pass lands in a list that is thrown away;
  only the clause for a callback that removed itself saves it, and the three daemons
  rely on it.
* `OrderedDelivery`: refinement of `Mailbox`. No message is lost, doubled or overtaken
  while its process lives; the end of a process drops a prefix of its own queue and nothing else.
* `CountExact`, `LeavesNone`: until the exit is requested the counter `loop` decides with is the number of
  processes less the joins that a signal cut short; the loop is left with no child alive unless an exit was
  counted twice in one of these two ways.
* `OneAtATime`, `NoStall`: the install process runs one command, and has one
  running whenever it has commands, since only the end of a command looks for the next.
* `RecordedState`: once all is quiet the server's record of a package is what is on the
  node, through failures of the link and restarts. The exceptions are named: a report
  overtaken by a newer one or refused by the server, a retry, a main command nobody waits for, a refused
  request.
* `Settles`: liveness, if the link stays up everything is worked off and reported.
* `DistOkSound`: a version called distributed is on the slave, whatever was lost, late
  or not written. If two builds share a version (it is the time in seconds) this is not
  claimed: reports name only the version.
* `Delivered`, `Acknowledged`: without faults the slave ends with the files of the
  distribution master, the distribution ends, and its row is closed, although
  `sync_end` does not say which distribution it ends. A distribution that was given up for the size of a file is the
  exception, and only as long as no other follows.
* `DirectoryWhole`: without faults no command comes between `clear_directories` and the files, so
  SIGHUP is sent only when the slave's directory holds one configuration. When the daemon reads is its
  own affair: a SIGHUP for the last configuration can be served after the next `clear_directories`.
* `SyncEnds`: liveness, a distribution to a registered slave ends unless there is a fault or it is given up.

Why the bounds are enough. Each service of an instance plays a role of the real
configuration (`src/opt/cluster/etc/servers.d/client.xml`): memcached (rc script,
needed by logging-server), logging-server (asynchronous stop, needed by
host-monitoring), host-monitoring (`wait_time` 300 s, longer than the 30 s lock).
The code treats services one by one except for dependencies, which relate
two. Interleavings of two services and two or three outside events
reach every handler in every state of the others. `MaxEvents` bounds only what comes
from outside: commands, signals, crashes, restarts. The server's own steps and the
clock are unbounded. In `ServiceHistory` the thresholds 5, 20, 30, 60 and 300 s and
the periods 5 and 30 s are scaled to 1, 2, 3, 4, 12 and 1, 3 ticks: their order,
equalities and the number of checks in a window relevant for disabling are kept.
In `TimerBase` a list of four timers has two entries more than any daemon's normal set, so
that a duplicate has room to appear. In `ProcessPool` names matter one by one except for
priorities, which relate two; three jobs are enough for a buffered message, a
direct one and one to a successor of the same name, and two faults for a crash and a signal.
`PackageClient` treats packages one after the other; batches of one package and the refresh
already overlap, and two faults combine a link failure or a restart with an outdated
repository or a refused message. `MonSync` needs two builds to overlap, two files to have one that stays and one
that a build removes or makes too large, and one fault of each kind. `mon_sync` has full builds only: a build of
some hosts differs in that it asks for no reload, and `mon_reload` has both. In `MetaServer` two events are enough for a
signal that strands a transition and a second signal, a command or an instance event that meets it; the lock and the wait
then run out by the clock, which is unbounded.
The passing runs reach between 639 (`service_cycle`) and 2.6 million (`history`) distinct states; `services` has
1.1 million, `mon_sync` 960,000, `package` 540,000, `converge` 320,000, `overlap` 270,000, `pool` 88,000.
`CHECK_DEADLOCK` is off in the runs of modules whose system really stops: a server that has
exited or was killed, a client or a distribution with nothing left to do and all bounds
used up. It is on in `service_cycle`, `history`, `hopeless` and `timers`.

Fairness (`Fairness` of `MetaServer`, `FairSpec` elsewhere).
`process_pool.loop` runs every due timer in every turn, so the two periodic
handlers are served in the end although others may come first (strong fairness,
because commands and events take turns with them), and a handler that has begun goes on
(weak). The clock runs, so locks, waits and stability expire. A started service
writes its MSI block unless it is in `SlowStart`. In `ProcessPool` the loop of the main
process and the loop of each child go on (weak fairness of each). In `PackageClient` and
`MonSync` each process goes on with its queue and its timers, and messages between hosts arrive
unless a fault takes them. Nothing else is guaranteed: no
inotify event arrives, no process need react to SIGTERM (`cleanup` kills it), no link
comes back by itself (`Settles` assumes it), and no outside event or fault happens.

## 4. What the code does that its comments do not say

Two runs show a disagreement with a sentence of the code; they are the `findings`.

1. `shutdown_hang`. `_handle_transition` reads the dependency flags (server.py:289),
   forces a check that may resolve the problem, and decides about the exit with the
   old flags (server.py:295). If that check stops the last service synchronously, no
   transition is left to arm the timer, and the exit is never requested.
2. `mon_reload`. The reload is sent with the end of the *master's* build
   (`md_config_server/syncer.py:220`), the files of a slave with the end of the slave's.
   The flag meant to delay it, `dist_ok`, is constant in the processes that test it. A slave can
   hold the new files and run the old configuration until the next full build. After a build
   of some hosts only (`some_master`) no reload is sent at all.

Others came up while modelling. The models contain them, and the properties above name
them as exceptions or are stated so that they hold beside them:

* meta-server: a signal between `append` and `_enable_transition_timer` leaves a transition without the timer. In
  normal mode this takes SIGHUP, SIGALRM or SIGTSTP, in shutdown mode any second signal. The lock expires after 30 s, the
  next check generates a second transition, and with it the timer is armed and the first one goes on, with
  a plan that is minutes old: a stranded stop kills the service that was started since. The next check heals
  this (`Converges`).
* meta-server: the same exception during the forced check of `_handle_transition` in shutdown mode leaves a server
  with no transition, no timer and no exit requested; if no service is left to be stopped it does not end.
* meta-server: with a *start* problem left over, the forced check of
  `_handle_transition` creates stop transitions and the exit is requested at once, so that
  services stay behind (server.py:297).
* meta-server: `enable_shutdown_mode` overwrites the targets in memory, and a change of an
  instance file reloads them from the database (servicestate.py:361): services are started in
  shutdown mode.
* meta-server: dependencies are judged by the last observed state only (servicestate.py:780).
  One check can start a service and stop what it needs.
* meta-server: the `elif` at servicestate.py:581 undoes the reduced time set at line 568.
* process_pool: any signal during a `join`, also SIGHUP, which md-config-server and md-sync-server use for a reload,
  leaves a dead process in the table and the counter too low. Later jobs under its name are buffered for ever, and at
  the exit the loop is left too early or, with the counter below zero, never.
* process_pool: a child found dead by `stop_running_processes` whose exit message is
  still unread, or a signal during `join`, is counted twice; a child that dies after it was told to exit
  and before its message is never counted, and `loop` does not end. A process added after the
  exit was requested, under a name that was told before, is not told again.
* process_pool: a job sent to a worker that has ended but is still in the table is lost with
  it, or kept for the next worker of that name.
* package client: a command that exceeds `max_run_time` is dropped without its `done`
  (`command.py:86`), so the queue of the client stands still until a restart; `terminate` does
  not end the external command.
* package client: after a retry the report is built from the first `main_result`, that of the
  first attempt (`installprocess.py:280`).
* package client: a new report is sent directly although older ones wait in the buffer
  (`server.py:219`), so the older one is taken last.
* package server: `EC.consume` is asked for every command. A refused `package_info` is lost, the client ignores
  the error, and the record stays as it was until the next list.
* monitoring: a lost `clear_directories` is not noticed and removed files stay on the slave; lost
  files are not sent again, because `check_for_resend` calls a method that does not exist. A
  request while the build processes run is lost, or leaves the slave's build waiting for a
  fingerprint. A slave that is told its master for the first time reports only after a restart.
* monitoring: a file larger than 64 KiB ends the distribution with an exception (`sync_config.py:610`) after `dist_ok` was
  set to False: nothing is sent, nothing ends it, the row stays open until the next distribution. If reports
  about an earlier send of the same version are still on their way, it may even be called distributed, which is
  why `DistOkSound` excepts it.
* monitoring: `_check_for_ras` sends SIGHUP and goes on. A daemon that is slow to serve it may read a directory that
  the next `clear_directories` has emptied.

## 5. Proofs

`MetaServer_proofs` proves, for every set of services, every dependency relation, every
choice of the other constants and any number of outside events:

| Theorem | Statement | Inductive invariant |
|---|---|---|
| `TypeCorrect` | `Spec => []TypeOK` | `TypeOK` itself |
| `CacheCoherence` | `Spec => []CacheCoherent` | `CacheCoherent` itself |
| `TransitionTimer` | `Spec => []TimerArmed` | `TypeOK /\ TimerInv` |
| `TransitionLock` | `Spec => []OneTransition` | `TypeOK /\ TimerInv /\ LockInv` |
| `HealthyServices` | `Spec => HealthySurvives` | `TypeOK /\ TimerInv /\ LockInv /\ HealthInv` |
| `Controlled` | `Spec => OrdersKept`, that is `ServiceControl`'s `Spec` | `TypeOK /\ TimerInv /\ LockInv /\ HealthInv /\ NewestInv` |

They use the three named assumptions of `MetaServer`: which services are simple, slow or
throttled is a subset of the services and no simple service waits
(`ServiceAssumption`); no service needs itself (`NeededAssumption`); the environment's
states are those of the constants and `MaxEvents` is a natural number
(`EnvAssumption`). TLC evaluates them in every run of `MCMetaServer`.

* `TimerArmed` is not inductive, because `_new_transitions` appends before it arms. `TimerInv`
  says what holds while it runs: a timer implies a transition, and outside `_new_transitions` a transition without a
  timer is stranded. `AbortHandler` is the only action that adds to `stranded`, and only if the timer is off, so the
  theorem says that no other interleaving loses the timer. Neither mode is excepted.
* `OneTransition` needs the reason: `LockInv` says that a service with a transition
  or on the list is locked, that a list names a service once, and that only services
  in `MayOverlap` (a wait longer than the lock, or stranded) can outlive their lock.
  `TimerInv` is needed because the lock may expire whenever the timer is off.
* `HealthySurvives` is an action property. `HealthInv` says that a waiting
  transition belongs to a service that has got SIGTERM (or is gone) and that a stop on
  the list is one the last observation asks for. With `LockInv` no second transition
  can have started the service meanwhile, so the cleanup at the end of a wait hits nothing healthy.
* The refinement maps `todo` to the orders that have not begun and `transitions` to those that have.
  By `LockInv` the two lists have at most one entry for a managed service (`Entries`), so its
  order is that entry (`OneOrder`). `Update` issues orders, `NewTransition` begins one, carries it out or
  finds nothing to do (`FirstSteps`), `HandleTransition` carries out the begun ones it goes on with:
  `NewestInv` says that the one it finds decides, `HealthInv` that the service has not come up.
  Everything else leaves processes and orders alone, withdraws orders, sets services adrift or ends the server.

`ProcessPool_proofs` proves, for every set of processes, all priorities, every choice of
workers and targets and any number of jobs and faults (assumption `PoolAssumption`: the
processes are finitely many, priorities and bounds are natural numbers):

| Theorem | Statement | Inductive invariant |
|---|---|---|
| `TypeCorrect` | `Spec => []TypeOK` | `TypeInv` |
| `Refinement` | `Spec => OrderedDelivery`, that is `Mailbox`'s `Spec` | `TypeInv` |
| `Counted` | `Spec => []CountExact` | `PoolInv` |
| `LeftNone` | `Spec => []LeavesNone` | `PoolInv /\ LeavesNone` |

* `TypeInv` adds to the types that a child that was started has a pid, which its messages
  carry.
* The refinement goes action by action: `SendMaps` shows that sending, with or without a
  buffer and before or after a flush, appends to the end of the queue; `EndMaps` that the end of
  a living child drops what was in its socket, the oldest part of the queue; `Receive` takes the
  head; all else leaves the queues as they are.
* `CountExact` needs to know which exit messages can be in the socket. `ExitsOk` and
  `ExitsOnce` say that, until the exit is requested, each belongs to the process in the table under
  its name, has its pid, and is the only one of it: so an exit is never counted twice, except by a signal during the
  join, which `interrupted` counts. `CountInv`
  is the same count without the exit flag, as long as nothing was counted twice; with it,
  `running = 0` means an empty table, which is what `LeavesNone` needs.

`ServiceCycle_proofs` proves `TypeCorrect` and `TablesFit` (`OneActionSettles`) for the tables as they are (there
are no constants). The lemma `Agree` justifies the compact `get_action`, which the proofs expand: on every tuple it is
`d_dict`, the rows of `init_sas` with the later ones winning. `RunPlan` is
recursive; `RunPlan1` to `RunPlan4` say what it does for plans of one to four steps, and `ActEffect`
follows each plan of `decide` to its end. `OneActionSettles`
is inductive together with `TypeOK`: a plan ends in `up` after a start and in `dead` after a stop, and
every change from outside resets `last`.

`ServiceHistory_proofs` proves, for all thresholds, periods and waits and any number of
outside events:

| Theorem | Statement | Inductive invariant |
|---|---|---|
| `TypeCorrect` | `Spec => []TypeOK` | `Shape` |
| `TransitionsAlone` | `Spec => []OneTransition` | `Shape /\ LockInv` |
| `StartsAreBounded` | `Spec => []StartsBounded` | `Shape /\ StartsInv` |
| `FlappingServicesWait` | `Spec => FlappingIsSlow` | `Shape /\ FlapInv` |

`TimeAssumption` asks for the order of the thresholds in the code: a start's grace (5 s) is not
longer than the minimal time in a state (20 s), that not longer than the stable interval (60 s),
which is within the window (300 s); the age at which the oldest start makes the service be disabled (30 s) is between the grace and the window; the
transition timer (5 s) is faster than the lock (30 s).

* `LockInv`: while a wait runs the lock is exactly as old as it is, and once it has run out the
  next `_handle_transition` comes before the lock ends. This is where the 5 s timer,
  the wait and the lock meet.
* `StartsInv`: between the newest start and the i-th there are i - 1 grace times, except
  for one start per forced check, which is an event. A start that finds more
  of them than `StartsBounded` allows finds an oldest one older than `DisableAge` and disables
  the service instead.
* `FlapInv`: if the service was seen running after its last start, the row that says so
  is still there and at most `4 + events` others are newer. The number of states the process
  may still go through before it is seen running again (`Coming`) is what makes this
  inductive. The first attempt at this proof failed for a good reason: without the
  hypothesis about `LIMIT` the property is false, since ten restarts of the server push the row
  out. The same holds for `StartsBounded`.

`TimerBase_proofs` proves `TypeCorrect`, `TimersAreKept` (`TimerKept`) and `TimersAgree`
(`TimersExact`) for any number of timers. `Inv` has three parts. `PassInv` is about the walk: as
long as the list is shared it is the walked one, and no entry of the new list has the id of one
that is still to come. `FlagInv` (meta-server, host-monitoring) says that a pass changes nothing:
at any time the list holds what the pass has kept and what it will come to, one entry for each
callback that is on. `MetaInv` and `MotherInv` are what the two daemons rely on: in the meta-server
`check` is the first entry, so that `trans` is registered while the list is still shared;
in mother `check` is wanted only until a callback unregisters it. A daemon that registers
a timer later in a pass, after a removal, would lose it.

`PackageClient_proofs` proves, for every finite set of packages, all orders, flavours and faults:

| Theorem | Statement | Inductive invariant |
|---|---|---|
| `OneCommand` | `Spec => []OneAtATime` | `RunInv` |
| `TypeCorrect` | `Spec => []TypeOK` | `Inv` |
| `CommandsGoOn` | `Spec => []NoStall` | `Inv` |
| `RecordsAreRight` | `Spec => []RecordedState` | `Inv` |

* `RunInv`: `_process_commands` is only reached with nothing running, and a running command keeps
  `package_commands` non-empty, which holds back the batches.
* `Work`: the running command belongs to the one element that is `init`, identifiers are
  unique and a refresh comes first. Otherwise `cur_com != hc_sc.data` would remove the wrong
  command, or none, and `NoStall` would fail. It also says that only zypper's packages are retried: with
  the other tools a package in the list has not been queried yet, which is why an
  expired command leaves no wrong report.
* `RecordInv`: for a package without doubt either a report is still to be made (`Coming`: it is in
  the list, or a package list is on its way or will be asked for), or its latest report is right,
  whether it is still to be sent, buffered or stored. "Latest" is the order in
  which the server would take them; a report that is sent past the buffer breaks this, and
  the model marks the package as doubtful there, and so it does for a report the server refuses.

`MonSync_proofs` proves, for every set of files, every choice of removable ones and any number of builds
and faults:

| Theorem | Statement | Inductive invariant |
|---|---|---|
| `TypeCorrect` | `Spec => []TypeOK` | `Inv1` |
| `ConfigurationsArrive` | `Spec => []Delivered` | `Inv3` |
| `DirectoriesAreWhole` | `Spec => []DirectoryWhole` | `Inv3` |
| `DistributionsEnd` | `Spec => []Acknowledged` | `Inv3` |
| `DistributedIsThere` | `Spec => []DistOkSound` | `Inv4` |

* `Inv1` adds that versions never outnumber requests, and `Inv2` (`SourceFull`, `QueueInv`) that
  whatever is on its way to the slave ends with what was sent last, to which `dist` refers.
* `Inv3`, without faults: files are always preceded by the clearing of the directories (`PairInv`),
  the slave has or will get what was sent last (`DiskInv`) and holds a whole configuration unless files are next
  (`WholeInv`); what was sent last is what the distribution master
  has unless a build is writing or the last distribution was given up (`SourceInv`), an unended distribution that was not
  given up has its files or a complete report on the way (`AckInv`), and an open row has a reason (`RowInv`).
* `Inv4`, with any fault: nobody has heard of a version whose files are still on their way
  (`Unheard`), and what the slave, a report or the distribution master says about a version is true of
  the slave's files (`Truthful`), as long as the version was sent once. The hypothesis is needed:
  `Unheard` fails when a second build has the version of the first.

How lists are reasoned about. Filtering a list is `At` of `Selection`, a recursive function,
and not `SelectSeq`. The library's induction rules take a predicate as parameter, which the provers
cannot instantiate. `Selection_proofs` therefore gets induction from the well-foundedness of
the naturals (`LeastNatural`, `SetInduction`: a set in place of the predicate). From it follow that the
recursion has a solution (`PrefixesExist`) and what `At` returns (`AtPicks`): an order-preserving
selection, without omission, of the given positions. `AtIndexed` and `AtElements` are what the proofs cite.
`TraceExists` of `ServiceCycle_proofs` is the same argument for plans.

All safety properties of the passing runs (invariants, action properties, refinements) are theorems. Only
model-checked are `Converges`, both `ShutdownCompletes`, `HopelessDisabled`, `Settles` and
`SyncEnds`: liveness under fairness is out of the prover's reach. The two runs that show a violation
have no theorem either. The inductive invariants were checked with TLC on the instances of the runs
(for `PackageClient` also with two packages) before they were proved.

## 6. Abstractions

* All services are observed in one step: `update_proc_dict` reads the list of processes
  once per check. The MSI blocks are read one after the other.
* Signals cut handlers off at the steps of the model. The second of sleep in `handle_exception` is no state of its
  own; a signal during it ends the server, which is `Kill`.
* A signal inside `Update` or `HandleTransition` is not modelled. In `HandleTransition`
  it would leave the old list, and a finished transition would be finished a second
  time; its lock is removed twice.
* Two transitions of one service that go on in the same `_handle_transition` are
  taken together: the first removes the processes the other waits for, the newest
  decides whether the service runs.
* `post_disable` also needs the oldest start to be more than 30 s old. `MetaServer`
  leaves this open (`MayDisable` may or may not disable); `ServiceHistory` has it.
* `MIN_CHECK_TIME` is taken to be at most the period of the timer, so that
  `_check` is not skipped for ever.
* Rows of the same second have no defined order in sqlite. `ServiceHistory` orders
  them as they were inserted.
* A simple service's rc script works synchronously and succeeds. A service that is not
  installed occurs in `ServiceCycle` only.
* The set of services is fixed. `sync_with_instance` can also add rows for new services
  and marks removed ones as inactive; only its reload of the dictionaries is modelled.
* The daemon `meta-server` itself is excluded, as in the call of `update`.
* `TimerBase` has no clock: an entry of the walk is due or not. Identifiers are reused
  when no entry has them any more. A flag and the registration it stands for are one step: a signal between the two
  statements of `_enable_transition_timer` would leave the flag on without a timer.
* `ProcessPool`: at most one child of a name is alive at a time (a bound on `Submit`);
  a child that does not end within the join timeout is killed there, which is the same step.
* `ProcessPool`: a child takes its messages one by one. The greedy variant (threading_tools.py:900-911), used by one
  process of host-monitoring, reads several at once and can run into an exception with an exit message among them;
  the child then ends as in `Crash`.
* Service control by hand (`icsw service start`), beside the meta-server, is not modelled. `HealthySurvives` and
  `OrdersKept` are about what the server itself starts.
* `PackageClient`: a message sent while the link is up arrives. `link` changes only between
  sends.
* `MonSync`: one slave; messages between the processes of one server are handled in the step
  that sends them; `sync_start`, which only writes times and counters, is left out; a message
  may be lost (a fault), those that arrive keep their order, as on one 0MQ connection. The files are read in one step, although
  the directory is walked twice, and the daemon reads in one step. A slave without an address is only logged and has no
  part in the model. Reports of a file that the distribution master has no entry for are dropped.

## 7. Not modelled, and why

The repository has about 188,000 lines of code. By far the most of it has no control a
model checker could say anything about: Django models, migrations, serializers and
views (`cluster/backbone`, `cluster/frontend`), reports, the check modules of
host-monitoring, parsers of vendor output, SNMP and IPMI tables, the grid engine's tools,
graphs, vendored libraries. The map therefore covers a small share of the lines, and
a model of the rest would be a transliteration of data. What has concurrency, failures or
protocols is in the daemons and is what this project is about. Among them are not modelled:

* text and mail (`get_mail_text`), the overview command, memory statistics and the
  sqlite schema of the meta-server, and `_sync_system_states`, which switches its own init
  scripts: they change no state the properties are about;
* parsing of the XML files and of the arguments of `icsw service`;
* the relay of host-monitoring with its connections and timeouts, the background jobs of
  cluster-server, boot control in mother: protocols, left for later (section 8);
* the contents of monitoring configurations, the icinga process, the distribution master's local
  copy; the repository process and the searches of the package server;
* collectd, rrd-grapher, rms, discovery, SNMP relay, log and report servers: data
  transformations around databases and external programs.

`PROJECT.json` lists each component with its reason. Hazards without a property are listed
there with the reason, too.

## 8. Plan

Done: the tables (`ServiceActions`, `ServiceCycle`), the core (`MetaServer`), its clock
(`ServiceHistory`), the frame (`TimerBase`, `ProcessPool`, `Mailbox`), the package client
(`PackageClient`) and the monitoring configuration (`MonSync`); theorems for every safety property of
the passing runs, and for the refinements of `Mailbox` and `ServiceControl`. Left, in this order:

1. The hazards without a property: dependencies judged by the last observed state, targets brought back in
   shutdown mode, a signal in the middle of `_handle_transition`.
2. The relay of host-monitoring: a late answer racing the timeout of a request.
3. The background jobs of cluster-server.
