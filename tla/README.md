# TLA+ specifications of multipath-tools

multipath-tools sets up and supervises multipath device-mapper maps.  Its
daemon, `multipathd`, runs about ten threads that share the path and map vectors
(`struct vectors`), the state of the daemon and a few queues, and that react to
uevents, device-mapper events, path checkers that may hang, client commands and
timers.  The modules here specify these parts, TLC checks them on small
instances, and TLAPS proves the central invariants for every instance.

`PROJECT.json` is the index: components, runs, the source lines of every
definition, hazards, findings and theorems.  Paths below are relative to `src/`.

Contents: [the system](#the-system) - [the modules](#the-modules) -
[runs](#runs-bounds-and-fairness) - [proofs](#proofs) -
[findings](#findings) - [what is not modelled](#what-is-not-modelled) -
[plan](#plan)

## The system

### Threads and locks

| thread | code | what it does | blocks on |
|---|---|---|---|
| main | `child()` in `multipathd/main.c` | starts the others, serves reconfiguration requests, shuts down | `config_cond` |
| checker loop | `checkerloop()` | starts and polls path checkers, applies their results, counts timers down | `config_cond`, `vecs->lock` |
| uevent listener | `ueventloop()`, `uevent_listen()` | receives uevents | netlink socket |
| uevent dispatcher | `uevqloop()`, `uevent_dispatch()` | filters, merges and serves uevents | `uev_cond`, `config_cond`, `vecs->lock` |
| client listener | `uxlsnrloop()` | client commands, signals, inotify | its poll, `vecs->lock` |
| dm events | `wait_dmevents()` | follows changes of maps | `/dev/mapper/control`, `vecs->lock` |
| purge | `purgeloop()` | deletes disconnected SCSI devices | `purge_cond` |
| marginal paths | `io_err_stat_loop()`, fpin threads | tests paths with intermittent errors | timers |
| runners | `runner_thread()` | detached, run a checker function that may hang | the device |

`vecs->lock` protects the vectors of paths and maps, `config_lock` the state of
the daemon, `uevq_lock` the queue of uevents, `events_lock` the list of watched
maps.  The configuration is read under RCU.

### Components

| component | state | operations | what makes it hard | module |
|---|---|---|---|---|
| runner threads | context: status, reference count, deadline | start, poll, cancel, release | two sides synchronised by compare-and-exchange alone, functions that hang | `Runner` |
| asynchronous checkers | current runner, timeouts in a row | check, poll, enable, disable, free | timeouts racing with answers, abandoned threads | `AsyncChecker` |
| daemon state | `running_state`, `reconfigure_pending`, `delayed_reconfig`, maps waiting for udev | start, request, reconfigure, tick, uevents, shutdown | one condition variable for three threads, requests without wakeup | `DaemonState` |
| dm events | `waiter->events`, `mpvec`, the kernel's maps | watch, poll, list, update, remove, reconfigure | lists that are out of date, lost uevents, failing ioctls | `DmEvents` |
| path states and queueing | `pp->state`, `dmstate`, `features`, `no_path_retry`, `retry_tick` | checker results, dm events, reloads, operator commands | cached kernel state, partial failures, countdown | `MapRecovery` |
| uevent queue | socket, `uevq`, queue of the dispatcher | receive, forward, filter, merge, serve | events dropped and reordered on purpose | `UeventQueue` |
| path and map tables | `pathvec`, `mpvec`, `INIT_*` states, the kernel's tables | add, remove, orphan, re-add, adopt, reload, flush | delayed reloads, paths freed deep in a call, re-used device names | `PathTable` |
| everything else | | | | [not modelled](#what-is-not-modelled) |

How they interact: the checker loop drives `AsyncChecker`, which is the caller
of `Runner` (composed in one module); its results are what `MapRecovery` applies
with `update_path_state()`.  `UeventQueue` delivers the events that create and
remove maps in `DmEvents` and that end the wait for udev in `DaemonState`.  The
dispatcher's gate on `running_state` and the reconfiguration that empties the
tables are in `DaemonState`; `DmEvents` has the reconfiguration as one holder
of `vecs->lock`.  `PathTable` has the handlers that `UeventQueue` calls, in
detail, with the merging of events reduced to what it means for a handler; the
wait for udev of a map is the one of `DaemonState`.

### What has to be right

* A context of a runner is freed once, by the last side that uses it, and
  `pthread_cancel()` never hits a thread that is gone.
* A check always comes to an end, hung devices included.
* A request to reconfigure or to stop is neither lost nor weakened nor starved.
* A change of a map is read, and a map that is gone is dropped.
* I/O is queued as long as, and only as long as, `no_path_retry` says, and paths
  that work are used again.
* Whatever is filtered and merged, the paths multipathd knows are those that
  exist.
* Paths and maps point to each other or to nothing, never to freed memory, and
  maps end up with devices of their LUN only.

## The modules

In all modules, definitions keep the names of the C functions where one action
or operator stands for one function; an action that is a part of a function has
a name of its own, and its lines are in `PROJECT.json`.  Definitions that
directly precede an action or operator and differ from it in one detail are
mutants, forms that the properties have to tell from the code.

### Runner (`libmpathutil/runner.c`)

A step is one atomic access to `rctx->status` or one call of pthread.  For every
context `r` the variables hold the shared part (`status`, `refcnt`, whether the
deadline has `expired`), the position `thr[r]` of the thread and the position
`call[r]` of the caller.

* thread: `ThreadStart` is the exchange in `runner_thread()`; `FuncWrites`,
  `FuncReturns` and `FuncCancelled` are the function, which may also stop moving
  for ever; `CleanupExchange`, `SpinTurns`, `SpinEnds`, `CleanupFinish` and
  `ThreadPut` are `cleanup_context()`;
* caller: `GetRunner`, `GetRunnerFails`; `CheckRunner` and `CheckDeadline` are
  `check_runner()`; `ReleaseRunner` and `ReleasePut` are `release_runner()`;
  `CancelExchange`, `CancelIdle`, `PthreadCancel` and `MarkDead` are the steps of
  `cancel_runner()`, called from both.

The caller may poll or release at any time, so everything that holds here holds
for every user of the API.  What a function computes is abstracted to "not yet
written, partly written, complete".

### AsyncChecker (`libmultipath/async_checker.c`, `checkers.c`)

Extends Runner with the checker of one path: `CheckStarts`, `CheckRunsSync`,
`CheckPolls` and what follows the return of `check_runner()` (`PollWaits`,
`PollFinished`, `PollAbandons`), the drop of a runner and `CheckerPut`.  The
first `MAX_NR_TIMEOUTS` timed-out runners in a row are abandoned with their
threads alive, later ones are waited for.  `sysfs_up` is the cached
`pp->sysfs_state`, renewed by `PathSysfsState`: `start_path_check()`,
`get_new_state()` and `pathinfo()` call the checker only while it is PATH_UP.
Path states are abstracted to UNCHECKED, PENDING, TIMEOUT and a result; the
checker function may return PENDING itself (`Found`), as `tur` does for a port
group in transition (`tur.c:112`).  The history variable `reported` tells that
PENDING from the one of a check in progress.  The runner calls of the checker are
conjoined to the actions of Runner, so that the module is a composition and
implements `Spec` of Runner.

### DaemonState (`multipathd/main.c`)

A step is one critical section of `config_lock`.  `asleep` is the set of threads
blocked on `config_cond`, so a broadcast before the wait is lost as it is in the
code.  The four threads have a position each: `child`, `checker`, `uevq`,
`uxlsnr`.  Of the maps the model has what the handshake depends on,
`wait_for_udev` and `uev_wait_tick`: a reconfiguration is delayed while a map
waits for its creation uevent.  `do_sd_notify()` is modelled by what systemd
has been told last.  A command or a signal is `Reconfigure(type)`, `Terminate`,
`MapRemoved`; `checker_finished()` is the round of the checker loop with
deferred reloads, timeouts and removals.

### DmEvents (`multipathd/dmevents.c`)

The kernel's maps have an event number (`knr`) and a version of their contents
(`ver`); `seen` is the version multipathd has read last.  The polling thread is
`Poll`, `arm_dm_event_poll`, `List`, `dm_get_events`, `Pick`, then
`remove_map_by_alias` or `update_multipath`, and `unwatch_dmevents`.  The holder
of `vecs->lock` registers maps in the steps of `watch_dmevents()`: `WatchReads`
(the ioctl, before `events_lock`), `WatchInserts`, `setup_multipath`.  It is the
uevent dispatcher, `ev_add_path()` or a reconfiguration.  The kernel, the uevents
of maps, which may be lost, and failing ioctls are the environment.  Three
variables only record what happened: `missed` (the last DM_DEVICE_LIST failed),
`lost` (maps that lost a uevent) and `raced` (maps that another thread
registered while the polling thread worked on what it knew of a predecessor of
that name: it unwatches them, or gives them the predecessor's event number).

### MapRecovery (`multipathd/main.c`, `libmultipath/structs_vec.c`, `dmparser.c`, `devmapper.c`)

One map with a fixed set of paths.  Its state in multipathd and in the kernel is
one record, and every function of the code that changes it is an operator from
record to record with the outcomes of its ioctls as arguments, for example
`enter_recovery_mode`, `set_no_path_retry`, `update_queue_mode_del_path`,
`assemble_map`, `reload_and_sync_map`, `update_path_state`.  The actions are
the critical sections of `vecs->lock`: `check_paths`, `update_path`,
`checker_finished`, `update_multipath`, `update_map` and the commands
`cli_fail`, `cli_reinstate`, `cli_disable_queueing`, `cli_restore_queueing`.
`Faults` says which ioctls may fail.  Marginal, delayed and ghost-delay states
are left out.

### UeventQueue (`libmultipath/uevent.c`, handlers in `multipathd/main.c`)

The listener (`ListenerWakes`, `uevent_receive_events`, `ReceiveNothing`,
`ListenerForwards`, `ListenerLoops`) and the dispatcher (`DispatcherWaits`,
`DispatcherTakes`, `service_uevq`) share `uevq`.  The doubly linked list with
`old_tail` is a sequence of nodes that carry the events merged into them and
whether they are new; `uevent_filter`, `uevent_merge` and
`uevent_delete_from_list` are folds over it, in the order in which the code walks
the list.  An event has a device, an action, the WWID and its number.  `real` is
the truth about the path devices, `table` what the handlers `uev_add_path`,
`uev_remove_path` and `uev_update_path` make of it; `dmlog` lists the dm events
served.  Pathinfo failures and blacklisting by properties belong to the path
tables.

### PathTable (`multipathd/main.c`, `cli_handlers.c`, `libmultipath/structs_vec.c`)

The tables are `pathvec` (addresses of `struct path`, in order), `path` (what is
at an address), `mpvec` and `mp` (the maps, by WWID, with `paths`, the union `pg`
of their path groups, `wait_for_udev` and `need_reload`).  `dev` is the LUN that
each device is, `table` the devices of each map in the kernel.  As in
MapRecovery, every function that changes the tables is an operator from tables
to tables: `pathinfo`, `update_multipath_table`, `check_removed_paths`,
`sync_paths`, `adopt_paths`, `verify_paths`, `update_map`, `ev_remove_path`,
`ev_add_path`, `uev_add_path`, `uev_update_path`, `checker_finished` and so on.
The actions are the critical sections of `vecs->lock`: `ServeAdd`, `ServeRemove`,
`ServeChange` and `ServeMap` are `uev_trigger()`, where the lock is released
between `uev_update_path()` and the `uev_add_path()` it calls (`cont`);
`CheckPath`, `Retrigger`, `CheckUninitialized` and `CheckerFinished` are the
checker loop; the commands are `CliAddPath`, `CliDelPath`, `CliReload` and
`CliDelMap`.  Device names are re-used: a device may change its LUN with a
`change` event or go and come back as another one.  udev handles devices in
parallel, so the events of a map come in any order with those of the devices.

What a call outside multipathd answers is chosen per handler, with at most one
kind of call failing in it: `load`, `read` (a table), `flush` (the removal of a
map without paths), `info` (a device cannot be opened), `up` (no path of the map
is usable), `udev` (the event carries no WWID).  The retries of `ev_add_path()`
are one repetition, after which the outcome is the last one's.  Maps are told
apart by WWID, not by minor number.  Left out are reconfigurations,
`cli_add_map()`, sizes, read-only maps, `add_when_online`, `recheck_wwid`, the
events that multipathd makes udev repeat when a path joins a map, and the
re-triggering of partially initialized paths; for the last two, the model has
`change` events at any time.

## Runs, bounds and fairness

| run | configuration | checks | bounds |
|---|---|---|---|
| `runner` | `MCRunner.cfg` | `TypeOK`, `RefsExact`, `CancelTargetsLiveThread`, `CancelAssertHolds`, `ResultComplete`, `ReleasedNeverStarts`, `FinalStatusStable`, `StartedContextsFreed` | one context; contexts share nothing, and a freed block is allocated again |
| `runner_early_cancel` | `MCRunnerEarlyCancel.cfg` | `EarlyCancelReleased`, violated | one context |
| `async_safety` | `MCAsyncChecker.cfg` | `AsyncTypeOK`, `OwnsOnlyRtx`, `PendingHasRunner` | two contexts: an abandoned thread beside the current one; `MAX_NR_TIMEOUTS` = 1 as in the code; the device is up (a device that is not up only means that the checker is not called, which may happen in any case) |
| `async_live` | `MCAsyncLive.cfg` | `CheckSettles`, refinement of `Spec` of Runner | one context; the device may be up or not |
| `daemon` | `MCDaemonState.cfg` | `TypeOK`, `DelayHasReason`, `SleeperIsWoken`, `NoWaiterTornDown`, `NotifyConsistent`, `ShutdownIsFinal`, `RequestKept`, `RequestServed`, `ShutdownObeyed` | two maps (one may stop waiting before the other), two creations outside reconfigurations, timeout of one tick; any number of requests |
| `dm` | `MCDmEvents.cfg` | `TypeOK`, `QuiescentInSync`, `TableFollows` | one map that is created, changed, removed and created again, with four changes; ioctls may fail, uevents may be lost |
| `dm_deleted` | `MCDmDelete.cfg` | `DeletedOnlyIfGone`, violated | one map |
| `rec` | `MCMapRecovery.cfg` | `TypeOK`, `RecoveryQueues`, `QueueingStops`, `PathComesBack` | two paths that are up, standing by or down; one retry; no faults |
| `rec_faults` | `MCRecoveryFaults.cfg` | `FeaturesTrackKernel`, `StaysTimedOut`, `CountdownOnlyFalls` | one path, all kinds of `no_path_retry`, two ticks per check; every ioctl may fail, an operator is active |
| `uevent` | `MCUeventQueue.cfg` | `TypeOK`, `TableAgrees`, `OppositeInOrder`, `DmEventsKept`, `BusyWhileEvents`, `NoEventStranded` | two paths of a LUN, a blacklisted one, a dm device, four events, batches of two |
| `uevent_order` | `MCUeventOrder.cfg` | `PathInOrder`, violated | two paths, one may come back as another LUN, three events |
| `table` | `MCPathTable.cfg` | `TablesLinked` (with `TypeOK`), `SettledInSync` | two devices of a LUN, one of which may become another LUN; three changes of devices, acts of other programs or commands; one retrigger; the faults `flush`, `info`, `up`, `udev` |

Every property of a passing run is violated by at least one mutant of the code,
listed in `PROJECT.json`.  Symmetry is used for the contexts in `async_safety`
and for the two paths of a LUN in `uevent`, both without liveness.

The bounds cover the cases the properties are about.  The runner protocol has
one caller and one thread per context.  For a map of the daemon the difference
is between the last one that waits and another one.  With four changes, a map can
be created, change, be replaced by another one of its name and change again
while the first is listed and the second registered; the third exception of
`QuiescentInSync` needs all four.  A second map would mostly
delay steps that wait for any time anyway; it would also let a reconfiguration
drop the entry of a map that is no longer known, which then is as if it had never
been watched.  Four events in batches
of two give two rounds in which merged and partly served events meet new ones;
all effects of filtering and merging that we know of need at most three events.
Three changes let a path be added, moved to another LUN and removed, or two paths
be added and one be removed while the map waits for udev.

`table` leaves out two of the faults that `PathTable` has.  With `load`,
`TablesLinked` does not hold, for the reason given under
[findings](#findings); without commands and other programs acting on maps, no
violation was found with it.  With `read` added, TLC finds no error either, but
takes longer than a regular run should.  `SettledInSync` claims something only
for behaviours in which no call failed and no command was given (`disturbed`).

Liveness needs the fairness of the threads and, of the environment, only what is
said here:

* Runner: weak fairness of the thread outside its function and of the calls.
  The function itself may hang for ever.
* AsyncChecker: in addition the deadline passes, as checker timeouts are never
  zero, and the checker loop polls a check that is pending while the device is up
  in sysfs.  A device that is blocked or offline is not polled, for ever if it
  stays so; `CheckSettles` excepts it, like a checker that the user has disabled.
* DaemonState: weak fairness of the main thread, the checker loop and the start
  of the listener; strong fairness of the checker's entry into RUNNING, as a
  client that floods the daemon with requests does not win `config_lock` every
  time.
* DmEvents: weak fairness of the polling thread and of the holder of `vecs->lock`;
  strong fairness of DM_DEV_ARM_POLL succeeding, which the thread repeats every
  second: "hope things get better" (`dmevents.c:313`).
* MapRecovery: weak fairness of the checker loop, strong fairness of a path
  being due and of its check completing; a check that stays pending says
  nothing about the path.

Deadlock is checked except in DmEvents and UeventQueue, where the environment
runs out of events by the bounds and all threads then wait as they should.

## Proofs

| module | theorems | rests on |
|---|---|---|
| `RunnerProofs` | `InvHolds`, `RefsExactHolds`, `CancelTargetsLiveThreadHolds`, `CancelAssertHoldsAlways`, `ResultCompleteHolds`, `ReleasedNeverStartsHolds`, `FinalStatusStableHolds` | any set `Ctx` |
| `AsyncCheckerProofs` | `AsyncCheckerImplementsRunner`, `OwnsOnlyRtxHolds`, `PendingHasRunnerHolds` | any set `Ctx`, `NULL` is not in it; any `MAX_NR_TIMEOUTS`, any `SysfsUp` |
| `DaemonProofs` | `DelayHasReasonHolds`, `SleeperIsWokenHolds`, `NoWaiterTornDownHolds`, `NotifyConsistentHolds`, `ShutdownIsFinalHolds`, `RequestKeptHolds` | any set `Maps`, any positive `uev_wait_timeout`, any `MaxCreates` |
| `RecoveryProofs` | `TypeOKHolds`, `FeaturesTrackKernelHolds`, `CountdownOnlyFallsHolds`, `StaysTimedOutHolds` | any set `Paths`, any `ConfRetry`, positive `checkint`, any faults |

**Runner.**  The safety properties are not inductive: why a thread that is
being cancelled is still there depends on where it can be.  `Inv` adds
`ThreadPosition` (which status goes with which position of the thread; a thread
that finds CANCELLED waits until it is DEAD) and `CallerPosition` (between its
first exchange and `MarkDead` the caller has CANCELLED and the thread has not
left the wait loop).  Each action is one step of `NextInv`.  That the checker
implements Runner needs only that it calls the API on a context it holds
(`CallHasRtx`); all theorems about Runner then hold for the checkers.

**AsyncChecker.**  `PendingHasRunner` speaks of the time between two calls; `AsyncInv`
adds what holds inside them: a checker in a call has a runner (`CallHasRtx`), and
when a runner is being dropped the state that will be returned is final already
(`PollSettled`).  That a runner held between two calls stays held
(`OutHoldsRtx`) needs that no step of a runner thread touches the caller's side.

**DaemonState.**  `Startup` says what has not happened before the first
configuration, `Handshake` ties the state of the daemon to the positions of the
threads, `TicksLeft` says that a waiting map has not timed out.  The proof has a
lemma per thread; all changes of the map table are instances of `MapStep`: if the
last waiting map stops waiting, `unblock_reconfigure()` is called.

**MapRecovery.**  Each function of the code has a lemma: it takes a well-formed
map to a well-formed map (`MapOK`), keeps `features` true to the kernel
(`Tracks`) and follows it (`Follows`): without a working path recovery mode does
not end and gets no ticks, and a map that is timed out stays so.  `Keeps` is
transitive, so the lemmas compose as the functions do.  `Inv` adds to `TypeOK`
and `Tracks` that `no_path_retry` is the configured value or was set to fail by
an operator.

Only model-checked are all liveness properties, which the proof system does not
support, `RecoveryQueues`, and everything about DmEvents,
UeventQueue and PathTable.

## Findings

* `runner_early_cancel`: a runner that is cancelled before its thread has started
  is left CANCELLED; the thread waits in `cleanup_context()` for a change that
  only the other branch of `cancel_runner()` makes.  It spins for ever and its
  context is never freed, although the comment in `cancel_runner()` says it is
  released there.
* `dm_deleted`: `dm_get_events()` lists the devices before it takes
  `events_lock`; a map that is created and registered in between is dropped.
* `uevent_order`: `merge_need_stop()` looks at WWIDs only; when a device comes
  back as another LUN, its removal can be merged past its addition and the path
  that exists is removed.

Other behaviour that is worth knowing, met while modelling: DEAD does not mean
that the thread has ended, but that it has been cancelled; an entry of the dm
event list is dropped by name after `vecs->lock` was released, so a map
registered in that window is not watched; a map that replaces another one of its
name between DM_DEVICE_LIST and `events_lock` gets the event number of the
other one, and the event that brings it to that number is overlooked; a `change` event can be served before
the `add` event of its path and is then ignored; a map that is read while dm
cannot tell its paths has no active path, and recovery mode can start although
paths work.

Of the path tables, TLC showed the following when stronger properties were tried.
None of these is among the runs.

* When every load fails, `ev_add_path()` gives up (`main.c:1418`) and makes the
  path an orphan.  If the map is in the kernel with that path, the path stays in
  the lists of the map, and a later removal frees it there, as it belongs to no
  map: `TablesLinked` is violated if `Faults` contains `load`.
* `ev_remove_path()` returns success after `flush_map_nopaths()`
  (`main.c:1516`), "the path has been removed", but the path is an orphan marked
  for removal.  If the last path of a map changes its LUN and the flush is
  refused at first, a second `struct path` for the device is stored.
* If the last device of a group of merged additions is gone when it is served,
  nothing loads the map, and the other paths of the group stay without it.
* An addition that was put off because the map waits for udev is forgotten when
  the last member of the map goes and the map is flushed.
* A path that changes its LUN while its map waits for udev is removed later, but
  its addition has been refused then; it stays unknown until its next event.

## What is not modelled

Not yet, but planned: reconfiguration of the path and map tables, checker
scheduling, marginal paths and performance notifications, the state machine of
client connections, purging, waiter threads per map, path groups and failback,
alias and WWID files, blacklists and path validity, persistent reservations, the
AIO of the directio checker, the cancellation of threads at exit.

Not planned: SCSI, NVMe and sysfs access (I/O); parsing of the configuration and
of commands, printing and logging (text); the command line tools and libdmmp
(sequential programs around the libraries or clients of the daemon); kpartx
(decoding of on-disk structures).

Abstractions that limit what the checks say: memory allocation fails only where
noted; a critical section of `vecs->lock` is one step where nothing in it is
visible to a thread without the lock; configuration values do not change
between reconfigurations; the netlink socket keeps the order of events.

## Plan

Done: the runner protocol and its user, the daemon state, dm events, path states
and queueing, the uevent queue, the path and map tables; proofs about the
runners and checkers, the daemon state and queueing.

1. **Path and map tables**: `configure()`, `reconfigure()` and `coalesce_maps()`
   as actions of `PathTable`, sizes and read-only maps; the set of known paths of
   `UeventQueue` as the abstract specification.
2. **Marginal paths**: `io_err_stat`, `san_path_err`, `delay_checks`, fpin, and
   their effect on `update_path_state()`; every delayed path comes back.
3. **Client connections** (`uxlsnr.c`): no client is starved or answered twice,
   the lock is not kept over a wait.
4. **Purge, waiter threads, checker scheduling, failback timers.**
5. **Algorithms** against reference definitions: path group policies, best
   path group, user friendly names, WWID file, blacklist precedence, merging of
   hardware entries, `select_action`.
6. **Persistent reservations**: registration of all paths, of paths that come
   back, and the roll-back of a failed registration.
7. **Proofs**: an inductive invariant of DmEvents for `QuiescentInSync`;
   `NoEventStranded` and `BusyWhileEvents` of the uevent queue, for which the
   recursive list functions move to a module of their own; `RecoveryQueues`; the
   invariants of the path tables.

The runs of new modules replace narrower ones where a larger instance asks the
same question, so that the list stays short.
