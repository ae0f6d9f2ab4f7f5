# PackageKit in TLA+

A verification development of `packagekitd`, the PackageKit daemon
(`src/src/`), and of the library with which programs use it
(`src/lib/packagekit-glib2/`). It models the part of them that decides *when*
things happen: which transaction runs, how it ends, what its client is told,
and what the client does next. What a package manager does inside a backend is
out of scope.

## 1. The system

A client asks the engine for a transaction id (`GetTid`), sets hints on the
D-Bus object of that id, and calls one role method on it (`InstallPackages`,
`GetUpdates`, ...). The transaction asks polkit if the role needs it, is
committed to the list, is run by the list when its turn comes, drives the one
`PkBackend` object of the daemon, and hears from it through GObject signals
until `finished`. Five seconds later the list frees it.

| Component | State | Operations | Interacts with |
|---|---|---|---|
| Transaction list (`pk-transaction-list.c`) | array of items: state, uid, background flag, three GLib sources (commit timeout, run idle, removal timeout) | create, commit, set_background, remove, finished, run, cancel_background, role_present | called by engine and transactions; called back by the transaction's `finished` signal; preempts the backend |
| Transaction (`pk-transaction.c`) | state, role, `finished`, `waiting_for_auth`, its handlers on the backend, results | one D-Bus method per role, SetHints, Cancel, run, the backend's signals | polkit (asynchronous), list, backend, database, plugins |
| Backend object (`pk-backend.c`) | exit code, `set_error`, `finished`, status, two timers (delayed finished, error timeout), the worker thread | reset, set_exit_code, error_code, finished, thread_create, thread_finished, cancel | signals to every connected transaction; called by the backend module, from a worker thread or from the helper's output |
| Spawned helper (`pk-spawn.c`, `pk-backend-spawn.c`) | child pid, 50 ms poll, SIGKILL delay, idle-exit timer, last program and environment, how the last one exited | argv, exit, kill, poll, line protocol | child process; backend object |
| Engine and main (`pk-engine.c`, `pk-main.c`) | idle timer, the two timers of StateHasChanged, "shut down as soon as possible" | GetTid, StateHasChanged, SuggestDaemonQuit, idle exit | list, notify, cache |
| Transaction database (`pk-transaction-db.c`) | job counter in memory and on disk, rows of old transactions | generate_id, add, set_finished, deferred write | list, transaction |
| Update cache and notify (`pk-cache.c`, `pk-notify.c`) | cached update list, one delayed `updates-changed` | get, set, invalidate, schedule | transaction, engine |
| Remaining time (`pk-time.c`) | samples of percentage and time | add_data, get_remaining | backend object |
| Client library (`lib/packagekit-glib2`) | of each call, its `PkClientState`, and the array of calls and `idle` of the client; of each request, its `PkTaskState` with the exit code, and the open question | calls, cancel, adopt (PkClient); simulate, ask, import a key or accept a licence, try again (PkTask) | the daemon over D-Bus; the application and its user |
| Network, configuration, D-Bus, syslog, proc, store | - | wrappers and containers | - |
| Plugins (`src/plugins`) | - | phases of a run | may set an error or skip the transaction |
| Backends (`backends/`), tools (`client/`, `contrib/`) | - | wrappers of package managers; front ends | - |

### What is hard in it

* **Everything is asynchronous on one main loop.** No data race in the list,
  but between the polkit question and its answer, between the state `RUNNING`
  and the idle source that starts the job, between `finished` and its delayed
  emission, any other method or timer may run.
* **One backend object, several transactions.** `finished` is emitted to
  every transaction that is connected, not to one; the exit code is one
  variable of the daemon.
* **Re-entrance.** `pk_backend_reset`, called in the middle of starting a
  transaction, may emit the `finished` of the one before, whose handlers
  finish items and start others.
* **Lifetimes.** Items are freed by timers while a polkit question, an idle
  callback or a signal handler still points at them.
* **Threads.** Threaded backends call `pk_backend_finished` and
  `pk_backend_error_code` from a worker.
* **Processes.** A helper process serves job after job, over pipes, with
  timers that tell it to go and signals that end it. It may die at any point,
  and its output does not say which job it is of.
* **Crash.** The job counter is written back from a low-priority idle source.
* **Callbacks of the client.** A request of `PkTask` is passed from a callback
  to a question to an idle source to the next call; a cancel may come at each of
  these points, and a copy or a reply may come back after the state was freed.
  `Finished` may come before the replies it is expected after.
* **Delays.** The idle exit, the delayed `UpdatesChanged` and the delayed
  StateHasChanged run on clocks of their own.

### What makes each component right

* List: what is queued is always going to be started; foreground first, then
  oldest; each item ends once for the list; two whole-system updates never
  meet; the limit per user.
* Transaction: never queued without the authorization its role needs; its role
  called at most once; its client told when it is over.
* Backend object: a job that was started ends, and its first end counts.
* Spawned helper: one child at a time; a request is never written to one that
  was told to go; a signal never hits a process that it is not for; the
  success of a job is its own; a job ends.
* Database: an id is never handed out twice.
* Cache: a stale update list is never served after the change was announced.
* Engine: the daemon does not leave while it has work, and leaves when it
  shall.
* Client library: a request is held by one callback at a time and ends once;
  what the application is told of it is true; one that was cancelled asks the
  daemon for nothing more; a client without calls is idle.

## 2. Modules

* `PkTransactionList.tla`: the list, the life of a transaction and the seam of
  the backend object, in one module because they change each other's state in
  single handlers.
* `PkSchedule.tla`: the abstract specification that it implements.
* `PkJobs.tla`: the abstract specification of the backend object, which
  `PkBackend` implements with a thread and `PkSpawn` with a process.
* `PkBackend.tla`: the backend object from within, with the worker thread of
  each job.
* `PkSpawn.tla`: the helper process of a spawned backend, with the backend
  spawner above it and the calls of the backend object that it makes.
* `PkDaemon.tla`: what outlives a transaction. The engine with its timers, the
  idle exit, the job counter, the cached update list and `UpdatesChanged`.
* `PkClient.tla`: the calls of a `PkClient`, each from its start to its
  callback; `PkTask.tla` extends it with the requests of a `PkTask`, which make
  these calls.
* `PkRequests.tla`: the abstract specification of a request, which `PkTask`
  implements.
* `PkTransactionListProofs.tla`, `PkTransactionListMoreProofs.tla`,
  `PkBackendProofs.tla`, `PkBackendJobsProofs.tla`, `PkSpawnProofs.tla`,
  `PkSpawnJobsProofs.tla`, `PkDaemonProofs.tla` and `PkTaskProofs.tla`: the
  theorems.

`PkTransactionList` and `PkBackend` divide the backend object between them.
`PkTransactionList` has several transactions on it and one step per call: it
is about what the transactions do to each other, on the main loop.
`PkBackend` has one transaction at a time and several steps per call: it is
about what a worker thread and the main loop do to each other. `PkSpawn` has
the third kind of partner, a process: there everything that the daemon does is
on the main loop, and the steps that interleave with it are those of the
helpers. `PkDaemon` has transactions in five states only; which of them runs
when, and what ends it, is left open there (any that is queued may run, also
several at once, and may fail at any time), so that what it shows holds for
every schedule of the list. `PkTask` is in another process; there the daemon is
what may answer, refuse, end a transaction in any way, or vanish.

### PkTransactionList: state

| Variable | In the code |
|---|---|
| `state`, `role`, `uid`, `background` | `priv->state`, `priv->role`, `item->uid`, `item->background`; `"none"` is an id not handed out yet, `"gone"` one that was freed |
| `commitTimer`, `idle`, `removeTimer` | `item->commit_id`, `idle_id`, `remove_id` different from 0 |
| `auth`, `waiting`, `finishIdle` | polkit checks in flight, `priv->waiting_for_auth`, pending `pk_transaction_finished_idle_cb` |
| `finished`, `connected` | `priv->finished` and the handlers on the backend |
| `exit`, `job`, `delay`, `outstanding` | `backend->priv->exit`; `set_error`/`finished`; `signal_finished`; role calls that have not called `pk_backend_finished` |
| `scan`, `emission`, `resume` | where a handler that loops and calls back into the list has got to |
| `cancelled`, `report` | history: cancelled while running; the D-Bus `Finished` that was sent |

### PkTransactionList: actions

One action is one dispatch of the main loop: a D-Bus method (`Create`,
`Query`, `Privileged`, `AcceptEula`, `Cancel`, `CancelBackground`, ...), an
answer (`AuthDenied`, `AuthGranted`), an idle callback (`FinishedIdle`,
`RunDispatch`, ...), a timer (`NoCommitTimeout`, `KeepFinishedTimeout`,
`FinishedDelay`, `ErrorTimeout`) or a call of the backend code
(`BackendError`, `BackendFinished`). The two handlers that loop, the emission
of `finished` and `pk_transaction_list_cancel_background`, are one action per
turn of the loop; `MainLoop` is false until they return, so nothing gets in
between. A role method that releases its id does so in the same action, and
the list's `finished` callback starts the next item in the same action.

Abstractions worth knowing:

* Roles are classes of methods: `query` (no authorization), `authorised`,
  and the four with a path of their own (`update-system`, `get-updates`,
  `old-transactions`, `accept-eula`).
* The backend code is free: it may report an error or not, at any time, and
  ends its role call once.
* `Cancel` from another D-Bus peer than the creator's is rejected before it
  reaches the transaction, so only the owner cancels.
* When a pending callback, or a handler of the backend, points at a freed
  transaction, C leaves the result undefined. `CallbackOnFreed` and
  `FinishedCbOnFreed` offer both outcomes, an abort (`Crash`) or no visible
  effect. `RunAborts` is the `g_error` of a role that
  `pk_transaction_run` has no branch for: `AcceptEula` whose question is
  granted before its idle callback ran.
* `pk_backend_reset` is called twice in `pk_transaction_run`. The first call
  is refused while the status is "running", and then a left-over error or skip
  ends the new transaction (`RunEndedByOther`); otherwise `set_status (SETUP)`
  lets the second call through, so `RunDispatch` always starts with a clean
  job.
* The configuration key that is read for preemption is a number of seconds
  read as a boolean: `CommitTimeoutAsBool`. It is `FALSE` for every number
  but 1 (`pk_conf_get_bool` of 300).
* The wedge check (`pk_transaction_list_wedge_check*`) only logs, and is not
  an action; what it looks for is the property `NotWedged`.
* `SuggestDaemonQuit` with an empty list ends the process; that is in
  `PkDaemon`.

### PkBackend: state

| Variable | In the code |
|---|---|
| `setError`, `finished`, `exit`, `thread` | the members of `PkBackendPrivate` of these names; `thread` is the job whose worker it is |
| `errorTimer`, `finishTimer` | `signal_error_timeout`, `signal_finished`: the ids the object remembers |
| `sources` | the GLib sources that are really armed, each with the thread that added it and the job it was added for |
| `connected`, `reported`, `job` | the transaction of the current job listens; what each job was told |
| `pc`, `added`, `inError` | where each thread is in its call, the id it got from `g_timeout_add` and has not stored yet, the callback that the main loop is in |
| `stopped`, `late` | history: workers whose `transaction_stop` was run; whether a worker was later than a timer |

That `sources` and the remembered ids are two things is the point of the
module: `g_timeout_add` arms a source in one step and its id is stored in
another, and `g_source_remove` removes what was remembered.

### PkBackend: actions

`ThreadCreate` is `pk_transaction_run` up to the role method that creates the
thread; `StoreThread` is the assignment of `g_thread_new`'s result;
`PluginError` is a run that a plugin ends before the transaction is connected,
with the error timer left armed. `pk_backend_finished` is `FinishedCall` (the
test of `finished`), `FinishStop`, `FinishMark` (which sets `finished` and arms
the timer) and `FinishStore`, in the worker or in the main loop.
`pk_backend_error_code` is `ErrorCode`, `ErrorStore`, and the test and the
write of `pk_backend_set_exit_code` (`ErrorExit`, `ErrorSet`). The main loop
dispatches one source at a time: `ThreadFinishedCb`, `ErrorTimeout`, and
`FinishedDelay` with `DelayExit` and `DelayEmit`. A cancel is `Cancel` and
`CancelSet`. A worker ends its role in one of the three ways that the backends
use: `pk_backend_finished`, `pk_backend_thread_finished`, or, after an error,
by returning.

Left out: the second refusal of `pk_backend_reset` while the status is
"running" (it is in `PkTransactionList`), the messages, and the time at which
several transactions share the object.

`late` records that a worker has outlived a timer. The code assumes that none
does: a timer of 10 ms ("finished") is not due before the thread that armed it
has stored its id; the timer of 2 s (error) is not due before the worker that
reported the error has finished or returned (`IsLate`). The text that the error timer sends says what happens
otherwise: PackageKit assumes that the thread hung, starts another "to process
future requests", and "your code is about to break in exotic ways"
(`pk-backend.c:2108-2112`). Those ways are in the model: from then on a worker
held up before it stored its id may overwrite the id of the next job's timer,
and `OneWorker`, `NoStaleSource` and `FailureIsReported` promise nothing more.
What remains true of late workers is that each job is reported, and once:
`JobHasCompletion`, `JobEnds`, and `PkJobs` with a backend that lapsed.

### PkJobs: what a job is promised

`PkJobs` has the job number, whether its transaction waits (`open`), what the
backend made of the job (`work`), whether an error was noted (`failed`) and what
each transaction was told. Jobs come one at a time; a job is reported once, when
the backend is through with it, and as a success only if it was carried out
without an error. A backend may `Lapse`, that is, outlive a time-out of the
daemon. Then a job may be reported before the backend is through and as what it
is not, though still once, and only while its transaction waits.

Both modules implement it. `open` is `connected` and `failed` the error flag of
the object while it is connected. `WorkDone` says of a thread whether it is still
in its role, and of a helper also whether it printed "finished" or stopped before
that. `lapsed` is `late` for `PkBackend` and `overdue` for `PkSpawn`; both may become
true on the way. A job that a plugin ends
before it reaches the backend is a `Refuse`.

### PkSpawn: state

| Variable | In the code |
|---|---|
| `job`, `connected`, `done`, `error`, `errorTimer` | the backend object: the current job, its transaction's handlers, `finished`, `set_error` with its code, `signal_error_timeout` |
| `told`, `exitTimer` | `PkBackendSpawnPrivate`: `finished`, `kill_id` |
| `pid`, `poll`, `finished`, `killTimer`, `exit`, `last`, `sending`, `changing` | `PkSpawnPrivate`: `child_pid`, `poll_id`, `finished`, `kill_id`, `exit`, `last_argv0` and `last_envp`, `is_sending_exit`, `is_changing_dispatcher` |
| `want`, `spawning` | the arguments of the `pk_spawn_argv` that is under way, and whether it has come to its `g_spawn_async_with_pipes` |
| `child`, `started` | the processes: what each does, its standard input and its unread output |
| `reported`, `completed`, `overdue` | history: what each transaction was told; jobs that a helper carried out; whether a helper outlived a time-out of the daemon |

`killTimer` has three values because the id of the SIGKILL timer is not
cleared when the timer goes off: a later cancel then believes that one is armed
and does nothing.

### PkSpawn: actions

A job starts with `pk_spawn_argv`: the helper that is there takes it (`Reuse`),
or is told to go (`Change`), or there is none (`NoHelper`), or the write fails
because it died (`Broken`). `Spawn` and `SpawnFails` are the rest of it. While
the main loop blocks in `pk_spawn_exit` (`sending`), which polls the helper
itself, only `Stdout`, `Reap`, `GiveUp` (its five seconds) and the helpers go
on. `pk_spawn_check_child` is `Stdout` for each line of output and `Reap` when
`waitpid` finds the helper dead, with the exit signal and its handler.
`ExitTimeout` is the idle timer of the helper, `Cancel` the SIGQUIT (also when
the job has been finished and only its report is due: the helper is then idle,
and kept for the next job), `SigkillTimeout` the SIGKILL, `ErrorTimeout` and `FinishedDelay` the timers of
the backend object. A helper prints, reads its next command and leaves
(`HelperWorks`, after `lib/python/packagekit/backend.py`), ends by itself
(`EndsItself`) or by the signal (`Quit`), which it may also ignore.

Left out: the lines that report progress and packages, output that is no
command, and what a helper does with the packages. The program and the
environment of a helper are one value (`Helpers`): all that matters is whether
they are those of the helper before.

### PkDaemon: state

| Variable | In the code |
|---|---|
| `up` | whether there is a daemon |
| `count`, `saveDue`, `saved` | `job_count` and `database_save_id` of the database object of the engine; `job_count` in the table `config` |
| `asap` | `shutdown_as_soon_as_possible` or `notify_clients_of_upgrade`: the two are read together |
| `ids`, `armed` | which of `timeout_priority_id` and `timeout_normal_id` are set; which of these timers the main loop has |
| `cache`, `notify` | `PkCachePrivate.get_updates`; `timeout_id` of `PkNotify` |
| `tr` | the list: new (its id was handed out), queued, running, kept (finished, for five seconds) |
| `world` | the packages, as a number that grows with each change |
| `high`, `asked`, `changed`, `told` | history: the numbers handed out, and the packages at the last StateHasChanged, at the end of the last transaction that changed them, at the last `UpdatesChanged` |

### PkDaemon: actions

`Start` is `pk_engine_init`; `Quit` the end of `main`, reached by the idle check
(`Poll`), by `SuggestDaemonQuit` with an empty list, or by a signal
(`Interrupt`); `Crash` ends it anywhere. Whether the idle time has passed is an
argument of `Poll`: it is never so while a transaction is listed, and at once
when `asap` is set. A question to polkit for SetProxy or SetRoot holds a
reference on the engine, so that nothing is finalized at the end: the argument
of `Finalize`. `GetTid`, `StateHasChanged` and `Call` are D-Bus methods,
`FileChanged` the two file monitors, `StateChangedCb`, `NotifyCb` and
`SaveCount` the timers and the idle source. `Finish` is
`pk_transaction_finished_cb` of a successful job, with
`pk_transaction_finish_invalidate_caches`; `Fail` every other end. `Change` is
a job at work on the packages and `ToolRuns` another package manager.

A role stands for those that the code treats alike: `update-packages` for
UpdateSystem, UpdatePackages, RemovePackages, RepoEnable and RepoSetData;
`refresh-cache` for itself; `install-packages` for the roles after which the
code does not invalidate anything. `crossed` marks a GetUpdates that ran while
its answer was declared old: the code stores it all the same.

### PkClient and PkTask: state

| Variable | In the code |
|---|---|
| `call` | the `PkClientState` of the call that a request makes: which role, how far it has got, the copies still out (`refcount`), the exit it will report |
| `calls`, `adopting`, `idle` | `priv->calls`, with the adopted transaction apart, and `priv->idle` |
| `cancelOut`, `strays` | calls that wait for the reply to Cancel; how many callbacks may still come to a state that was freed |
| `kind`, `cancelled` | what was asked for; whether its cancellable was cancelled |
| `array`, `exitEnum` | `priv->array` of the task; `exit_enum` of each `PkTaskState` |
| `question`, `answer` | what the application was asked; the idle source that its answer added |
| `alive`, `carriedOut`, `report` | the process; history: what the daemon did with success, what the application was told |

### PkClient and PkTask: actions

A call starts in `StartCall`, waits for its copies (`CopiedNative`), its id
(`GetTid`), its proxy (`GetProxy`), its hints (`SetHints`), the reply to its
role (`MethodReturns`) and `Finished`, and may then copy what was downloaded
(`CopiedDownload`); each of these may fail. `End` is `pk_client_state_finish`.
`Cancel` is the handler of the cancellable, `Adopt` and `AdoptEnds` are
`pk_client_adopt_async` and `pk_client_get_progress_async`, `DaemonLost` a
daemon that left or dropped the transaction.

`pk_client_get_proxy_cb` listens to the transaction before it sends the hints,
and the daemon cancels one that has no role yet when it is asked to quit, and
one that has its role also when its client says so. So `Finished` can come first: `FinishedEarly` and
`FinishedFailed` are also enabled while the reply to SetHints or to the role is
out. The call then ends, before the hints with the outcome "nothing" (no results
and no error), and what is still out comes to a freed state: one or two replies
(`LateReplies`), the reply to Cancel, and the copies that go on when one has
failed. `Stray` is any of these callbacks, and has no effect or ends the process
(`Dies`).

Of `PkTask`, `Start` is any `pk_task_*_async`; `SimulateReady`, `ActionReady`
and `StepReady` are the callbacks of the calls. A call that ended with nothing
is passed on to the application as it is, or ends the process in
`SimulateReadyCrashes`, which reads the code of an error that is `NULL`.
`Answer` is
`pk_task_user_accepted` and `pk_task_user_declined`, and `Accepted` and
`Declined` are the idle sources that these add.

`PkRequests` is what all this comes to for the application. A request is
between two transactions (`working`), has one with the daemon (`calling`), is
asking the user, was refused or was carried out (`done`), until it is over and
told. `Course` reads it off the state of the task: the question, the idle source
of an answer, and the phase of the call. A simulation, an imported key and a
retry are all calls; only the action carries the request out, and from `done`
there is no way but to the end. What the application is told is the truth, with
one exception that the code makes: "nothing", for a request that was not carried
out and whose transaction was over before it took the hints.

Abstractions: roles that copy no files are a change that copies none; exits
that the callback of a call treats alike are one ("again" is need-untrusted and
media-change-required). The properties `simulate` and `interactive` may be set
at any time, and a class may leave questions out, so the tests of them come out
either way. The application answers each question once, as `PkTaskText` and
`PkTaskWrapper` do; it may answer a cancelled request.

## 3. Runs

| Run | Instance | What it asks |
|---|---|---|
| `list_roles` | 2 ids, every role, cancels, SuggestDaemonQuit, plugins | the methods that finish without being committed, or twice; timers and callbacks; authorization; whole-system updates |
| `list_plugins` | 3 ids, 2 users, limit 1, `query`, cancels, plugins, preemption on | the queue, the reports and the order (`PkSchedule`), with a cancel at every point and transactions left connected; the limit per user |
| `list_live` | 3 queries, fair | queued foreground transactions are served, running ones end |
| `backend` | 2 jobs, workers in time or late, fair | until a worker was late, a job meets neither the worker nor the timers of another; the promises of `PkJobs`; something always will end a job; every job is reported |
| `spawn` | 2 jobs, 2 kinds of helper, SIGKILL allowed, fair | signals, commands and answers meet the process and the job they are for; the promises of `PkJobs`; a job ends |
| `daemon` | 2 numbers, 2 changes of the packages, any number of restarts, fair | numbers, the cached list, the timers of `UpdatesChanged` and the idle exit, across quits and crashes |
| `task` | 2 requests, 2 files, fair | requests with their questions, retries, copies and cancels, two at a time on one client; the promises of `PkRequests` |
| `doc_transaction_stop` | 1 job | `transaction_stop` is not always run, though no worker is late |
| `doc_uid_limit` | 3 ids, limit 2 | a user gets one transaction more than the limit |
| `doc_one_running`, `doc_preempt`, `doc_cancel_finished` | 2 to 4 queries | statements of the documentation that the code does not keep |

Properties, and what breaks them: `TypeOK`; `NotWedged` (the list has no
periodic start, so a finish that does not hand on stops it for ever);
`SourcesMatchState` (no timer on an item that has left the state it was set
for); `ReportedIsOver` (client and list agree on what is over);
`RunningHasCompletion` (something is always under way that will end a running
item, even one interrupted by somebody else's error, finish, or reset);
`NeverRunTwice`; `SingleUpdateSystem`; `CallbacksFindStates`
(where each pending callback can find its item); `AuthorisedFirst`;
`ImplementsSchedule` (refinement); `ForegroundServed` and `RunningEnds`
(liveness); and of `PkBackend`: `OneWorker` and `NoStaleSource` (broken by a
reset that forgets a timer), `ImplementsJobs` (broken by an error that leaves
its exit code to the finish), `JobHasCompletion` (something is under way that
will report the job; broken by a finish that is marked and not emitted) and
`JobEnds` (broken by a finish that arms no timer); of `PkSpawn`: `KillHasTarget`
(broken by a SIGKILL timer that survives the helper), `ExitWhenIdle` and
`CommandsToIdle` (broken by an idle timer that survives into the next job),
`OneHelper` (broken by a change that does not wait), `ImplementsJobs` (broken by
an exit without "finished" that is no error), `JobHasCompletion` and
`JobEndsOrIsDeserted` (broken by an exit that ends no job); of `PkDaemon`:
`NumbersAreNew` (broken by a quit that does not write the counter),
`ChangeHasTimer` (broken by an engine that forgets that its timer has gone off),
`CacheIsCurrent` (broken by a cache that is not dropped), `NotifyBeforeLeaving`
(broken by a finished transaction that is freed before the notification),
`ChangesAreTold` and `SuggestedQuitHappens`; of `PkTask`: `OneHolder` (broken by
a question that is asked although its answer is under way), `ImplementsRequests`
(broken by a request that ends when its key is imported), `IdleAtTheEnd` (broken
by an end that leaves its call in the array), `NothingAfterCancel` (broken by
later calls that do not look at the cancellable) and `RequestEndsOrIsDeserted`
(broken by several keys that end nothing).

`NotWedged`, `RunningHasCompletion`, `JobHasCompletion` and `ChangeHasTimer` are
what the liveness properties next to them rest on: that there is always
something armed, pending or at work which, if it is dispatched, brings the end
about. They need no fairness, and so they are proved.

Some properties are stated in the modules and proved, but checked by no run, as
others say the same or more: `FailureIsReported`, `SuccessIsEarned` and
`ReportIsTrue` say of the reports what `ImplementsJobs` and `ImplementsRequests`
say of every step that reports. `TimerIsKnown` (the engine has the id of the one
timer that is armed) is what `ChangeHasTimer` rests on, and `UidBound` is what is
left of the limit that `doc_uid_limit` shows to be passed.

Bounds. `MaxTid` is the only cap: ids are handed out once, so it bounds the
transactions ever created and with them everything else. Three are needed for
the interesting order (one running, two queued, of which one is background or
cancelled), and for a third transaction to be hit by the leftovers of two; the
`doc_one_running` run uses four. Two suffice for what each kind of role does
to another, and `list_plugins` and `list_live` have three. The theorems of
section 5 hold for any `MaxTid`. `Uids` has two members only in `list_plugins`,
where the limit is within reach.
`MaxJob` bounds the jobs of
`PkBackend`: two show every race of a job with the one after it. A leftover of a
leftover needs three, which are too many states for one run; the theorems of
section 5 have any number, of late workers as of those in time. In `spawn` two jobs give
two processes, the second of which meets everything that the first left
behind; two members of `Helpers` are the same one and another. In `daemon` two
numbers are one that is lost and one that comes after it, and two transactions
at a time, one that reads the list and one that changes it; two changes of the
packages are one that was told and one that was not. In `task` two requests
share the client, and `MaxFiles` of two is one copy that fails and one that goes
on; retries are not bounded. A process that has ended keeps nothing of its client
(`Dies`), which saves states that nothing tells apart. The safety properties
of `spawn` and `daemon` were also checked with three jobs (7.8 million states) and three numbers (1.5
million, one transaction running at a time). `CHECK_DEADLOCK FALSE` is
set because a run does stop: when all ids are used
and freed, all jobs are done, or the daemon aborted.

Fairness of `list_live`. `SF_vars(RunNext)`, `SF_vars(FinishNext)` and
`WF_vars(ScanNext)`: GLib comes back to every ready idle source and timer,
and a loop in a handler goes on until it is done. Strong fairness is used
because a handler that loops disables the other sources for its length; it is
an assumption on GLib that D-Bus traffic, which has a higher priority than an
idle source, does not keep the loop busy for ever. That the code behind a role
call ends is an assumption on the backend; if it reported an error, the daemon
ends the job itself (`ErrorTimeout`). Clients, plugins and polkit owe nothing.
A background transaction may starve by design, so `ForegroundServed` is about
the others.

Fairness of `backend`: `WF_vars(MainNext)`, the main loop goes on with
what it is in and dispatches what is armed, and `WF_vars(WorkerNext(w))` for
each thread, which the kernel schedules. That a worker which is scheduled also
ends its role is built into the worker: it has no step that it can repeat for
ever. A backend that hangs in its role without an error hangs its job, and the
daemon has no timer for that. No fairness is assumed of starts and cancels.

Fairness of `spawn`: `WF_vars(MainNext)`, the main loop dispatches what is due
and its blocking calls return, and weak fairness of `HelperWorks` for each
helper: it goes on with what it is in until it is idle. A helper that hangs
for ever in a job hangs the job, and no timer of the daemon ends that; this is
the one assumption on helpers that `JobEndsOrIsDeserted` needs. Requests,
cancels, crashes of helpers and their answer to a signal owe nothing. The
safety properties that say "as long as helpers keep to the time-outs" are about
the behaviours before `overdue`: a helper that is still there five seconds
after "exit", or still at work two seconds after it reported an error, is given
up by the daemon but goes on, and then there are two.

Fairness of `daemon`: the main loop dispatches the idle check, the notification
and the StateHasChanged timers, which presumes that the network does not stay
off for ever (the callback waits for it), and each transaction goes on. That
the idle *time* passes is not assumed (`WF_vars(Poll(FALSE))`), nor that
anybody calls; so `SuggestedQuitHappens` does not rest on quiet clients. It does rest on a `ShutdownTimeout` that is not 0 (the default is 300): with 0,
or with `--disable-timer`, `main` has no five second check at all
(`pk-main.c:273`), and a daemon that is asked to quit while it has a transaction
stays.

Fairness of `task`: what a request waits for comes about (`GoesOn`): the
application's main loop runs its callbacks (`TaskCallback`), the application
answers its questions, and the daemon and the bus reply (`Answered`). A request
waits for one of these at a time (`OneHolder`), so one condition for the three is
as much as one for each. A daemon that wants another key after each key, or
reports a lost lock (`PK_EXIT_ENUM_CANCELLED_PRIORITY`) each time, keeps a
request going for ever, as the library counts no tries; the strong fairness
says that a request which is tried again and again ends in a transaction that
wants nothing more. Nothing is assumed of a daemon that vanished, and no cancel
is.

## 4. Where code and documentation differ

* **More than one transaction runs.** The list's `finished` callback starts
  the next item whichever item finished. Cancel a queued transaction, deny
  its authorization or answer `GetOldTransactions`, and the next one starts
  next to the one that runs. `pk-concepts.xml` says only one runs, and
  `pk_transaction_list_is_consistent` warns when it is not so
  (`doc_one_running`). `PkSchedule` therefore promises what is left: order,
  hand-on and no idle queue.
* **Preemption is off by default** although `CancelBackgroundTransactions` is
  documented as on: another key is read (`doc_preempt`).
* **Cancel on a finished transaction** reaches the backend when the
  transaction finished without it, and cancels someone else's job
  (`doc_cancel_finished`).
* **The limit per user is passed by one.** `count > max_count`
  (`pk-transaction-list.c:508`) is asked before the new transaction is counted,
  although `PackageKit.conf.in` calls the value the maximum that a user can
  request and queue, and the comment above the test asks "would this take us over
  the maximum" (`doc_uid_limit`). That it is never passed by two is `UidBound`.
* **`transaction_stop` is not run for every transaction**: a worker may finish
  before the object knows that it is a thread (`doc_transaction_stop`).

Seen while modelling, and kept in the model as the code has it: `Finished` may be sent twice (dispose of a transaction that is still waiting
for authorization); a transaction cancelled while running may still report
success; `SuggestDaemonQuit` starts queued items while it cancels them one by
one; `PK_EXIT_ENUM_REPAIR_REQUIRED` never takes effect, as the exit code is
set to failed just before (`pk-backend.c:2193-2201`);
`PK_BACKEND_CANCEL_ACTION_TIMEOUT` is defined and not used, so nothing ends a
backend that ignores a cancel; a worker whose role returns `FALSE` after
`pk_backend_finished` (zypp does) has `transaction_stop` run twice, the second
time perhaps in the next job.

Of the helper process:

* **A job can be deserted.** `priv->exit` is set when a helper is told to go
  (`pk-spawn.c:280-283`) and reset nowhere. When a later helper exits without
  "finished", its exit is taken for the same, and the handler returns
  (`pk-backend-spawn.c:606-610`) before it finishes the job, which
  `pk-backend-spawn.c:612-622` is there for. If no error was set, the job
  never ends. `JobEndsOrIsDeserted` names this state and says that there is no
  other.
* `PK_SPAWN_SIGKILL_DELAY` (2.5 s) is longer than the backend's error timeout
  (2 s), and neither "finished" nor the next job disarms it: a SIGKILL for the
  job that was cancelled can hit the helper in the next one. The cancel need not
  even hit its own job: between `pk_backend_finished` and its delayed emission
  the transaction still passes it on (`pk-transaction.c:3199`), and the SIGQUIT
  goes to a helper that is idle and kept for the next job. In the same way a
  remembered SIGKILL or SIGQUIT is reported for a later helper that exited
  normally.
* The kill id stays set after the timer went off, and so a second cancel of
  the same helper does nothing.
* A line printed between the read and the `waitpid` of one check is lost; if it
  is "finished", the job fails.
* `pk_spawn_exit` returns true when its five seconds are over, and the new
  helper is started next to the old one.
* A helper whose pipe broke before it was reaped is never reaped.

Of what the daemon keeps:

* A question to polkit of SetProxy or SetRoot that is open at the end keeps the
  engine, and with it the database object, from being finalized: the counter is
  not written, although `pk-transaction-db.c:558-560` says "but ensure we do
  this on shutdown". `high` in the model forgets such numbers, as it does those
  of a crash.
* With the default times (`ShutdownTimeout` 300 s,
  `StateChangedTimeoutNormal` 600 s) an idle daemon leaves before the timer of
  a "resume" goes off: a due StateHasChanged is not work, and `UpdatesChanged`
  is not sent (`ChangesAreTold` allows it).
* A GetUpdates that was running when the list was declared old stores its list
  afterwards, and it is served until the next change (`crossed`).
* InstallPackages, InstallFiles and transactions that failed half-way do not
  invalidate the list, and the cached list is served for any filter.
* Two daemons may overlap when one replaces the other on the bus; each has its
  own counter then. The model has one daemon at a time; the random suffix of an
  id is what keeps them apart.

Of the client library:

* A cancel that comes while the proxy is made has nobody to tell
  (`pk-client.c:600`) and is forgotten: the call goes on to its role. The
  copies of InstallFiles and GetTid after them get the cancellable of the state
  and not that of the caller (`pk-client.c:3862`), so a cancel then is forgotten
  as well; the next call of the request sees it.
* DownloadPackages with a directory and no file to copy never ends: the call
  waits for copies that were not begun (`pk-client.c:1070`). `Deserted` names it.
* When one copy of several fails, the state is freed while the others go on and
  come back to it (`pk-client.c:872`, `3853`); the reply to Cancel reads the id
  of a state that may be freed (`pk-client.c:586`).
* A `Finished` that comes before the reply to SetHints finds no results: the call
  ends as a success without results, and the caller gets neither results nor an
  error. `pk_task_simulate_ready_cb` reads the code of that `NULL` error
  (`pk-task.c:329`), the other callbacks pass it on (`SimulateReadyCrashes`,
  `report = "nothing"`). Then `pk_client_set_hints_cb` sends the role from the
  freed state (`pk-client.c:1534`). A `Finished` before the reply to the role
  leaves `pk_client_method_cb` to finish a freed state, if that reply is an error
  (`pk-client.c:1481`); AcceptEula that fails is such a case, as its dispose sends
  "failed" before the error is returned (`pk-transaction.c:3121`, `3129`).
* A daemon that vanishes after the reply to the role is not noticed (`Destroy`
  is ignored, `pk-client.c:1424`, and the owner of the name is not watched), and
  the request waits for ever. That is the other half of `Deserted`.
* `pk_client_get_proxy_cb` puts the call in the array by hand and not with
  `pk_client_state_add`, so `idle` stays `TRUE` during a call, although the
  property is documented as "if there are no transactions in progress on this
  client" (`pk-client.c:5383`). `IdleAtTheEnd` states the direction that holds.

## 5. Proofs

`PkTransactionListProofs.tla`, from `ListAssumption` (the constants have their
types) and nothing else:

* `TypeCorrect`: `TypeOK` is an invariant. `TypeOK` is inductive.
* `Invariant`: `IInv == TypeOK /\ Inv`, where `Inv` is the conjunction of
  `NotWedged`, `SourcesMatchState`, `ReportedIsOver`, `NeverRunTwice` and
  `CallbacksFindStates`. None of them is inductive alone:
  `NotWedged` (a running item for every queue) is broken by a removal of the
  running item, and only `SourcesMatchState` says that the items that the
  timers free are not running ones; that no timer is left behind
  (`SourcesMatchState`) needs to know in which states a polkit answer or an
  idle callback can still find its item, which is what `CallbacksFindStates`
  says; that a transaction runs once needs all of them. TLC checks each
  conjunct in `list_plugins` or `list_roles`.
* `NeverWedged`, `SourcesFollowState`, `OverIsReported`, `RunsAtMostOnce`,
  `CallbacksAreExpected`: the five safety properties, for every number of
  transactions, users and every choice of roles, plugins and configuration.
* `AuthorisationComesFirst`: the action property `AuthorisedFirst`.
* `Refinement`: `Spec => ImplementsSchedule`. Each step opens, enters,
  retires or forgets one entry of the schedule, halts it, or is a stutter
  (`StepKind`). The step that needs the invariant is `Retire`: the item that
  is started next is the schedule's choice only if it is queued there as well.

`FirstExists` (a non-empty set of items has a first one) is the only place
where induction is needed; it comes from the well-foundedness of `<` on the
naturals in the library.

`PkTransactionListMoreProofs.tla` goes on from there:

* `RunningIsCompleted`: `RunningHasCompletion` is an invariant. It is not
  inductive: it counts an error that was reported as a completion, and an error
  is taken away by the next reset. `RunningInv` says when that cannot happen:
  where there is an error, its timer, a delayed finish or the role call itself
  is still out.
* `UpdatesAreSingle`: every step but the one that handles the role adds no item
  to those that update the system, and a role is set once.
* `UidIsBounded`: `UidBound`, the limit and one. The items of a user that have no end grow only in `Create`,
  by one, after the count; the rest is the cardinality of finite sets.

`PkBackendProofs.tla`, from `BackendAssumption`:

* `TypeCorrect`: `TypeOK` is an invariant, with workers in time or late ones.
* `OneWorkerAtATime`, `NoSourceIsStale`, `FailuresAreReported`: until a worker is
  late, the three safety properties for any number of jobs. They follow
  from `BInv`, which holds until then (`~late => BInv`, and `late` stays): `SourcesInv` says for each kind of armed
  source who may have added it and where its id is (remembered, or still in
  the thread that is about to store it), `WorkersInv` and `MainInv` that at
  most one thread is in a call that finishes, and `ExitInv` where an error
  without an exit code can be. None of the three properties is inductive: that
  a reset leaves no source (`NoStaleSource`) needs the remembered ids to be
  those of the armed sources, which needs no worker to be between arming and
  storing, which is `OneWorker`, which needs the `finished` that is emitted to
  be that of the worker that is out of its role.

`PkBackendJobsProofs.tla` goes on from there:

* `CompletionIsComing`: `JobHasCompletion` is an invariant, for late workers as
  for those in time. It is not inductive: a worker that reported an error may
  leave its role without finishing, and then the job has only the error timer;
  so `CompletionInv` adds that a job with an error that is not finished has that
  timer, or a finish that has begun.
* `JobsRefinement`: `Spec => ImplementsJobs`, for any number of jobs. Each step is
  a `Start`, a `Refuse`, a `Report`, a step of the backend's own (`Quiet`), the one
  by which a worker becomes late (`Late`), which is a `Lapse`, or a stutter. That a job is told once is
  `ToldInv` (no transaction of a job yet to come was told, nor one that still
  waits). Only a report before that step needs `BInv`: that the worker is
  out of its role, and that an error has set the exit code by then.

`PkSpawnProofs.tla`, from `SpawnAssumption`:

* `TypeCorrect`, for any number of jobs and kinds of helper.
* `KillAlwaysHasTarget` and `ExitComesWhenIdle`, whatever helpers do, from
  `ControlInv`: what the daemon's own flags and timers say of each other
  (`poll` and `finished` against `pid`, `sending` and `changing` against
  `connected` and `done`).
* `OneHelperAlways`, `CommandsFindIdleHelper` and `SuccessAlwaysEarned`, as
  long as helpers keep to the time-outs, from `HelperInv`, in four parts:
  `Shape` (the helper is working on the current job, resting, going, or
  forgotten, and what can be in its pipes in each case), `Alone` (no other one
  lives), `Pending` and `Earned` (a "finished" that is unread, or was read, was
  printed for this job). None holds by itself: that a success is the job's own
  needs all earlier output to have been read, which needs the helper before to
  be gone or idle, which is `Alone` and `Shape`.

`PkSpawnJobsProofs.tla` goes on from there:

* `CompletionIsComing`: `JobHasCompletion`, whatever helpers do. `CompletionInv`
  adds what makes it inductive: a helper that is not polled is dead (what it
  would still print is never read), one that said "finished" was believed, and
  an error keeps its timer until the job is done. The only way out is
  `Deserted`, which the property names; section 4 says how it comes about.
* `JobsRefinement`: `Spec => ImplementsJobs`, also for helpers that overstay. A
  step is a `Start`, a `Report`, a step of the helper or of the object that the
  transaction does not see (`Quiet`), or the one by which a time-out is outlived
  (`Late`), which is a `Lapse`. As long as none was, the report of a success
  needs `HelperInv`: that the "finished" which was read is of this job. That
  `work` starts anew with each job needs `BoundInv`: no helper has, or has
  carried out, a job that was not started.

`PkDaemonProofs.tla`, from `DaemonAssumption`:

* `TypeCorrect`, with `CounterInv`.
* `NumbersStayNew`: the counter in memory is the last number and the one in the
  database differs from it only while a write is due.
* `TimerStaysKnown` from `TimerInv`, and `ChangeKeepsTimer` from the same: a
  StateHasChanged that finds an id sets no timer, so that its change is told
  rests on the timer of that id. `NotifyComesBefore` from `SlotInv` (a
  number not handed out has no transaction) and `NotifyInv` (the transaction
  that asked for the notification is kept, and its removal comes after it).
* `CacheStaysCurrent` from `CacheInv`: not only what is cached is fresh, but
  also what every GetUpdates that runs will store, unless it is marked. The
  property alone is not inductive: a job that finishes stores what it read
  long before.

`PkTaskProofs.tla`, from `ClientAssumption`:

* `TypeCorrect`, for any set of requests and number of files.
* `StateIsHeldOnce`, `ReportStaysTrue`, `IdleWhenOver` and
  `CancelledAsksForNothing`, from `IInv`: `IdleOK` for the client, and for each
  request `HolderOK` (who holds its state), `PhaseOK` (what the phases of a call
  and the array have to do with each other) and `DoneOK` (where a request can be
  whose action was carried out). `ReportIsTrue` needs the last: a request that
  was carried out waits for its copies or its callback, and for no question or
  retry. Every action but those of the adopted transaction and `Stray` is about one
  request; `Calls(r)` and `Rest(r)` are what such an action may touch, and the
  rest of the proof is about that request alone.
* `RequestsRefinement`: `Spec => ImplementsRequests`, with every early `Finished`
  and what comes of it. Each action moves the
  course of one request as `Turns` allows, or leaves it (`LiveTurns` for all the
  steps of a call, one lemma for each callback of the task), and `TurnsAreSteps`
  makes a step of `PkRequests` of that. `DoneOK` is what keeps a request that was
  carried out from being tried again; `HolderOK` says that a question and a call
  exclude each other; and that a cancelled request makes no call is the test at
  the start of each call (`NoCallWhenStopped`).

In `PkSpawn` and `PkDaemon` a step that changes several fields of one process or
transaction is written `![c] = [f[c] EXCEPT !.a = ..., !.b = ...]`, and never
with two clauses for the same index (`![c].a = ..., ![c].b = ...`): version
1.4.5 of the prover translates the latter into contradictory hypotheses. That
the hypotheses of the steps are not contradictory was tried by asking the
provers for `FALSE`.

Only model-checked: the liveness properties `ForegroundServed`, `RunningEnds`,
`JobEnds`, `JobEndsOrIsDeserted`, `ChangesAreTold`, `SuggestedQuitHappens` and
`RequestEndsOrIsDeserted` (fairness and ENABLED are out of the prover's reach).

## 6. What is left

The order of the work was: the list with its abstract schedule, the backend
object with its worker, the helper process, what the daemon keeps, and then
the client library. The
components meet at narrow seams (the calls of the backend object; the life of a
transaction in the list), and each module has the seam with all that the other
side may do, so they are not composed further: the product of two of them is
beyond a model checker and would show nothing that the seams do not.

`PkSpawn` was once to be shown a refinement of the worker of `PkBackend`. It is
not one: a helper outlives its job, serves the next, and can desert one. What
the two have in common is `PkJobs`, which both implement.

Open:

* A contract for what `PkDaemon` tells its clients, as `PkJobs` and
  `PkRequests` are for jobs and requests; `ChangeHasTimer`, `CacheIsCurrent` and
  `NotifyBeforeLeaving` are its parts.
* The calls of `PkClient` by themselves: that each `PkClientState` is freed once,
  for callers other than `PkTask`.

Not modelled, and why:

* The data of transactions (packages, details, progress, messages), the D-Bus
  marshalling, polkit's rules, the parsing of package ids: no control depends
  on it beyond what the roles and answers already say.
* `pk-time.c`: floating point, and only shown to the user. (Its average takes
  one sample more than `average_max`, `pk-time.c:178`.)
* The rest of the client library: results, progress and the containers for them
  (data); the synchronous calls, which wrap the asynchronous ones in a main loop
  of their own; the socket to the front end's helper; `PkControl` but for GetTid
  (single calls without a state); `PkTransactionList` of the library, a copy of
  the list that the daemon sends. What its retries do to the daemon is to create
  transactions, which the list has.
* The rows of the transaction database, proxies and roots: single reads and
  writes.
* `pk-network*.c`: a mapping of what another daemon says. `pk-conf.c`: key
  file look-ups; the one that matters is `CommitTimeoutAsBool`.
* `pk-dbus.c`, `pk-syslog.c`, `pk-sysdep.c`, `pk-proc.c`, `pk-store.c`: I/O
  wrappers and containers.
* The plugins' own work and the backends: they are free choices in the models,
  within the calls that the daemon lets them make.
* The front ends, GTK module, browser plugin and command-not-found: clients of
  the library.
