------------------------- MODULE PkTransactionList -------------------------
(***************************************************************************)
(* The transaction scheduler of packagekitd: the list of transactions      *)
(* (pk-transaction-list.c) with the life of each transaction               *)
(* (pk-transaction.c), from GetTid to the removal of the D-Bus object.     *)
(*                                                                         *)
(* Everything runs on one GLib main loop, so a D-Bus method, a timer or an *)
(* idle callback is one action.  Two handlers call back into the list from *)
(* inside a loop (the "finished" signal of the backend, emitted to every   *)
(* connected transaction, and CancelBackground); those are several actions *)
(* during which nothing else may run (MainLoop).                           *)
(*                                                                         *)
(* The backend is reduced to its seam with this component: the exit code,  *)
(* whether an error or "finished" was set since the last reset, the        *)
(* delayed "finished" emission and the number of role calls that have not  *)
(* called pk_backend_finished() yet.                                       *)
(***************************************************************************)
EXTENDS Integers, FiniteSets

CONSTANTS
  MaxTid,              \* bound: transaction ids ever handed out
  Uids,                \* users that call GetTid
  Roles,               \* kinds of role method that clients call
  MaxPerUid,           \* conf SimultaneousTransactionsForUid
  CommitTimeoutAsBool, \* conf TransactionCreateCommitTimeout, read as a boolean
  CanCancel,           \* the backend implements Cancel
  Calls,               \* which of Cancel and SuggestDaemonQuit clients call
  PluginAborts         \* phases in which a plugin may end the transaction

RoleKinds == {"query", "authorised", "update-system", "get-updates",
              "old-transactions", "accept-eula"}

ASSUME ListAssumption ==
  /\ MaxTid \in Nat
  /\ MaxPerUid \in Nat
  /\ Roles \subseteq RoleKinds
  /\ CommitTimeoutAsBool \in BOOLEAN
  /\ CanCancel \in BOOLEAN
  /\ Calls \subseteq {"Cancel", "SuggestDaemonQuit"}
  /\ PluginAborts \subseteq {"run", "started"}

\* Ids come from a job counter and items are appended and removed in place,
\* so the order of the ids is the order of the GPtrArray.
Tid == 1..MaxTid

VARIABLES
  alive,        \* FALSE once the daemon aborted (g_error, or a freed object)
  created,      \* ids handed out so far
  state,        \* PkTransactionState; "none" before, "gone" after the list
  role,         \* priv->role
  uid,          \* item->uid
  background,   \* items with item->background, until they finish
  commitTimer,  \* items with commit_id # 0
  idle,         \* items with idle_id # 0
  removeTimer,  \* items with remove_id # 0
  auth,         \* polkit checks whose callback has not run
  waiting,      \* priv->waiting_for_auth
  finishIdle,   \* pending pk_transaction_finished_idle_cb
  finished,     \* priv->finished
  connected,    \* transactions connected to the signals of the backend
  scan,         \* position of a CancelBackground loop
  emission,     \* handlers that a backend "finished" emission still calls
  resume,       \* transaction whose run is suspended by that emission, or 0
  exit,         \* backend->priv->exit
  job,          \* "finished", or "error" (set_error), or "clean"
  delay,        \* backend->priv->signal_finished # 0
  outstanding,  \* role calls that have not called pk_backend_finished()
  cancelled,    \* history: listed items that were cancelled while RUNNING
  report        \* history: the D-Bus Finished signal sent, or "twice"

listVars  == <<created, state, role, uid, background>>
timerVars == <<commitTimer, idle, removeTimer>>
authVars  == <<auth, waiting, finishIdle>>
linkVars  == <<finished, connected>>
loopVars  == <<scan, emission, resume>>
jobVars   == <<exit, job, delay, outstanding>>
histVars  == <<cancelled, report>>
vars == <<alive, listVars, timerVars, authVars, linkVars, loopVars, jobVars,
          histVars>>

States == {"none", "NEW", "WAITING_FOR_AUTH", "READY", "RUNNING", "FINISHED",
           "gone"}
ExitCodes == {"unknown", "success", "failed", "cancelled",
              "cancelled-priority", "skip"}
Reports == {"none", "success", "failure", "twice"}
NoScan == [loop |-> "none", at |-> 1]

TypeOK ==
  /\ alive \in BOOLEAN
  /\ created \in 0..MaxTid
  /\ state \in [Tid -> States]
  /\ role \in [Tid -> RoleKinds \cup {"unknown"}]
  /\ uid \in [Tid -> Uids \cup {"none"}]
  /\ background \subseteq Tid
  /\ commitTimer \subseteq Tid
  /\ idle \subseteq Tid
  /\ removeTimer \subseteq Tid
  /\ auth \subseteq Tid
  /\ waiting \subseteq Tid
  /\ finishIdle \subseteq Tid
  /\ finished \subseteq Tid
  /\ connected \subseteq Tid
  /\ scan \in [loop : {"none", "pending", "running"}, at : 1..(MaxTid + 1)]
  /\ emission \subseteq Tid
  /\ resume \in 0..MaxTid
  /\ exit \in ExitCodes
  /\ job \in {"clean", "error", "finished"}
  /\ delay \in BOOLEAN
  /\ outstanding \in Nat
  /\ cancelled \subseteq Tid
  /\ report \in [Tid -> Reports]

Init ==
  /\ alive = TRUE
  /\ created = 0
  /\ state = [t \in Tid |-> "none"]
  /\ role = [t \in Tid |-> "unknown"]
  /\ uid = [t \in Tid |-> "none"]
  /\ background = {}
  /\ commitTimer = {} /\ idle = {} /\ removeTimer = {}
  /\ auth = {} /\ waiting = {} /\ finishIdle = {}
  /\ finished = {} /\ connected = {}
  /\ scan = NoScan /\ emission = {} /\ resume = 0
  /\ exit = "unknown" /\ job = "clean" /\ delay = FALSE
  /\ outstanding = 0
  /\ cancelled = {}
  /\ report = [t \in Tid |-> "none"]

-----------------------------------------------------------------------------
(* The list.                                                               *)

Listed(t) == state[t] \notin {"none", "gone"}
InList == {t \in Tid : Listed(t)}
BeforeRunning == {"NEW", "WAITING_FOR_AUTH", "READY"}
Ready == {t \in Tid : state[t] = "READY"}
Running == {t \in Tid : state[t] = "RUNNING"}

\* No handler is in the middle of a loop that calls back into the list.
MainLoop ==
  /\ alive
  /\ emission = {}
  /\ resume = 0
  /\ scan.loop = "none"

First(S) == {t \in S : \A u \in S : t <= u}

\* Mutants: the background flag is not looked at; no next item is started.
NextItem_AnyClass(t) == First(Ready \ {t})
NextItem_None(t) == {}

\* The next item to run when t leaves: foreground first, in array order.
NextItem(t) ==
  LET rest == Ready \ {t}
      fore == rest \ background
  IN  IF fore # {} THEN First(fore) ELSE First(rest)

SetExit(e) == IF exit = "unknown" THEN e ELSE exit

\* pk_transaction_finished_emit, the D-Bus half.
Report(t, e) ==
  report' = [report EXCEPT ![t] = IF @ # "none" THEN "twice"
                                  ELSE IF e = "success" THEN e ELSE "failure"]

\* pk_transaction_finished_emit, the GObject half: the list's callback.
\* "pendingIdle" is the set of idle sources that the caller leaves.
ListFinished(t, pendingIdle) ==
  \/ /\ state[t] = "FINISHED"          \* "finished twice!"
     /\ idle' = pendingIdle
     /\ UNCHANGED <<state, background, commitTimer, removeTimer>>
  \/ /\ state[t] # "FINISHED"
     /\ state' = [u \in Tid |-> IF u = t THEN "FINISHED"
                                ELSE IF u \in NextItem(t) THEN "RUNNING"
                                ELSE state[u]]
     /\ background' = background \ {t}
     /\ commitTimer' = commitTimer \ {t}
     /\ removeTimer' = removeTimer \cup {t}
     /\ idle' = pendingIdle \cup NextItem(t)

FinishedEmit(t, e) == Report(t, e) /\ ListFinished(t, idle)

\* pk_transaction_list_item_free and the dispose of the transaction, which
\* sends a last Finished when the client never answered the polkit prompt.
\* The data of the item is cleared with it.
ItemFree(t) ==
  /\ state' = [state EXCEPT ![t] = "gone"]
  /\ role' = [role EXCEPT ![t] = "unknown"]
  /\ uid' = [uid EXCEPT ![t] = "none"]
  /\ background' = background \ {t}
  /\ commitTimer' = commitTimer \ {t}
  /\ idle' = idle \ {t}
  /\ removeTimer' = removeTimer \ {t}
  /\ waiting' = waiting \ {t}
  /\ finished' = finished \ {t}
  /\ cancelled' = cancelled \ {t}
  /\ IF t \in waiting THEN Report(t, "failed") ELSE UNCHANGED report

\* An item leaves the list: released, not committed in time, or finished for
\* long enough.
Release(t) ==
  /\ ItemFree(t)
  /\ UNCHANGED <<alive, created, auth, finishIdle, connected, loopVars, jobVars>>

\* The daemon aborts, and all it held is gone.
Crash ==
  /\ alive' = FALSE
  /\ created' = 0
  /\ state' = [t \in Tid |-> "none"]
  /\ role' = [t \in Tid |-> "unknown"]
  /\ uid' = [t \in Tid |-> "none"]
  /\ background' = {}
  /\ commitTimer' = {} /\ idle' = {} /\ removeTimer' = {}
  /\ auth' = {} /\ waiting' = {} /\ finishIdle' = {}
  /\ finished' = {} /\ connected' = {}
  /\ scan' = NoScan /\ emission' = {} /\ resume' = 0
  /\ exit' = "unknown" /\ job' = "clean" /\ delay' = FALSE
  /\ outstanding' = 0
  /\ cancelled' = {}
  /\ report' = [t \in Tid |-> "none"]

-----------------------------------------------------------------------------
(* GetTid: pk_transaction_list_create.                                     *)

ItemsOf(u) == {t \in InList : uid[t] = u}

UidCount(u) == Cardinality(ItemsOf(u))

Create(u) ==
  /\ MainLoop
  /\ created < MaxTid
  /\ UidCount(u) <= MaxPerUid
  /\ LET t == created + 1
     IN  /\ created' = t
         /\ state' = [state EXCEPT ![t] = "NEW"]
         /\ uid' = [uid EXCEPT ![t] = u]
         /\ commitTimer' = commitTimer \cup {t}
  /\ UNCHANGED <<alive, role, background, idle, removeTimer, authVars,
                 linkVars, loopVars, jobVars, histVars>>

\* The id was already generated, so a refused request uses one up.
CreateRefused(u) ==
  /\ MainLoop
  /\ created < MaxTid
  /\ UidCount(u) > MaxPerUid
  /\ created' = created + 1
  /\ UNCHANGED <<alive, state, role, uid, background, timerVars, authVars,
                 linkVars, loopVars, jobVars, histVars>>

-----------------------------------------------------------------------------
(* The role methods.  A client calls one of them on a transaction, once.   *)

Callable(t, r) ==
  /\ MainLoop
  /\ r \in Roles
  /\ state[t] = "NEW"
  /\ role[t] = "unknown"

SetRole(t, r) == role' = [role EXCEPT ![t] = r]

\* A foreground transaction that meets a running background one cancels it,
\* when the configuration key that is looked up reads as true.
Preempts(b) ==
  /\ CommitTimeoutAsBool
  /\ CanCancel
  /\ ~b
  /\ First(Running) \subseteq background

\* Mutant: anything that is not finished counts as the active transaction.
Commit_ActiveIsAny(t, b) ==
  LET active == {u \in InList \ {t} : state[u] # "FINISHED"}
  IN  /\ background' = IF b THEN background \cup {t} ELSE background \ {t}
      /\ commitTimer' = commitTimer \ {t}
      /\ state' = [state EXCEPT ![t] = IF active = {} THEN "RUNNING" ELSE "READY"]
      /\ idle' = IF active = {} THEN idle \cup {t} ELSE idle
      /\ UNCHANGED <<removeTimer, exit>>

\* pk_transaction_commit with pk_transaction_list_commit: COMMITTED goes
\* straight to READY, and to RUNNING when nothing else is.
Commit(t, b) ==
  /\ background' = IF b THEN background \cup {t} ELSE background \ {t}
  /\ commitTimer' = commitTimer \ {t}
  /\ UNCHANGED removeTimer
  /\ \/ /\ Running = {}
        /\ state' = [state EXCEPT ![t] = "RUNNING"]
        /\ idle' = idle \cup {t}
        /\ UNCHANGED exit
     \/ /\ Running # {}
        /\ state' = [state EXCEPT ![t] = "READY"]
        /\ exit' = IF Preempts(b) THEN SetExit("cancelled-priority") ELSE exit
        /\ UNCHANGED idle

\* Mutant: the transaction is queued while the question is open.
ObtainAuthorization_Queues(t) ==
  /\ state' = [state EXCEPT ![t] = "READY"]
  /\ auth' = auth \cup {t}
  /\ waiting' = waiting \cup {t}

\* pk_transaction_obtain_authorization: the answer is asynchronous.
ObtainAuthorization(t) ==
  /\ state' = [state EXCEPT ![t] = "WAITING_FOR_AUTH"]
  /\ auth' = auth \cup {t}
  /\ waiting' = waiting \cup {t}

\* Any method whose role needs no authorization, with the background hint b
\* that SetHints may have left.  GetUpdates comes here without a cache.
Query(t, r, b) ==
  /\ Callable(t, r)
  /\ r \in {"query", "get-updates"}
  /\ SetRole(t, r)
  /\ Commit(t, b)
  /\ UNCHANGED <<alive, created, uid, authVars, linkVars, loopVars, job, delay,
                 outstanding, histVars>>

\* GetOldTransactions, and GetUpdates from the cache: finished from an idle
\* callback without ever being committed.
AnswerFromCache(t, r) ==
  /\ Callable(t, r)
  /\ r \in {"old-transactions", "get-updates"}
  /\ SetRole(t, r)
  /\ finishIdle' = finishIdle \cup {t}
  /\ UNCHANGED <<alive, created, state, uid, background, timerVars, auth,
                 waiting, linkVars, loopVars, jobVars, histVars>>

\* Mutant: only a transaction that was committed counts as present.
RolePresent_Committed(r) == \E t \in Ready \cup Running : role[t] = r

\* pk_transaction_list_role_present
RolePresent(r) == \E t \in InList : state[t] # "FINISHED" /\ role[t] = r

\* InstallPackages, RefreshCache, UpdateSystem, ...
Privileged(t, r) ==
  /\ Callable(t, r)
  /\ \/ r = "authorised"
     \/ r = "update-system" /\ ~RolePresent(r)
  /\ SetRole(t, r)
  /\ ObtainAuthorization(t)
  /\ UNCHANGED <<alive, created, uid, background, timerVars, finishIdle,
                 linkVars, loopVars, jobVars, histVars>>

\* AcceptEula asks for authorization and finishes from an idle callback
\* without waiting for the answer.
AcceptEula(t) ==
  /\ Callable(t, "accept-eula")
  /\ SetRole(t, "accept-eula")
  /\ ObtainAuthorization(t)
  /\ finishIdle' = finishIdle \cup {t}
  /\ UNCHANGED <<alive, created, uid, background, timerVars, linkVars,
                 loopVars, jobVars, histVars>>

\* The backend refuses the agreement: the id is released with the polkit
\* question still open.
AcceptEulaFails(t) ==
  /\ Callable(t, "accept-eula")
  /\ state' = [state EXCEPT ![t] = "gone"]
  /\ uid' = [uid EXCEPT ![t] = "none"]
  /\ commitTimer' = commitTimer \ {t}
  /\ auth' = auth \cup {t}
  /\ Report(t, "failed")
  /\ UNCHANGED <<alive, created, role, background, idle, removeTimer, waiting,
                 finishIdle, linkVars, loopVars, jobVars, cancelled>>

\* Bad parameters, an unsupported role or an update that is already there:
\* the method returns an error and releases the id.
MethodFails(t) ==
  /\ MainLoop
  /\ state[t] = "NEW"
  /\ role[t] = "unknown"
  /\ Release(t)

-----------------------------------------------------------------------------
(* Callbacks.                                                              *)

\* Mutant: "not authorized" is reported, and the transaction goes on.
AuthDenied_GoesOn(t) ==
  /\ MainLoop
  /\ t \in auth /\ state[t] = "WAITING_FOR_AUTH"
  /\ auth' = auth \ {t}
  /\ waiting' = waiting \ {t}
  /\ Report(t, "failed")
  /\ Commit(t, FALSE)
  /\ UNCHANGED <<alive, created, role, uid, finishIdle, linkVars, loopVars, job,
                 delay, outstanding, cancelled>>

\* pk_transaction_action_obtain_authorization_finished_cb
AuthDenied(t) ==
  /\ MainLoop
  /\ t \in auth /\ Listed(t)
  /\ auth' = auth \ {t}
  /\ waiting' = waiting \ {t}
  /\ FinishedEmit(t, "failed")
  /\ UNCHANGED <<alive, created, role, uid, finishIdle, linkVars, loopVars,
                 jobVars, cancelled>>

\* Mutant: pk_transaction_set_state lets a finished transaction go back.
AuthGranted_GoesBack(t, b) ==
  /\ MainLoop
  /\ t \in auth /\ Listed(t)
  /\ auth' = auth \ {t}
  /\ waiting' = waiting \ {t}
  /\ Commit(t, b)
  /\ UNCHANGED <<alive, created, role, uid, finishIdle, linkVars, loopVars,
                 job, delay, outstanding, histVars>>

AuthGranted(t, b) ==
  /\ MainLoop
  /\ t \in auth /\ Listed(t)
  /\ auth' = auth \ {t}
  /\ waiting' = waiting \ {t}
  /\ \/ /\ state[t] # "FINISHED"
        /\ Commit(t, b)
     \/ /\ state[t] = "FINISHED"       \* too late: neither commit nor remove
        /\ UNCHANGED <<state, background, timerVars, exit>>
  /\ UNCHANGED <<alive, created, role, uid, finishIdle, linkVars, loopVars,
                 job, delay, outstanding, histVars>>

\* pk_transaction_finished_idle_cb
FinishedIdle(t) ==
  /\ MainLoop
  /\ t \in finishIdle /\ Listed(t)
  /\ finishIdle' = finishIdle \ {t}
  /\ FinishedEmit(t, "success")
  /\ UNCHANGED <<alive, created, role, uid, auth, waiting, linkVars, loopVars,
                 jobVars, cancelled>>

\* Neither callback is withdrawn when the transaction is freed; what it then
\* reads is undefined: the daemon aborts or nothing visible happens.
CallbackOnFreed(t) ==
  /\ MainLoop
  /\ ~Listed(t)
  /\ t \in auth \cup finishIdle
  /\ \/ Crash
     \/ /\ \/ t \in auth /\ auth' = auth \ {t} /\ UNCHANGED finishIdle
           \/ t \in finishIdle /\ finishIdle' = finishIdle \ {t} /\ UNCHANGED auth
        /\ UNCHANGED <<alive, listVars, timerVars, waiting, linkVars, loopVars,
                       jobVars, histVars>>

\* pk_transaction_list_no_commit_cb
NoCommitTimeout(t) ==
  /\ MainLoop
  /\ t \in commitTimer
  /\ Release(t)

\* pk_transaction_list_remove_item_cb
KeepFinishedTimeout(t) ==
  /\ MainLoop
  /\ t \in removeTimer
  /\ Release(t)

-----------------------------------------------------------------------------
(* Running: pk_transaction_list_run_idle_cb and pk_transaction_run.        *)

\* pk_backend_reset finds a finish that was not emitted yet: it emits it
\* now, and the run goes on when every handler has returned.
RunFlushesFinish(t) ==
  /\ MainLoop
  /\ t \in idle
  /\ delay
  /\ delay' = FALSE
  /\ exit' = SetExit("success")
  /\ emission' = connected
  /\ resume' = t
  /\ UNCHANGED <<alive, listVars, timerVars, authVars, linkVars, scan, job,
                 outstanding, histVars>>

MayRun(t) ==
  /\ alive
  /\ emission = {}
  /\ \/ resume = t
     \/ MainLoop /\ t \in idle /\ ~delay

\* Mutant: the list is told and the client is not.
RunEnds_NotReported(t, e) ==
  /\ ListFinished(t, idle \ {t})
  /\ resume' = 0
  /\ UNCHANGED <<alive, created, role, uid, authVars, finished, scan, emission,
                 delay, outstanding, histVars>>

\* The transaction is over before its role is called.
RunEnds(t, e) ==
  /\ Report(t, IF e = "skip" THEN "success" ELSE e)
  /\ ListFinished(t, idle \ {t})
  /\ resume' = 0
  /\ UNCHANGED <<alive, created, role, uid, authVars, finished, scan, emission,
                 delay, outstanding, cancelled>>

\* A plugin set an error or asked to skip, in the phase before the backend is
\* connected ("run") or after it ("started", which leaves it connected).
RunEndedByPlugin(t, phase, e) ==
  /\ MayRun(t)
  /\ phase \in PluginAborts
  /\ exit' = e
  /\ connected' = IF phase = "started" THEN connected \cup {t} ELSE connected
  /\ job' = IF e = "failed" THEN "error" ELSE "clean"
  /\ RunEnds(t, e)

\* pk_backend_reset does nothing while the backend says it is "running"; an
\* error or a skip of the job that is still there then ends this one too.
RunEndedByOther(t) ==
  /\ MayRun(t)
  /\ outstanding > 0
  /\ job = "error" \/ (job = "clean" /\ exit = "skip")
  /\ RunEnds(t, exit)
  /\ UNCHANGED <<exit, job, connected>>

\* Mutant: the idle source is kept.
RunDispatch_KeepsIdle(t) ==
  /\ MayRun(t)
  /\ exit' = "unknown"
  /\ job' = "clean"
  /\ connected' = connected \cup {t}
  /\ outstanding' = outstanding + 1
  /\ resume' = 0
  /\ UNCHANGED <<alive, listVars, timerVars, authVars, finished, scan, emission,
                 delay, histVars>>

\* Reset the backend, connect to all its signals, call the role.
RunDispatch(t) ==
  /\ MayRun(t)
  /\ role[t] # "accept-eula"
  /\ exit' = "unknown"
  /\ job' = "clean"
  /\ connected' = connected \cup {t}
  /\ outstanding' = outstanding + 1
  /\ idle' = idle \ {t}
  /\ resume' = 0
  /\ UNCHANGED <<alive, listVars, commitTimer, removeTimer, authVars, finished,
                 scan, emission, delay, histVars>>

\* The role has no branch in pk_transaction_run: g_error aborts the daemon.
RunAborts(t) ==
  /\ MayRun(t)
  /\ role[t] = "accept-eula"
  /\ Crash

-----------------------------------------------------------------------------
(* The backend.                                                            *)

\* pk_backend_error_code
BackendError ==
  /\ MainLoop
  /\ outstanding > 0
  /\ job # "error"
  /\ job' = IF job = "clean" THEN "error" ELSE job
  /\ exit' = SetExit("failed")
  /\ UNCHANGED <<alive, listVars, timerVars, authVars, linkVars, loopVars,
                 delay, outstanding, histVars>>

\* Mutant: "finished" is noted and never emitted.
SetFinished_NoEmission == job' = "finished" /\ UNCHANGED delay

SetFinished ==
  \/ /\ job # "finished"
     /\ job' = "finished"
     /\ delay' = TRUE
  \/ /\ job = "finished"               \* "already finished"
     /\ UNCHANGED <<job, delay>>

\* Mutant: pk_backend_finished with no role call behind it.
BackendFinished_OutOfNowhere ==
  /\ MainLoop
  /\ outstanding' = outstanding - 1
  /\ SetFinished
  /\ UNCHANGED <<alive, listVars, timerVars, authVars, linkVars, loopVars,
                 exit, histVars>>

\* The code behind one role call is done and calls pk_backend_finished.
BackendFinished ==
  /\ MainLoop
  /\ outstanding > 0
  /\ outstanding' = outstanding - 1
  /\ SetFinished
  /\ UNCHANGED <<alive, listVars, timerVars, authVars, linkVars, loopVars,
                 exit, histVars>>

\* pk_backend_error_timeout_delay_cb: it set an error and did not go on.
ErrorTimeout ==
  /\ MainLoop
  /\ job = "error"
  /\ SetFinished
  /\ UNCHANGED <<alive, listVars, timerVars, authVars, linkVars, loopVars,
                 exit, outstanding, histVars>>

\* pk_backend_finished_delay, when the grace time is over
FinishedDelay ==
  /\ MainLoop
  /\ delay
  /\ delay' = FALSE
  /\ exit' = SetExit("success")
  /\ emission' = connected
  /\ UNCHANGED <<alive, listVars, timerVars, authVars, linkVars, scan, resume,
                 job, outstanding, histVars>>

\* pk_transaction_finished_cb of one connected transaction.  The exit code
\* is replaced when a signature, a licence or a disc is "required".
FinishedCb(t, e) ==
  /\ alive
  /\ t \in emission /\ Listed(t)
  /\ emission' = emission \ {t}
  /\ finished' = finished \cup {t}
  /\ connected' = connected \ {t}
  /\ e \in {exit, "required"}
  /\ FinishedEmit(t, e)
  /\ UNCHANGED <<alive, created, role, uid, authVars, scan, resume, jobVars,
                 cancelled>>

\* The handlers of a freed transaction were never disconnected.
FinishedCbOnFreed(t) ==
  /\ alive
  /\ t \in emission /\ ~Listed(t)
  /\ \/ Crash
     \/ /\ emission' = emission \ {t}
        /\ UNCHANGED <<alive, listVars, timerVars, authVars, linkVars, scan,
                       resume, jobVars, histVars>>

-----------------------------------------------------------------------------
(* Cancelling.  Only the client that called GetTid may call Cancel.        *)

\* Not started yet: the transaction just finishes (the release that follows
\* is refused, as it is FINISHED by then).
CancelQueued(t) ==
  /\ CanCancel
  /\ state[t] \in BeforeRunning
  /\ FinishedEmit(t, "cancelled")
  /\ UNCHANGED <<exit, cancelled>>

\* Otherwise the backend is told, whatever it is doing.
CancelBackend(t, e) ==
  /\ CanCancel
  /\ state[t] \in {"RUNNING", "FINISHED"}
  /\ exit' = SetExit(e)
  /\ cancelled' = cancelled \cup ({t} \cap Running)
  /\ UNCHANGED <<state, background, timerVars, report>>

Cancel(t) ==
  /\ MainLoop
  /\ "Cancel" \in Calls
  /\ Listed(t)
  /\ t \notin finished
  /\ role[t] # "unknown"
  /\ CancelQueued(t) \/ CancelBackend(t, "cancelled")
  /\ UNCHANGED <<alive, created, role, uid, authVars, linkVars, loopVars, job,
                 delay, outstanding>>

\* SuggestDaemonQuit: pk_transaction_list_cancel_background walks the array
\* twice, once for what is queued and once for what is running.
CancelBackground ==
  /\ MainLoop
  /\ "SuggestDaemonQuit" \in Calls
  /\ scan' = [loop |-> "pending", at |-> 1]
  /\ UNCHANGED <<alive, listVars, timerVars, authVars, linkVars, emission,
                 resume, jobVars, histVars>>

\* The items that the rest of the loop would cancel, as things stand.
ToScan ==
  {t \in scan.at..MaxTid :
     /\ CanCancel
     /\ \/ scan.loop = "pending" /\ state[t] \in BeforeRunning
        \/ scan.loop = "running" /\ state[t] = "RUNNING" /\ t \in background}

ScanItem(t) ==
  /\ alive
  /\ t \in First(ToScan)
  /\ scan' = [scan EXCEPT !.at = t + 1]
  /\ CancelQueued(t) \/ CancelBackend(t, "cancelled-priority")
  /\ UNCHANGED <<alive, created, role, uid, authVars, linkVars, emission,
                 resume, job, delay, outstanding>>

ScanEnd ==
  /\ alive
  /\ scan.loop # "none"
  /\ ToScan = {}
  /\ scan' = IF scan.loop = "pending" THEN [loop |-> "running", at |-> 1]
                                      ELSE NoScan
  /\ UNCHANGED <<alive, listVars, timerVars, authVars, linkVars, emission,
                 resume, jobVars, histVars>>

-----------------------------------------------------------------------------
ClientNext ==
  \/ \E u \in Uids : Create(u) \/ CreateRefused(u)
  \/ \E t \in Tid :
       \/ \E r \in Roles, b \in BOOLEAN : Query(t, r, b)
       \/ \E r \in Roles : AnswerFromCache(t, r) \/ Privileged(t, r)
       \/ AcceptEula(t) \/ AcceptEulaFails(t) \/ MethodFails(t)
       \/ Cancel(t)
  \/ CancelBackground

CallbackNext ==
  \E t \in Tid :
    \/ AuthDenied(t) \/ (\E b \in BOOLEAN : AuthGranted(t, b))
    \/ FinishedIdle(t) \/ CallbackOnFreed(t)
    \/ NoCommitTimeout(t) \/ KeepFinishedTimeout(t)

RunNext ==
  \E t \in Tid :
    \/ RunFlushesFinish(t)
    \/ \E p \in PluginAborts, e \in {"failed", "skip"} : RunEndedByPlugin(t, p, e)
    \/ RunEndedByOther(t) \/ RunDispatch(t) \/ RunAborts(t)

\* What the daemon owes: a role call ends, and what it reports is passed on.
FinishNext ==
  \/ BackendFinished \/ ErrorTimeout \/ FinishedDelay
  \/ \E t \in Tid :
       \/ \E e \in ExitCodes \cup {"required"} : FinishedCb(t, e)
       \/ FinishedCbOnFreed(t)

ScanNext == ScanEnd \/ \E t \in Tid : ScanItem(t)

Next ==
  ClientNext \/ CallbackNext \/ RunNext \/ BackendError \/ FinishNext \/ ScanNext

Spec == Init /\ [][Next]_vars

\* The main loop comes back to every ready idle source and timeout, however
\* often a D-Bus call got in between (strong fairness, as a loop that calls
\* back into the list holds it up), and the code behind a role call ends.
\* Clients, plugins and the user at the polkit prompt owe nothing.
Fairness == SF_vars(RunNext) /\ SF_vars(FinishNext) /\ WF_vars(ScanNext)
FairSpec == Spec /\ Fairness

-----------------------------------------------------------------------------
(* Safety.                                                                 *)

\* A queued transaction always has a running one that will hand on to it:
\* the list has no other way to start it (what the code's own consistency
\* check calls "everything is waiting").
NotWedged == Ready # {} => Running # {}

\* The GLib sources of an item are those of its state: one that has yet to
\* be committed can time out, one that is finished will be removed, and a
\* start is scheduled only for one that is running.
SourcesMatchState ==
  /\ commitTimer = {t \in Tid : state[t] \in {"NEW", "WAITING_FOR_AUTH"}}
  /\ removeTimer = {t \in Tid : state[t] = "FINISHED"}
  /\ \A t \in idle : \/ state[t] = "RUNNING"
                     \/ state[t] = "FINISHED" /\ role[t] = "accept-eula"

\* A transaction is over for the list exactly when its client was told so,
\* and nothing is said of one that is not there yet.
ReportedIsOver ==
  \A t \in Tid : state[t] # "gone" =>
                   (state[t] = "FINISHED" <=> report[t] # "none")

\* Whatever a running transaction was interrupted by, something is still
\* under way that will finish it.
RunningHasCompletion ==
  \A t \in Running :
    \/ t \in idle
    \/ /\ t \in connected
       /\ \/ t \in emission \/ delay \/ job = "error"
          \/ job = "clean" /\ outstanding > 0

\* The role of a transaction is called at most once.
NeverRunTwice == idle \cap (connected \cup finished) = {}

\* Two updates of the whole system are never in the list together.
SingleUpdateSystem ==
  \A t, u \in InList :
    /\ role[t] = "update-system" /\ state[t] # "FINISHED"
    /\ role[u] = "update-system" /\ state[u] # "FINISHED"
    => t = u

\* In which state each pending callback or handler can find its item: a polkit
\* answer never finds one that is queued, an idle "finished" finds one that was
\* never committed (or an accept-eula one), a handler of the backend one that
\* ran, and a suspended run is still scheduled.
CallbacksFindStates ==
  /\ \A t \in Tid : t > created => state[t] = "none"
  /\ \A t \in auth : state[t] \in {"WAITING_FOR_AUTH", "FINISHED", "gone"}
  /\ \A t \in finishIdle : \/ state[t] \in {"NEW", "FINISHED", "gone"}
                           \/ role[t] = "accept-eula" /\ Listed(t)
  /\ \A t \in finishIdle : state[t] = "NEW" => role[t] # "unknown"
  /\ \A t \in connected : state[t] \in {"RUNNING", "FINISHED", "gone"}
  /\ \A t \in finished : state[t] = "FINISHED"
  /\ emission \subseteq connected
  /\ resume # 0 => resume \in idle

\* A role that needs authorization enters the queue only in the step that
\* answers its polkit question, and not in one that reports a failure.
AuthorisedFirst ==
  [][\A t \in Tid :
       /\ role[t] \in {"authorised", "update-system"}
       /\ state[t] \notin {"READY", "RUNNING"}
       /\ state'[t] \in {"READY", "RUNNING"}
       => t \in auth \ auth' /\ report'[t] = report[t]]_vars

\* The list implements the abstract schedule.
Phase(t) ==
  CASE state[t] = "none" -> "absent"
    [] state[t] \in {"NEW", "WAITING_FOR_AUTH"} -> "open"
    [] state[t] = "READY" -> "queued"
    [] state[t] = "RUNNING" -> "running"
    [] state[t] = "FINISHED" -> "over"
    [] state[t] = "gone" -> "gone"
Schedule == INSTANCE PkSchedule WITH phase <- [t \in Tid |-> Phase(t)],
                                     low <- background \cap Ready
ImplementsSchedule == Schedule!Spec

-----------------------------------------------------------------------------
(* Liveness.                                                               *)

\* A queued foreground transaction is started (or ends) in the end.
ForegroundServed ==
  \A t \in Tid : t \in Ready \ background ~> t \notin Ready

\* A running transaction finishes, and its client is told.
RunningEnds == \A t \in Tid : t \in Running ~> t \notin Running

-----------------------------------------------------------------------------
(* What the documentation and the code's comments say, and is not so.      *)

\* "PackageKit can only be running one transaction at any one time"
OneRunning == \A t, u \in Running : t = u

\* A foreground transaction that is queued behind a background one cancels
\* it, as CancelBackgroundTransactions says and its default asks for.
ForegroundCancels ==
  [][\A t \in Tid :
       /\ t \notin Ready /\ t \in Ready' /\ t \notin background'
       /\ First(Running) \subseteq background
       /\ exit = "unknown"
       => exit' = "cancelled-priority"]_vars

\* Cancelling a transaction that is finished leaves a running job alone.
CancelFinishedIsNoOp ==
  [][exit = "unknown" /\ exit' = "cancelled" /\ connected # {}
       => cancelled' \cap connected # {}]_vars

\* A user has no more transactions in the list than SimultaneousTransactionsForUid,
\* "the maximum number of requests a given user is able to request and queue".
UidWithinLimit == \A u \in Uids : Cardinality(ItemsOf(u)) <= MaxPerUid

\* What the code keeps to instead: one more than that.
UidBound == \A u \in Uids : Cardinality(ItemsOf(u)) <= MaxPerUid + 1
=============================================================================
