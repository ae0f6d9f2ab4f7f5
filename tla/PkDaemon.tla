------------------------------ MODULE PkDaemon ------------------------------
(***************************************************************************)
(* What packagekitd keeps between transactions, and when it leaves: the    *)
(* engine (pk-engine.c) with its timers, the cached update list            *)
(* (pk-cache.c), the delayed UpdatesChanged (pk-notify.c), the job counter *)
(* of the database (pk-transaction-db.c) and the idle check of pk-main.c.  *)
(*                                                                         *)
(* The daemon quits, crashes and is started again by the bus any number of *)
(* times.  A transaction is a member of the list with a role.  Which one   *)
(* runs next is in PkTransactionList, where several may run at once; here  *)
(* any of them may.  The packages are a number, which grows whenever the   *)
(* list of updates may have changed.                                       *)
(*                                                                         *)
(* Two things are chosen where they are used: whether the idle time has    *)
(* passed (clients may call or not, and each call and each step of a       *)
(* transaction starts it again), and whether a SetProxy or SetRoot waits   *)
(* for polkit.                                                             *)
(***************************************************************************)
EXTENDS Integers, FiniteSets

CONSTANTS
  MaxTid,    \* bound: the job counter
  MaxWorld   \* bound: changes of the packages

ASSUME DaemonAssumption == MaxTid \in Nat /\ MaxWorld \in Nat

Tid == 1..MaxTid          \* the number in the tid
World == 0..MaxWorld

VARIABLES
  up,         \* the daemon is there
  \* PkTransactionDb
  count,      \* priv->job_count
  saveDue,    \* priv->database_save_id
  saved,      \* job_count in the database
  \* PkEngine
  asap,       \* priv->shutdown_as_soon_as_possible, notify_clients_of_upgrade
  ids,        \* which of priv->timeout_priority_id, timeout_normal_id are set
  armed,      \* the timers of StateHasChanged that the main loop has
  \* PkCache, PkNotify and the list
  cache,      \* the cached GetUpdates
  notify,     \* priv->timeout_id
  tr,         \* the transactions
  \* the surroundings
  world,      \* the packages
  \* history
  high,       \* the last number handed out that no crash has lost
  asked,      \* the packages at the last StateHasChanged
  changed,    \* the packages after the last transaction that changed them
  told        \* the packages at the last UpdatesChanged

countVars == <<count, saveDue, saved, high>>
timerVars == <<ids, armed>>
historyVars == <<asked, changed, told>>
vars == <<up, countVars, asap, timerVars, cache, notify, tr, world,
          historyVars>>

\* Roles after which the update list may have changed, as
\* pk_transaction_finish_invalidate_caches has it; installing is not one.
Invalidating == {"refresh-cache", "update-packages"}
Role == Invalidating \cup {"get-updates", "install-packages"}
Reasons == {"priority", "normal"}   \* "posttrans", and "resume"

Transaction ==
  [state : {"none", "new", "queued", "running", "kept"},
   role : Role \cup {"unknown"},
   seen : World,         \* the packages that its GetUpdates looked at
   crossed : BOOLEAN,    \* the cached list was declared stale while it ran
   behind : BOOLEAN]     \* its removal timer was set after the one of PkNotify
NoTransaction == [state |-> "none", role |-> "unknown", seen |-> 0,
                  crossed |-> FALSE, behind |-> FALSE]
List == [seen : World, crossed : BOOLEAN]
NoList == [seen |-> 0 - 1, crossed |-> FALSE]

TypeOK ==
  /\ up \in BOOLEAN
  /\ high \in 0..MaxTid /\ count \in 0..high /\ saved \in 0..high
  /\ saveDue \in BOOLEAN
  /\ asap \in BOOLEAN
  /\ ids \subseteq Reasons /\ armed \subseteq Reasons
  /\ cache \in List \cup {NoList}
  /\ notify \in BOOLEAN
  /\ tr \in [Tid -> Transaction]
  /\ world \in World
  /\ asked \in 0..world /\ changed \in 0..world /\ told \in 0..world

Init ==
  /\ up = FALSE
  /\ count = 0 /\ saveDue = FALSE /\ saved = 0 /\ high = 0
  /\ asap = FALSE
  /\ ids = {} /\ armed = {}
  /\ cache = NoList /\ notify = FALSE
  /\ tr = [t \in Tid |-> NoTransaction]
  /\ world = 0
  /\ asked = 0 /\ changed = 0 /\ told = 0

Listed == {t \in Tid : tr[t].state # "none"}

-----------------------------------------------------------------------------
(* The daemon begins and ends.                                             *)

\* pk_engine_init; pk_transaction_db_init reads the counter.
Start ==
  /\ ~up
  /\ up' = TRUE
  /\ count' = saved
  /\ UNCHANGED <<saveDue, saved, high, asap, timerVars, cache, notify, tr, world,
                 historyVars>>

\* Nothing but the database is left.
Gone ==
  /\ up
  /\ up' = FALSE
  /\ count' = 0 /\ saveDue' = FALSE
  /\ asap' = FALSE
  /\ ids' = {} /\ armed' = {}
  /\ cache' = NoList /\ notify' = FALSE
  /\ tr' = [t \in Tid |-> NoTransaction]
  /\ asked' = 0 /\ changed' = 0 /\ told' = 0
  /\ UNCHANGED world

\* The numbers that were not written are handed out again.
Lost == high' = IF saved' < high THEN saved' ELSE high

\* Mutant: the counter is not written at the end.
Finalize_NoWrite(waiting) == saved' = saved

\* pk_transaction_db_finalize writes a counter that is not written yet.  A
\* question to polkit holds a reference on the engine: while one is waiting
\* for its answer, nothing is finalized.
Finalize(waiting) == saved' = IF saveDue /\ ~waiting THEN count ELSE saved

\* The main loop is left in order, and the objects are released.
Quit ==
  /\ Gone
  /\ \E waiting \in BOOLEAN :
       /\ Finalize(waiting)
       /\ IF waiting THEN Lost ELSE UNCHANGED high

\* SIGINT, or the name was lost: whatever is going on.
Interrupt == Quit

\* The daemon or the machine goes down.
Crash ==
  /\ Gone
  /\ UNCHANGED saved
  /\ Lost

\* Mutant: a daemon that shall go waits for the idle time as well.
SecondsIdle_NoAsap(passed) == Listed = {} /\ passed

\* pk_engine_get_seconds_idle is more than ShutdownTimeout.
SecondsIdle(passed) == Listed = {} /\ (asap \/ passed)

\* pk_main_timeout_check_cb, every five seconds; main sets it up unless
\* ShutdownTimeout is 0 (or --disable-timer was given), which is not modelled.
Poll(passed) == SecondsIdle(passed) /\ Quit

-----------------------------------------------------------------------------
(* Calls of clients, and what the engine watches.                          *)

\* Mutant: the next number is written.
SaveCount_Next ==
  /\ saveDue
  /\ saved' = count + 1
  /\ saveDue' = FALSE
  /\ UNCHANGED <<up, count, high, asap, timerVars, cache, notify, tr, world,
                 historyVars>>

\* pk_transaction_db_defer_write_job_count_cb
SaveCount ==
  /\ saveDue
  /\ saved' = count
  /\ saveDue' = FALSE
  /\ UNCHANGED <<up, count, high, asap, timerVars, cache, notify, tr, world,
                 historyVars>>

\* GetTid: pk_transaction_db_generate_id
GetTid ==
  /\ up
  /\ count < MaxTid
  /\ count' = count + 1
  /\ saveDue' = TRUE
  /\ high' = count'
  /\ tr' = [tr EXCEPT ![count'].state = "new"]
  /\ UNCHANGED <<up, saved, asap, timerVars, cache, notify, world, historyVars>>

\* SuggestDaemonQuit: at once, if there is no transaction.
SuggestDaemonQuit ==
  /\ up
  /\ IF Listed = {} THEN Quit
     ELSE /\ asap' = TRUE
          /\ UNCHANGED <<up, countVars, timerVars, cache, notify, tr, world,
                         historyVars>>

\* The configuration, or the program of the daemon, was replaced.
FileChanged ==
  /\ up
  /\ asap' = TRUE
  /\ UNCHANGED <<up, countVars, timerVars, cache, notify, tr, world, historyVars>>

-----------------------------------------------------------------------------
(* StateHasChanged.                                                        *)

\* Already scheduled, or the timer is set; a priority one replaces a normal one.
Schedule(reason) ==
  IF "priority" \in ids \/ (reason = "normal" /\ "normal" \in ids)
  THEN UNCHANGED timerVars
  ELSE /\ ids' = (ids \ {"normal"}) \cup {reason}
       /\ armed' = (armed \ (ids \cap {"normal"})) \cup {reason}

StateHasChanged(reason) ==
  /\ up
  /\ Schedule(reason)
  /\ asked' = world
  /\ UNCHANGED <<up, countVars, asap, cache, notify, tr, world, changed, told>>

\* The transactions, when the cached list is declared stale: a GetUpdates that
\* runs meanwhile will store another one.
Crossed == [t \in Tid |-> IF tr[t].state = "running" /\ tr[t].role = "get-updates"
                          THEN [tr[t] EXCEPT !.crossed = TRUE] ELSE tr[t]]

\* Mutant: the cached list is kept.
DropCaches_Keep == UNCHANGED <<cache, tr>>

\* pk_cache_invalidate
DropCaches == cache' = NoList /\ tr' = Crossed

\* Mutant: the engine forgets that the timer has gone off.
StateChangedCb_KeepsId(reason) ==
  /\ reason \in armed
  /\ armed' = armed \ {reason}
  /\ DropCaches
  /\ told' = world
  /\ UNCHANGED <<up, countVars, asap, ids, notify, world, asked, changed>>

\* pk_engine_state_changed_cb.  Offline, the timer is left to come again: that
\* is no step, and this one is when the network is up.
StateChangedCb(reason) ==
  /\ reason \in armed
  /\ armed' = armed \ {reason}
  /\ ids' = {}
  /\ DropCaches
  /\ told' = world
  /\ UNCHANGED <<up, countVars, asap, notify, world, asked, changed>>

-----------------------------------------------------------------------------
(* Transactions.                                                           *)

TransactionStep == UNCHANGED <<up, countVars, asap, timerVars, asked, told>>

\* pk_transaction_finished_emit: the list keeps the item for five seconds.
Kept == [NoTransaction EXCEPT !.state = "kept", !.behind = notify']
Keep(t) == tr' = [tr EXCEPT ![t] = Kept]

\* The method of a role: GetUpdates may be answered from the cache, and
\* RefreshCache drops it before it is authorized.
Call(t, role) ==
  /\ TransactionStep
  /\ tr[t].state = "new"
  /\ UNCHANGED <<notify, world, changed>>
  /\ IF role = "get-updates" /\ cache # NoList THEN Keep(t)
     ELSE tr' = [tr EXCEPT ![t] = [tr[t] EXCEPT !.state = "queued", !.role = role]]
  /\ cache' = IF role = "refresh-cache" THEN NoList ELSE cache

\* The job of a GetUpdates looks at the packages as early as it can.
Run(t) ==
  /\ TransactionStep
  /\ tr[t].state = "queued"
  /\ tr' = [tr EXCEPT ![t] =
              [tr[t] EXCEPT !.state = "running",
                 !.seen = IF tr[t].role = "get-updates" THEN world ELSE 0]]
  /\ UNCHANGED <<cache, notify, world, changed>>

\* The job of another role changes the packages.
Change(t) ==
  /\ TransactionStep
  /\ tr[t].state = "running" /\ tr[t].role # "get-updates"
  /\ world < MaxWorld
  /\ world' = world + 1
  /\ UNCHANGED <<tr, cache, notify, changed>>

\* Mutant: the cached list outlives the transactions that change it.
StoreAndInvalidate_NoDrop(t) ==
  /\ cache' = IF tr[t].role = "get-updates"
              THEN [seen |-> tr[t].seen, crossed |-> tr[t].crossed]
              ELSE cache
  /\ notify' = (notify \/ tr[t].role \in Invalidating)

\* pk_transaction_finish_invalidate_caches; while a notification is due,
\* pk_notify_wait_updates_changed has nothing to do.
StoreAndInvalidate(t) ==
  /\ cache' = IF tr[t].role = "get-updates"
              THEN [seen |-> tr[t].seen, crossed |-> tr[t].crossed]
              ELSE IF tr[t].role \in Invalidating THEN NoList ELSE cache
  /\ notify' = (notify \/ tr[t].role \in Invalidating)

\* pk_transaction_finished_cb with success ...
Finish(t) ==
  /\ TransactionStep
  /\ tr[t].state = "running"
  /\ StoreAndInvalidate(t)
  /\ tr' = [(IF tr[t].role \in Invalidating THEN Crossed ELSE tr) EXCEPT ![t] = Kept]
  /\ changed' = IF tr[t].role \in Invalidating THEN world ELSE changed
  /\ UNCHANGED world

\* ... or without; or the transaction was cancelled or refused before it ran.
Fail(t) ==
  /\ TransactionStep
  /\ tr[t].state \in {"queued", "running"}
  /\ UNCHANGED <<cache, notify, world, changed>>
  /\ Keep(t)

\* Mutant: an item may be removed first.
MayRemove_AnyTime(t) == tr[t].state \in {"new", "kept"}

\* The commit timer (300 s), or PK_TRANSACTION_LIST_KEEP_FINISHED_TIMOUT (5 s),
\* which comes after a PK_TRANSACTION_UPDATES_CHANGED_TIMEOUT (0.1 s) that was
\* set before it.
MayRemove(t) ==
  \/ tr[t].state = "new"
  \/ tr[t].state = "kept" /\ ~tr[t].behind

Remove(t) ==
  /\ TransactionStep
  /\ MayRemove(t)
  /\ tr' = [tr EXCEPT ![t] = NoTransaction]
  /\ UNCHANGED <<cache, notify, world, changed>>

\* Mutant: a notification that was waited for is not sent.
UpdatesChanged_Not == told' = told

UpdatesChanged == told' = world

\* pk_notify_finished_updates_changed_cb
NotifyCb ==
  /\ notify
  /\ notify' = FALSE
  /\ UpdatesChanged
  /\ tr' = [t \in Tid |-> [tr[t] EXCEPT !.behind = FALSE]]
  /\ UNCHANGED <<up, countVars, asap, timerVars, cache, world, asked, changed>>

\* A native tool changes the packages.
ToolRuns ==
  /\ world < MaxWorld
  /\ world' = world + 1
  /\ UNCHANGED <<up, countVars, asap, timerVars, cache, notify, tr, historyVars>>

-----------------------------------------------------------------------------
Calls ==
  \/ GetTid \/ SuggestDaemonQuit
  \/ \E reason \in Reasons : StateHasChanged(reason)
  \/ \E t \in Tid, role \in Role : Call(t, role)

Timers ==
  \/ SaveCount \/ NotifyCb
  \/ \E passed \in BOOLEAN : Poll(passed)
  \/ \E reason \in Reasons : StateChangedCb(reason)

Jobs(t) == Run(t) \/ Finish(t) \/ Fail(t) \/ Remove(t)

Next ==
  \/ Start \/ Interrupt \/ Crash \/ FileChanged \/ ToolRuns \/ Calls \/ Timers
  \/ \E t \in Tid : Change(t) \/ Jobs(t)

Spec == Init /\ [][Next]_vars

\* The main loop dispatches its timers, jobs end, and the network is not
\* offline for ever.  That there is a Poll is the assumption of a
\* ShutdownTimeout that is not 0.  The idle time does not have to pass, nor does anything
\* have to be called.
Fairness ==
  /\ WF_vars(Poll(FALSE)) /\ WF_vars(NotifyCb)
  /\ \A reason \in Reasons : WF_vars(StateChangedCb(reason))
  /\ \A t \in Tid : WF_vars(Jobs(t))
FairSpec == Spec /\ Fairness

-----------------------------------------------------------------------------
(* Properties.                                                             *)

\* The next number is a new one, across any quits, crashes and starts.  Only
\* what a crash lost before the idle write, or a quit with a question to
\* polkit open, is handed out again.
NumbersAreNew == IF up THEN count >= high ELSE saved >= high

\* The engine knows the timer of StateHasChanged that the main loop has, and
\* there is at most one: it can be replaced, and is removed at the end.
TimerIsKnown == armed = ids /\ Cardinality(armed) <= 1

\* Between a change and what tells it to the clients there is always a timer that
\* is going to: no order of calls, transactions and timers leaves a change behind
\* with nothing due, or with one that the engine only believes to be due.
ChangeHasTimer ==
  /\ asked > told => armed # {}
  /\ changed > told => notify

\* The list that GetUpdates is answered with is as new as the last transaction
\* that is known to change it, and as the last StateHasChanged whose delay is
\* over; unless its own job ran while the list before was declared stale.
CacheIsCurrent ==
  cache # NoList /\ ~cache.crossed =>
    cache.seen >= changed /\ (cache.seen >= asked \/ armed # {})

\* When the daemon leaves of its own accord, no UpdatesChanged is due: as long
\* as one is, a transaction is in the list.
NotifyBeforeLeaving == notify => Listed # {}

\* A change that the daemon made or heard of is told to the clients, unless it
\* quits or crashes before.
ChangesAreTold ==
  \A v \in World : up /\ (changed >= v \/ asked >= v) ~> told >= v \/ ~up

\* A daemon that is to quit does so when clients create no more transactions,
\* whatever else they call, and however often.  With ShutdownTimeout = 0 it would
\* not: main then has no timer that looks (pk-main.c:273).
SuggestedQuitHappens == asap ~> ~up
=============================================================================
