------------------------------ MODULE PkBackend ------------------------------
(***************************************************************************)
(* The backend object of packagekitd (pk-backend.c) with worker threads:   *)
(* how a job is started, fails, finishes and is reported to the            *)
(* transaction that is connected to it.                                    *)
(*                                                                         *)
(* The main loop starts the jobs and dispatches the GLib sources; the role *)
(* of each job runs in a worker thread of its own.  The object has no      *)
(* lock, so pk_backend_error_code, pk_backend_finished and                 *)
(* pk_backend_set_exit_code are several steps each, in whichever thread    *)
(* calls them: a flag that is tested in one step is written in another.    *)
(*                                                                         *)
(* One transaction runs at a time here.  What the object does to several   *)
(* is in PkTransactionList, where each of these calls is one step.         *)
(***************************************************************************)
EXTENDS Integers

CONSTANT MaxJob           \* bound: jobs started

ASSUME BackendAssumption == MaxJob \in Nat

Job == 1..MaxJob          \* also the name of the worker of that job
Proc == 0..MaxJob         \* 0 is the main loop

VARIABLES
  job,          \* jobs started so far: the number of the current one
  connected,    \* the transaction of the current job listens
  setError,     \* priv->set_error
  finished,     \* priv->finished
  exit,         \* priv->exit
  thread,       \* priv->thread, or 0
  errorTimer,   \* priv->signal_error_timeout
  finishTimer,  \* priv->signal_finished
  sources,      \* the sources that the main loop will dispatch
  pc,           \* where each thread is
  added,        \* the source that a thread added last: its local id
  inError,      \* the main loop is in pk_backend_error_timeout_delay_cb
  stopped,      \* workers whose transaction_stop was run
  reported,     \* the exit code that the transaction of each job was sent
  late          \* a worker once outlived a time-out: 10 ms after it added the
                \* source of pk_backend_finished it was still in that call, or
                \* 2 s after an error it had not finished or left its role

privVars == <<setError, finished, exit, thread, errorTimer, finishTimer>>
vars == <<job, connected, privVars, sources, pc, added, inError, stopped,
          reported, late>>

ExitCodes == {"unknown", "success", "failed", "cancelled"}
Source == [kind : {"error", "finish", "thread"}, by : Proc, job : Job]
NoSource == [kind |-> "none", by |-> 0, job |-> 0]
SourceOf(kind, p) == [kind |-> kind, by |-> p, job |-> job]

Finishing == {"finish-stop", "finish-mark", "finish-store"}
InRole == {"run", "error-store", "error-exit", "error-set"}
MainLabels == {"idle", "store-thread", "cancel-set", "delay-exit",
               "delay-emit"} \cup Finishing
WorkerLabels == {"none", "return", "done"} \cup InRole \cup Finishing

TypeOK ==
  /\ job \in 0..MaxJob
  /\ connected \in BOOLEAN
  /\ setError \in BOOLEAN
  /\ finished \in BOOLEAN
  /\ exit \in ExitCodes
  /\ thread \in 0..MaxJob
  /\ errorTimer \in Source \cup {NoSource}
  /\ finishTimer \in Source \cup {NoSource}
  /\ sources \subseteq Source
  /\ pc \in [Proc -> MainLabels \cup WorkerLabels]
  /\ pc[0] \in MainLabels
  /\ \A w \in Job : pc[w] \in WorkerLabels
  /\ added \in [Proc -> Source \cup {NoSource}]
  /\ inError \in BOOLEAN
  /\ stopped \subseteq Job
  /\ reported \in [Job -> {"none"} \cup (ExitCodes \ {"unknown"})]
  /\ late \in BOOLEAN

Init ==
  /\ job = 0
  /\ connected = FALSE
  /\ setError = FALSE /\ finished = FALSE /\ exit = "unknown" /\ thread = 0
  /\ errorTimer = NoSource /\ finishTimer = NoSource
  /\ sources = {}
  /\ pc = [p \in Proc |-> IF p = 0 THEN "idle" ELSE "none"]
  /\ added = [p \in Proc |-> NoSource]
  /\ inError = FALSE
  /\ stopped = {}
  /\ reported = [j \in Job |-> "none"]
  /\ late = FALSE

Goto(p, label) == pc' = [pc EXCEPT ![p] = label]

-----------------------------------------------------------------------------
(* Starting a job: pk_transaction_run.                                     *)

\* The list starts the next transaction when the one before was told.
MayStart ==
  /\ pc[0] = "idle"
  /\ job < MaxJob
  /\ ~connected
  /\ job' = job + 1

\* Mutant: the error timer of the job before is left in the main loop.
Reset_KeepsErrorTimer ==
  /\ sources' = sources \ {finishTimer}
  /\ finishTimer' = NoSource
  /\ finished' = FALSE
  /\ thread' = 0

\* pk_backend_reset.  A "finished" that it still has to emit goes to nobody:
\* the transaction of this job is not connected yet.
Reset ==
  /\ sources' = sources \ {finishTimer, errorTimer}
  /\ finishTimer' = NoSource
  /\ finished' = FALSE
  /\ thread' = 0

\* The role method of the backend creates its thread, which runs at once;
\* the object learns of the thread in a later step.
ThreadCreate ==
  /\ MayStart
  /\ Reset
  /\ setError' = FALSE
  /\ errorTimer' = NoSource
  /\ exit' = "unknown"
  /\ connected' = TRUE
  /\ pc' = [pc EXCEPT ![0] = "store-thread", ![job'] = "run"]
  /\ UNCHANGED <<added, inError, stopped, reported, late>>

StoreThread ==
  /\ pc[0] = "store-thread"
  /\ thread' = job
  /\ Goto(0, "idle")
  /\ UNCHANGED <<job, connected, setError, finished, exit, errorTimer,
                 finishTimer, sources, added, inError, stopped, reported, late>>

\* A plugin sets an error before the transaction is connected: it ends there,
\* with the error timer running.
PluginError ==
  LET s == [kind |-> "error", by |-> 0, job |-> job']
  IN  /\ MayStart
      /\ sources' = (sources \ {finishTimer, errorTimer}) \cup {s}
      /\ finishTimer' = NoSource
      /\ finished' = FALSE
      /\ thread' = 0
      /\ setError' = TRUE
      /\ errorTimer' = s
      /\ exit' = "failed"
      /\ reported' = [reported EXCEPT ![job'] = "failed"]
      /\ UNCHANGED <<connected, pc, added, inError, stopped, late>>

-----------------------------------------------------------------------------
(* pk_backend_finished, in the worker or in the main loop.                 *)

\* Where a thread goes on when pk_backend_finished returns.
Back(p) == IF p = 0 THEN "idle" ELSE "return"

\* Mutant: a thread that comes too late is ended.
FinishedCall_Exits(p) == Goto(p, IF finished THEN "done" ELSE "finish-stop")

FinishedCall(p) == Goto(p, IF finished THEN Back(p) ELSE "finish-stop")

\* Threaded backends get their transaction_stop fired, if the object knows
\* of the thread.
FinishStop(p) ==
  /\ pc[p] = "finish-stop"
  /\ Goto(p, "finish-mark")
  /\ stopped' = IF thread = 0 THEN stopped
                ELSE stopped \cup {IF p = 0 THEN thread ELSE p}
  /\ UNCHANGED <<job, connected, privVars, sources, added, inError, reported,
                 late>>

\* Mutant: finished, and no emission is scheduled.
FinishMark_NoEmission(p) ==
  /\ pc[p] = "finish-mark"
  /\ finished' = TRUE
  /\ errorTimer' = NoSource
  /\ sources' = sources \ {errorTimer}
  /\ Goto(p, "finish-store")
  /\ UNCHANGED <<job, connected, setError, exit, thread, finishTimer, added,
                 inError, stopped, reported, late>>

FinishMark(p) ==
  LET s == SourceOf("finish", p)
  IN  /\ pc[p] = "finish-mark"
      /\ finished' = TRUE
      /\ errorTimer' = NoSource
      /\ sources' = (sources \ {errorTimer}) \cup {s}
      /\ added' = [added EXCEPT ![p] = s]
      /\ Goto(p, "finish-store")
      /\ UNCHANGED <<job, connected, setError, exit, thread, finishTimer,
                     inError, stopped, reported, late>>

FinishStore(p) ==
  /\ pc[p] = "finish-store"
  /\ finishTimer' = added[p]
  /\ errorTimer' = IF p = 0 /\ inError THEN NoSource ELSE errorTimer
  /\ inError' = IF p = 0 THEN FALSE ELSE inError
  /\ Goto(p, Back(p))
  /\ UNCHANGED <<job, connected, setError, finished, exit, thread, sources,
                 added, stopped, reported, late>>

Finish(p) == FinishStop(p) \/ FinishMark(p) \/ FinishStore(p)

-----------------------------------------------------------------------------
(* The worker: pk_backend_thread_setup and the role's own code.            *)

\* Mutant: the exit code is left to "finished".
ErrorExit_Forgotten(w) ==
  /\ pc[w] = "error-exit"
  /\ Goto(w, "run")
  /\ UNCHANGED <<job, connected, privVars, sources, added, inError, stopped,
                 reported, late>>

\* pk_backend_error_code; a second error is refused.
ErrorCode(w) ==
  LET s == SourceOf("error", w)
  IN  /\ pc[w] = "run"
      /\ ~setError
      /\ setError' = TRUE
      /\ sources' = sources \cup {s}
      /\ added' = [added EXCEPT ![w] = s]
      /\ Goto(w, "error-store")
      /\ UNCHANGED <<job, connected, finished, exit, thread, errorTimer,
                     finishTimer, inError, stopped, reported, late>>

ErrorStore(w) ==
  /\ pc[w] = "error-store"
  /\ errorTimer' = added[w]
  /\ Goto(w, "error-exit")
  /\ UNCHANGED <<job, connected, setError, finished, exit, thread, finishTimer,
                 sources, added, inError, stopped, reported, late>>

\* pk_backend_set_exit_code tests here and writes in ErrorSet.
ErrorExit(w) ==
  /\ pc[w] = "error-exit"
  /\ Goto(w, IF exit = "unknown" THEN "error-set" ELSE "run")
  /\ UNCHANGED <<job, connected, privVars, sources, added, inError, stopped,
                 reported, late>>

ErrorSet(w) ==
  /\ pc[w] = "error-set"
  /\ exit' = "failed"
  /\ Goto(w, "run")
  /\ UNCHANGED <<job, connected, setError, finished, thread, errorTimer,
                 finishTimer, sources, added, inError, stopped, reported, late>>

\* The role calls pk_backend_finished itself ...
CallFinished(w) ==
  /\ pc[w] = "run"
  /\ FinishedCall(w)
  /\ UNCHANGED <<job, connected, privVars, sources, added, inError, stopped,
                 reported, late>>

\* ... or pk_backend_thread_finished, which leaves it to the main loop ...
ThreadFinished(w) ==
  /\ pc[w] = "run"
  /\ sources' = sources \cup {SourceOf("thread", w)}
  /\ Goto(w, "return")
  /\ UNCHANGED <<job, connected, privVars, added, inError, stopped, reported,
                 late>>

\* ... or returns after an error and leaves it to the error timer.
Leave(w) ==
  /\ pc[w] = "run"
  /\ setError
  /\ Goto(w, "return")
  /\ UNCHANGED <<job, connected, privVars, sources, added, inError, stopped,
                 reported, late>>

\* transaction_stop is run when the role returned FALSE.
ThreadReturn(w, ret) ==
  /\ pc[w] = "return"
  /\ Goto(w, "done")
  /\ stopped' = IF ret THEN stopped ELSE stopped \cup {w}
  /\ UNCHANGED <<job, connected, privVars, sources, added, inError, reported,
                 late>>

-----------------------------------------------------------------------------
(* The main loop.                                                          *)

Dispatch(s, kind) ==
  /\ pc[0] = "idle"
  /\ s \in sources
  /\ s.kind = kind
  /\ sources' = sources \ {s}

\* pk_backend_thread_finished_cb
ThreadFinishedCb(s) ==
  /\ Dispatch(s, "thread")
  /\ FinishedCall(0)
  /\ UNCHANGED <<job, connected, privVars, added, inError, stopped, reported,
                 late>>

\* The worker that set the error is still before its pk_backend_finished.
IsLate(s) ==
  /\ s.by # 0
  /\ \/ pc[s.by] \notin {"return", "done"}
     \/ SourceOf("thread", s.by) \in sources

\* pk_backend_error_timeout_delay_cb
ErrorTimeout(s) ==
  /\ Dispatch(s, "error")
  /\ FinishedCall(0)
  /\ inError' = ~finished
  /\ errorTimer' = IF finished THEN NoSource ELSE errorTimer
  /\ late' = (late \/ IsLate(s))
  /\ UNCHANGED <<job, connected, setError, finished, exit, thread, finishTimer,
                 added, stopped, reported>>

\* pk_backend_finished_delay: success, unless something else was set; then
\* the emission, which the transaction of the job hears once.
FinishedDelay(s) ==
  /\ Dispatch(s, "finish")
  /\ Goto(0, IF exit = "unknown" THEN "delay-exit" ELSE "delay-emit")
  /\ late' = (late \/ pc[s.by] = "finish-store")
  /\ UNCHANGED <<job, connected, privVars, added, inError, stopped, reported>>

DelayExit ==
  /\ pc[0] = "delay-exit"
  /\ exit' = "success"
  /\ Goto(0, "delay-emit")
  /\ UNCHANGED <<job, connected, setError, finished, thread, errorTimer,
                 finishTimer, sources, added, inError, stopped, reported, late>>

DelayEmit ==
  /\ pc[0] = "delay-emit"
  /\ reported' = IF connected THEN [reported EXCEPT ![job] = exit] ELSE reported
  /\ connected' = FALSE
  /\ finishTimer' = NoSource
  /\ Goto(0, "idle")
  /\ UNCHANGED <<job, setError, finished, exit, thread, errorTimer, sources,
                 added, inError, stopped, late>>

\* Cancel of the running transaction: pk_backend_set_exit_code from the main
\* loop.  What the worker makes of the cancel is its own choice.
Cancel ==
  /\ pc[0] = "idle"
  /\ connected
  /\ exit = "unknown"
  /\ Goto(0, "cancel-set")
  /\ UNCHANGED <<job, connected, privVars, sources, added, inError, stopped,
                 reported, late>>

CancelSet ==
  /\ pc[0] = "cancel-set"
  /\ exit' = "cancelled"
  /\ Goto(0, "idle")
  /\ UNCHANGED <<job, connected, setError, finished, thread, errorTimer,
                 finishTimer, sources, added, inError, stopped, reported, late>>

-----------------------------------------------------------------------------
WorkerNext(w) ==
  \/ ErrorCode(w) \/ ErrorStore(w) \/ ErrorExit(w) \/ ErrorSet(w)
  \/ CallFinished(w) \/ ThreadFinished(w) \/ Leave(w) \/ Finish(w)
  \/ \E ret \in BOOLEAN : ThreadReturn(w, ret)

MainNext ==
  \/ StoreThread \/ Finish(0) \/ DelayExit \/ DelayEmit \/ CancelSet
  \/ \E s \in sources : ThreadFinishedCb(s) \/ ErrorTimeout(s) \/ FinishedDelay(s)

Next ==
  \/ ThreadCreate \/ PluginError \/ Cancel \/ MainNext
  \/ \E w \in Job : WorkerNext(w)

Spec == Init /\ [][Next]_vars

\* The threads are scheduled and the main loop dispatches what is due.
Fairness == WF_vars(MainNext) /\ \A w \in Job : WF_vars(WorkerNext(w))
FairSpec == Spec /\ Fairness

-----------------------------------------------------------------------------
(* Properties.                                                             *)

\* As long as workers keep to the time-outs, a job is not reported while its
\* worker is still in the code of its role: the next job never shares the
\* backend with it.
OneWorker ==
  ~late => \A w \in Job : pc[w] \in InRole =>
             w = job /\ connected /\ reported[w] = "none"

\* As long as workers keep to the time-outs, a job never meets the timers and
\* idle sources of an earlier one, whatever ended that one.
NoStaleSource == ~late => \A s \in sources : s.job = job

\* As long as workers keep to the time-outs, a job that reported an error is not
\* sent as a success, in whatever order the error, the finish and a cancel wrote
\* the exit code.
FailureIsReported ==
  ~late /\ job # 0 /\ setError => reported[job] # "success"

\* The object promises what PkJobs says; after a worker was late, what PkJobs says
\* of a backend that lapsed.
WorkDone ==
  IF ~connected THEN "none" ELSE IF pc[job] \in InRole THEN "going" ELSE "complete"
Told(j) ==
  IF reported[j] \in {"none", "success"} THEN reported[j] ELSE "failure"
Jobs == INSTANCE PkJobs WITH open <- connected, work <- WorkDone,
                             failed <- connected /\ setError,
                             told <- [j \in Job |-> Told(j)],
                             lapsed <- late
ImplementsJobs == Jobs!Spec

\* However late workers are, something is under way that will report the job that
\* a transaction waits for: its own worker, a finish that has begun, or a source
\* that nobody removes before it is dispatched.
JobHasCompletion ==
  connected =>
    IF finished
    THEN \/ pc[0] \in {"delay-exit", "delay-emit"}
         \/ \E s \in sources : s.kind = "finish"
    ELSE \/ pc[job] \in InRole
         \/ \E p \in Proc : pc[p] \in {"finish-stop", "finish-mark"}
         \/ \E s \in sources : s.kind \in {"thread", "error"}

\* However late workers are, every job that was started is reported to its
\* transaction.
JobEnds == \A j \in Job : job >= j ~> reported[j] # "none"

-----------------------------------------------------------------------------
(* What the code's comments say, and is not so.                            *)

\* transaction_stop is "always run for each transaction" that had a worker; here,
\* as long as workers keep to the time-outs.
StopAlwaysRun ==
  ~late => \A w \in Job :
             pc[w] = "done" /\ reported[w] # "none" => w \in stopped
=============================================================================
