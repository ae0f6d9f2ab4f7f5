------------------------------- MODULE PkSpawn -------------------------------
(***************************************************************************)
(* The helper process of a spawned backend: pk-spawn.c starts a program,   *)
(* polls it, writes to it and kills it; pk-backend-spawn.c runs one job    *)
(* after another through it and turns its output into calls of the backend *)
(* object.                                                                 *)
(*                                                                         *)
(* A helper is kept when its job is over (the dispatcher) and gets the     *)
(* next command on its standard input, if that has the same program and    *)
(* environment.  Otherwise it is told to "exit", and the main loop blocks  *)
(* until it is gone.  Five seconds after a job, a timer tells it the same. *)
(*                                                                         *)
(* pk_spawn_check_child reads the output and then calls waitpid.  Here     *)
(* each line that is read is a step (Stdout) and so is the waitpid that    *)
(* finds the helper dead (Reap): a helper writes its lines at any time, so *)
(* a line that is still unread may as well have been written after the     *)
(* poll.  What is unread in Reap was written between the read and the      *)
(* waitpid of one call, and is lost with the pipe.  (After a SIGKILL, which *)
(* the main loop sends itself, the next read has it all.)                  *)
(***************************************************************************)
EXTENDS Integers, Sequences

CONSTANTS
  MaxJob,       \* bound: jobs started
  Helpers,      \* what a helper is started with: argv[0] and the environment
  AllowSigkill  \* priv->allow_sigkill

ASSUME SpawnAssumption ==
  /\ MaxJob \in Nat
  /\ Helpers # {}
  /\ AllowSigkill \in BOOLEAN

Job == 1..MaxJob
Child == 1..MaxJob        \* the processes, in the order of their start

VARIABLES
  \* the backend object
  job,          \* jobs started so far: the number of the current one
  connected,    \* the transaction of the current job listens
  done,         \* priv->finished of the backend
  error,        \* the error that was set, or "none"
  errorTimer,   \* priv->signal_error_timeout is armed
  \* PkBackendSpawn
  told,         \* priv->finished: the helper said "finished"
  exitTimer,    \* priv->kill_id is armed
  \* PkSpawn
  pid,          \* priv->child_pid and the pipes to it, or 0
  poll,         \* priv->poll_id
  finished,     \* priv->finished
  killTimer,    \* priv->kill_id: 0, armed, or the id of a timer that went off
  exit,         \* priv->exit
  last,         \* priv->last_argv0 and last_envp
  sending,      \* priv->is_sending_exit: the main loop blocks in pk_spawn_exit
  changing,     \* priv->is_changing_dispatcher
  \* the main loop
  want,         \* the helper that the current job asks for
  spawning,     \* the main loop is before the g_spawn of pk_spawn_argv
  \* the processes
  child,        \* what each process is doing
  started,      \* processes started so far
  \* history
  reported,     \* what the transaction of each job was told
  completed,    \* jobs that a helper carried out and said "finished" for
  overdue       \* a helper once outlived a time-out of the daemon

backendVars == <<job, connected, done, error, errorTimer, reported>>
glueVars == <<told, exitTimer>>
spawnVars == <<pid, poll, finished, killTimer, exit, last, sending, changing>>
processVars == <<child, started, completed>>
vars == <<backendVars, glueVars, spawnVars, want, spawning, processVars,
          overdue>>

Errors == {"own", "cancelled", "killed", "unexpected", "spawn-failed"}
ExitTypes == {"unknown", "success", "failed", "dispatcher-changed",
              "dispatcher-exit", "sigquit", "sigkill"}
Causes == {"success", "failed", "sigquit", "sigkill", "signal"}
ExitCmd == 0              \* the command "exit"; a job is a command of its own
Process == [state : {"none", "busy", "idle", "leaving", "dead"},
            job : 0..MaxJob,           \* the last command that it read
            in : Seq(Job \cup {ExitCmd}),  \* its standard input
            out : Seq({"error", "finished"}),
            failed : BOOLEAN,          \* it printed an error for this job
            quit : BOOLEAN,            \* it was sent SIGQUIT
            cause : Causes]            \* how it ended, once dead

TypeOK ==
  /\ job \in 0..MaxJob
  /\ connected \in BOOLEAN /\ done \in BOOLEAN /\ errorTimer \in BOOLEAN
  /\ error \in Errors \cup {"none"}
  /\ told \in BOOLEAN /\ exitTimer \in BOOLEAN
  /\ pid \in 0..MaxJob
  /\ poll \in BOOLEAN /\ finished \in BOOLEAN
  /\ killTimer \in {"none", "armed", "over"}
  /\ exit \in ExitTypes
  /\ last \in Helpers /\ want \in Helpers
  /\ sending \in BOOLEAN /\ changing \in BOOLEAN /\ spawning \in BOOLEAN
  /\ child \in [Child -> Process]
  /\ started \in 0..job
  /\ reported \in [Job -> Errors \cup {"none", "success"}]
  /\ completed \subseteq Job
  /\ overdue \in BOOLEAN

NoProcess == [state |-> "none", job |-> 0, in |-> <<>>, out |-> <<>>,
              failed |-> FALSE, quit |-> FALSE, cause |-> "success"]

Init ==
  /\ job = 0 /\ connected = FALSE /\ done = FALSE
  /\ error = "none" /\ errorTimer = FALSE
  /\ told = FALSE /\ exitTimer = FALSE
  /\ pid = 0 /\ poll = FALSE /\ finished = FALSE
  /\ killTimer = "none" /\ exit = "unknown"
  /\ last \in Helpers /\ want = last
  /\ sending = FALSE /\ changing = FALSE /\ spawning = FALSE
  /\ child = [c \in Child |-> NoProcess] /\ started = 0
  /\ reported = [j \in Job |-> "none"]
  /\ completed = {}
  /\ overdue = FALSE

\* The main loop dispatches its sources: it blocks in no call.
MainLoop == ~sending /\ ~spawning

\* What it had not read, and what nobody reads, is gone with it.
Dead(c, cause) ==
  [child[c] EXCEPT !.state = "dead", !.cause = cause, !.in = <<>>,
                   !.failed = FALSE, !.quit = FALSE]

\* Process c, and no other, is p from now on.
Becomes(c, p) == child' = [child EXCEPT ![c] = p]
Die(c, cause) == Becomes(c, Dead(c, cause))

Alive(c) == child[c].state \in {"busy", "idle", "leaving"}

-----------------------------------------------------------------------------
(* The backend object, as the spawner calls it.                            *)

\* pk_backend_error_code: a second error is refused.
SetError(e) ==
  /\ error' = IF error = "none" THEN e ELSE error
  /\ errorTimer' = (errorTimer \/ error = "none")

\* pk_backend_finished: a second one is refused.
SetDone ==
  /\ done' = TRUE
  /\ errorTimer' = (errorTimer /\ done)

\* Both, one after the other.
Fail(e) ==
  /\ error' = IF error = "none" THEN e ELSE error
  /\ done' = TRUE
  /\ errorTimer' = (done /\ (errorTimer \/ error = "none"))

\* pk_backend_error_timeout_delay_cb: two seconds after the error.
ErrorTimeout ==
  /\ MainLoop
  /\ errorTimer
  /\ done' = TRUE
  /\ errorTimer' = FALSE
  /\ overdue' = (overdue \/ ~done)
  /\ UNCHANGED <<job, connected, error, reported, glueVars, spawnVars, want,
                 spawning, processVars>>

\* pk_backend_finished_delay: the transaction of the job hears the end.
FinishedDelay ==
  /\ MainLoop
  /\ connected /\ done
  /\ reported' = [reported EXCEPT ![job] =
                    IF error = "none" THEN "success" ELSE error]
  /\ connected' = FALSE
  /\ UNCHANGED <<job, done, error, errorTimer, glueVars, spawnVars, want,
                 spawning, processVars, overdue>>

-----------------------------------------------------------------------------
(* Writing to the helper.                                                  *)

\* pk_spawn_send_stdin fails if the reader is gone.
CanSend == pid # 0 /\ ~finished /\ child[pid].state # "dead"
Send(what) == Becomes(pid, [child[pid] EXCEPT !.in = Append(@, what)])

\* Mutant: the idle timer of the job before is left armed.
StopExitTimer_Kept == exitTimer' = exitTimer

\* "don't auto-kill this"
StopExitTimer == exitTimer' = FALSE

\* pk_transaction_run resets the backend object; the role of the backend then
\* calls pk_backend_spawn_helper.
StartJob(h) ==
  /\ MainLoop
  /\ ~connected
  /\ job < MaxJob
  /\ job' = job + 1
  /\ connected' = TRUE
  /\ done' = FALSE /\ error' = "none" /\ errorTimer' = FALSE
  /\ StopExitTimer
  /\ told' = FALSE
  /\ want' = h
  /\ UNCHANGED <<reported, poll, finished, pid, killTimer, exit, last, started,
                 completed, overdue>>

\* pk_spawn_argv: the helper that is there takes the command ...
Reuse(h) ==
  /\ StartJob(h)
  /\ h = last /\ CanSend
  /\ Send(job')
  /\ UNCHANGED <<sending, changing, spawning>>

\* Mutant: the new helper is started at once.
Change_NoWait(h) ==
  /\ StartJob(h)
  /\ h # last /\ CanSend
  /\ Send(ExitCmd)
  /\ spawning' = TRUE
  /\ UNCHANGED <<sending, changing>>

\* ... or is told to exit, and the main loop waits for it ...
Change(h) ==
  /\ StartJob(h)
  /\ h # last /\ CanSend
  /\ Send(ExitCmd)
  /\ sending' = TRUE /\ changing' = TRUE
  /\ UNCHANGED spawning

\* ... or there is none ...
NoHelper(h) ==
  /\ StartJob(h)
  /\ pid = 0
  /\ spawning' = TRUE
  /\ UNCHANGED <<sending, changing, child>>

\* ... or it is dead, which waitpid did not tell yet, and nothing can be
\* written to it.  It will not be waited for.
Broken(h) ==
  /\ MainLoop
  /\ ~connected
  /\ job < MaxJob
  /\ pid # 0 /\ ~CanSend
  /\ job' = job + 1
  /\ connected' = TRUE
  /\ done' = FALSE /\ error' = "none" /\ errorTimer' = FALSE
  /\ StopExitTimer
  /\ told' = FALSE
  /\ want' = h
  /\ poll' = FALSE
  /\ spawning' = TRUE
  /\ UNCHANGED <<reported, finished, pid, killTimer, exit, last, sending,
                 changing, processVars, overdue>>

\* The rest of pk_spawn_argv.  exit and the SIGKILL timer stay as they are.
Spawn ==
  /\ spawning
  /\ spawning' = FALSE
  /\ finished' = FALSE
  /\ started' = started + 1
  /\ pid' = started + 1
  /\ child' = [c \in Child |->
                 IF c = started + 1
                 THEN [NoProcess EXCEPT !.state = "busy", !.job = job]
                 ELSE [child[c] EXCEPT !.out = <<>>]]
  /\ last' = want
  /\ poll' = TRUE
  /\ UNCHANGED <<backendVars, glueVars, killTimer, exit, sending, changing,
                 want, completed, overdue>>

SpawnFails ==
  /\ spawning
  /\ spawning' = FALSE
  /\ finished' = FALSE
  /\ Fail("spawn-failed")
  /\ UNCHANGED <<job, connected, reported, glueVars, pid, poll, killTimer, exit,
                 last, sending, changing, want, processVars, overdue>>

-----------------------------------------------------------------------------
(* pk_spawn_check_child, from the poll or from within pk_spawn_exit.       *)

Checking == pid # 0 /\ ~finished /\ ~spawning /\ (poll \/ sending)

\* One line of output: pk_backend_spawn_parse_stdout.
Stdout ==
  /\ Checking
  /\ child[pid].out # <<>>
  /\ Becomes(pid, [child[pid] EXCEPT !.out = Tail(@)])
  /\ \/ /\ Head(child[pid].out) = "error"
        /\ SetError("own")
        /\ UNCHANGED <<done, told, exitTimer>>
     \/ /\ Head(child[pid].out) = "finished"
        /\ SetDone
        /\ told' = TRUE /\ exitTimer' = TRUE
        /\ UNCHANGED error
  /\ UNCHANGED <<job, connected, reported, spawnVars, want, spawning, started,
                 completed, overdue>>

\* priv->exit when the helper is gone: that it was told to go, or the signal
\* that ended it, or what was there before.
ExitType(cause) ==
  IF changing THEN "dispatcher-changed"
  ELSE IF sending THEN "dispatcher-exit"
  ELSE IF cause = "signal" THEN "sigkill"
  ELSE IF cause \in {"sigquit", "sigkill"} \/ exit = "unknown" THEN cause
  ELSE exit

\* Mutant: a helper that is gone without "finished" is no error.
ExitCb_NoError(type) ==
  IF type \notin {"dispatcher-changed", "dispatcher-exit"} /\ ~told
  THEN SetDone /\ UNCHANGED error
  ELSE UNCHANGED <<error, done, errorTimer>>

\* Mutant: the job is not ended for a helper that is gone.
ExitCb_Silent(type) ==
  IF type = "sigkill" THEN SetError("killed") /\ UNCHANGED done
  ELSE UNCHANGED <<error, done, errorTimer>>

\* pk_backend_spawn_exit_cb
ExitCb(type) ==
  LET fallback == IF type = "sigkill" THEN "killed" ELSE "unexpected"
  IN  IF type \in {"dispatcher-changed", "dispatcher-exit"}
      THEN UNCHANGED <<error, done, errorTimer>>
      ELSE IF ~told THEN Fail(fallback)
      ELSE IF type = "sigkill" THEN SetError("killed") /\ UNCHANGED done
      ELSE UNCHANGED <<error, done, errorTimer>>

\* Mutant: the SIGKILL that is due stays armed.
StopKillTimer_Kept == killTimer' = killTimer

\* "if we are trying to kill this process, cancel the SIGKILL"
StopKillTimer == killTimer' = "none"

Reap ==
  /\ Checking
  /\ child[pid].state = "dead"
  /\ child[pid].cause = "sigkill" => child[pid].out = <<>>
  /\ pid' = 0
  /\ poll' = FALSE
  /\ finished' = TRUE
  /\ StopKillTimer
  /\ exit' = ExitType(child[pid].cause)
  /\ ExitCb(exit')
  /\ sending' = FALSE /\ changing' = FALSE
  /\ spawning' = changing
  /\ Becomes(pid, [child[pid] EXCEPT !.out = <<>>])
  /\ UNCHANGED <<job, connected, reported, told, exitTimer, last, want,
                 started, completed, overdue>>

\* The helper did not go in five seconds.
GiveUp ==
  /\ sending
  /\ Alive(pid)
  /\ sending' = FALSE /\ changing' = FALSE
  /\ spawning' = changing
  /\ overdue' = TRUE
  /\ UNCHANGED <<backendVars, glueVars, pid, poll, finished, killTimer, exit,
                 last, want, processVars>>

-----------------------------------------------------------------------------
(* Telling the helper to go.                                               *)

\* pk_backend_spawn_exit_timeout_cb
ExitTimeout ==
  /\ MainLoop
  /\ exitTimer
  /\ exitTimer' = FALSE
  /\ IF CanSend THEN Send(ExitCmd) /\ sending' = TRUE
     ELSE UNCHANGED <<child, sending>>
  /\ UNCHANGED <<backendVars, told, pid, poll, finished, killTimer, exit, last,
                 changing, want, spawning, started, completed, overdue>>

\* Cancel of the running transaction: pk_backend_spawn_kill, pk_spawn_kill.  Only
\* the transaction knows whether it is finished: between pk_backend_finished and
\* its delayed emission, the SIGQUIT is for a helper that is kept for the next
\* job, and the SIGKILL after it.
Cancel ==
  /\ MainLoop
  /\ connected
  /\ SetError("cancelled")
  /\ IF pid # 0 /\ ~finished /\ killTimer = "none"
     THEN /\ exit' = "sigquit"
          /\ Becomes(pid, [child[pid] EXCEPT !.quit = TRUE])
          /\ killTimer' = IF AllowSigkill THEN "armed" ELSE "none"
     ELSE UNCHANGED <<exit, child, killTimer>>
  /\ UNCHANGED <<job, connected, done, reported, glueVars, pid, poll, finished,
                 last, sending, changing, want, spawning, started, completed,
                 overdue>>

\* pk_spawn_sigkill_cb, 2.5 s after the SIGQUIT.  The id is not forgotten.
SigkillTimeout ==
  /\ MainLoop
  /\ killTimer = "armed"
  /\ killTimer' = "over"
  /\ IF finished THEN UNCHANGED <<exit, child>>
     ELSE /\ exit' = "sigkill"
          /\ IF Alive(pid) THEN Die(pid, "sigkill") ELSE UNCHANGED child
  /\ UNCHANGED <<backendVars, glueVars, pid, poll, finished, last, sending,
                 changing, want, spawning, started, completed, overdue>>

-----------------------------------------------------------------------------
(* The helper, with lib/python/packagekit/backend.py as the model.         *)

\* The output of a helper that PkSpawn lost track of is never read.
Output(c, line) == IF c = pid THEN Append(child[c].out, line) ELSE <<>>

PrintError(c) ==
  /\ child[c].state = "busy"
  /\ ~child[c].failed
  /\ \E next \in {"busy", "leaving"} :   \* error() exits, unless told not to
       Becomes(c, [child[c] EXCEPT !.out = Output(c, "error"),
                                   !.failed = TRUE, !.state = next])
  /\ UNCHANGED completed

PrintFinished(c) ==
  /\ child[c].state = "busy"
  /\ Becomes(c, [child[c] EXCEPT !.out = Output(c, "finished"), !.state = "idle"])
  /\ completed' = completed \cup {child[c].job}

\* Mutant: "exit" is a command like any other.
ReadCommand_NoExit(c) ==
  /\ child[c].state = "idle"
  /\ child[c].in # <<>>
  /\ Becomes(c, [child[c] EXCEPT !.in = Tail(@), !.state = "busy",
                                 !.job = Head(child[c].in), !.failed = FALSE])
  /\ UNCHANGED completed

\* The dispatcher reads its next command.
ReadCommand(c) ==
  /\ child[c].state = "idle"
  /\ child[c].in # <<>>
  /\ LET cmd == Head(child[c].in)
     IN  Becomes(c, [child[c] EXCEPT
                       !.in = Tail(@),
                       !.state = IF cmd = ExitCmd THEN "leaving" ELSE "busy",
                       !.job = IF cmd = ExitCmd THEN @ ELSE cmd,
                       !.failed = FALSE])
  /\ UNCHANGED completed

\* sys.exit: 1 after an error, 0 otherwise.
Leave(c) ==
  /\ child[c].state = "leaving"
  /\ Die(c, IF child[c].failed THEN "failed" ELSE "success")
  /\ UNCHANGED completed

\* A helper crashes, or is a script that ends with its job.
EndsItself(c) ==
  /\ \/ child[c].state = "busy" /\ \E cause \in {"failed", "signal"} : Die(c, cause)
     \/ child[c].state = "idle" /\ Die(c, "success")
  /\ UNCHANGED completed

\* SIGQUIT ends it, or its handler does; a helper may ignore it as well.
Quit(c) ==
  /\ Alive(c)
  /\ child[c].quit
  /\ \E cause \in {"sigquit", "failed"} : Die(c, cause)
  /\ UNCHANGED completed

HelperWorks(c) == PrintError(c) \/ PrintFinished(c) \/ ReadCommand(c) \/ Leave(c)

HelperNext(c) ==
  /\ HelperWorks(c) \/ EndsItself(c) \/ Quit(c)
  /\ UNCHANGED <<backendVars, glueVars, spawnVars, want, spawning, started,
                 overdue>>

-----------------------------------------------------------------------------
Request == \E h \in Helpers : Reuse(h) \/ Change(h) \/ NoHelper(h) \/ Broken(h)

MainNext ==
  \/ ErrorTimeout \/ FinishedDelay \/ ExitTimeout \/ SigkillTimeout
  \/ Spawn \/ SpawnFails \/ Stdout \/ Reap \/ GiveUp

Next == Request \/ Cancel \/ MainNext \/ \E c \in Child : HelperNext(c)

Spec == Init /\ [][Next]_vars

\* The main loop dispatches what is due; a helper works on.  Neither requests,
\* nor cancels, nor the end of a helper on its own have to come.
Fairness ==
  /\ WF_vars(MainNext)
  /\ \A c \in Child : WF_vars(HelperNext(c) /\ HelperWorks(c))
FairSpec == Spec /\ Fairness

-----------------------------------------------------------------------------
(* Properties.                                                             *)

\* The SIGKILL that is due, and the poll, have a process: kill and waitpid are
\* never called with a child_pid of -1, which means every process.  Whatever
\* helpers do, and whether they can be started or not.
KillHasTarget == killTimer = "armed" \/ poll => pid # 0

\* No job is under way when an idle helper is told to go: what the helper does
\* then is ignored, and would end no job.  Whatever helpers do.
ExitWhenIdle == exitTimer \/ (sending /\ ~changing) => done

\* As long as helpers keep to the time-outs there is one of them: a new one is
\* started when the one before is gone, killed, changed or told to exit.
OneHelper == ~overdue => \A c \in Child : Alive(c) => c = pid

\* As long as helpers keep to the time-outs, commands and "exit" are written to
\* an idle helper, one at a time: none is left unread behind another job.
CommandsToIdle ==
  ~overdue => \A c \in Child : child[c].in # <<>> =>
                child[c].state = "idle" /\ Len(child[c].in) = 1

\* As long as helpers keep to the time-outs, the "finished" that ends a job with
\* success is the one that its own helper printed for it, not a late one of the
\* job before (the line does not say which job it is of).
SuccessIsEarned ==
  ~overdue => \A j \in Job : reported[j] = "success" => j \in completed

\* The backend object promises what PkJobs says also to the transactions of a
\* spawned backend, with helpers that are kept, changed, signalled and lost.
HasJob(c) ==
  \/ child[c].state = "busy" /\ child[c].job = job
  \/ \E i \in 1..Len(child[c].in) : child[c].in[i] = job
WorkDone ==
  CASE ~connected -> "none"
    [] connected /\ job \in completed -> "complete"
    [] connected /\ job \notin completed ->
         IF spawning \/ changing \/ \E c \in Child : HasJob(c)
         THEN "going" ELSE "broken"
Told(j) ==
  IF reported[j] \in {"none", "success"} THEN reported[j] ELSE "failure"
Jobs == INSTANCE PkJobs WITH open <- connected, work <- WorkDone,
                             failed <- connected /\ error # "none",
                             told <- [j \in Job |-> Told(j)],
                             lapsed <- overdue
ImplementsJobs == Jobs!Spec

\* The helper of a job is gone and was taken for one that the daemon had sent
\* away: nothing will end the job.
Deserted ==
  /\ connected /\ ~done /\ error = "none"
  /\ pid = 0 /\ ~spawning
  /\ exit \in {"dispatcher-changed", "dispatcher-exit"}

\* Unless it is deserted, something is under way that will end the job that a
\* transaction waits for, late helpers or not: the error timer, a helper that is
\* to be started, or one that is polled and has not come to its end.
Owes(c) ==
  \/ child[c].state \in {"busy", "leaving", "dead"}
  \/ child[c].in # <<>>
  \/ \E i \in 1..Len(child[c].out) : child[c].out[i] = "finished"
JobHasCompletion ==
  connected /\ ~done =>
    \/ errorTimer \/ spawning \/ changing
    \/ pid # 0 /\ poll /\ Owes(pid)
    \/ Deserted

\* Whatever the helper does with a job, and whichever timers and signals race
\* with it, the transaction of the job is told its end, unless it is deserted.
JobEndsOrIsDeserted ==
  \A j \in Job : job >= j ~> reported[j] # "none" \/ Deserted

=============================================================================
