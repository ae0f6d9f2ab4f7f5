---------------------------- MODULE PkSpawnProofs ----------------------------
(***************************************************************************)
(* Proofs about the helper process of a spawned backend (PkSpawn), for any *)
(* number of jobs and of programs: types; that kill and waitpid have a     *)
(* process; that only an idle helper is told to exit; and, as long as      *)
(* helpers keep to the time-outs, that there is one of them, that commands *)
(* reach it when it is idle, and that success is its own.                  *)
(***************************************************************************)
EXTENDS PkSpawn, SequenceTheorems, TLAPS

\* The steps that pid and the timers go through; whatever helpers do.
ControlInv ==
  /\ poll \/ killTimer = "armed" \/ sending => pid # 0
  /\ finished => pid = 0
  /\ sending => ~spawning
  /\ changing => sending
  /\ pid <= started
  /\ pid # 0 => child[pid].state # "none"
  /\ spawning \/ changing => connected /\ started < job
  /\ errorTimer => error # "none"
  /\ connected => job # 0
  /\ \A c \in Child : child[c].state = "busy" => child[c].job # 0
  /\ ExitWhenIdle

-----------------------------------------------------------------------------
(* What steps have in common.                                              *)

LEMMA NumberFacts ==
  ASSUME TypeOK
  PROVE  /\ MaxJob \in Nat /\ job \in Nat /\ started \in Nat /\ pid \in Nat
         /\ started <= job /\ job <= MaxJob /\ pid <= MaxJob
         /\ \A n : n \in Child <=> n \in Nat /\ 1 <= n /\ n <= MaxJob
         /\ \A n : n \in Job <=> n \in Nat /\ 1 <= n /\ n <= MaxJob
         /\ pid # 0 => pid \in Child
         /\ ExitCmd \in Nat /\ ExitCmd \notin Job
BY SpawnAssumption DEF TypeOK, Child, Job, ExitCmd

\* The start of a job, whichever helper it gets.
LEMMA StartFacts ==
  ASSUME TypeOK, NEW h \in Helpers, Reuse(h) \/ Change(h) \/ NoHelper(h) \/ Broken(h)
  PROVE  /\ MainLoop /\ ~connected /\ job < MaxJob /\ job' = job + 1
         /\ connected' = TRUE /\ done' = FALSE /\ error' = "none"
         /\ errorTimer' = FALSE /\ exitTimer' = FALSE /\ told' = FALSE /\ want' = h
         /\ UNCHANGED <<reported, finished, pid, killTimer, exit, last, started,
                        completed, overdue>>
BY DEF Reuse, Change, NoHelper, Broken, StartJob, StopExitTimer, processVars

LEMMA BecomesFacts ==
  ASSUME TypeOK, NEW c \in Child, NEW p, Becomes(c, p)
  PROVE  /\ child'[c] = p
         /\ \A d \in Child : d # c => child'[d] = child[d]
         /\ p \in Process => child' \in [Child -> Process]
BY DEF Becomes, TypeOK

LEMMA DeadFacts ==
  ASSUME TypeOK, NEW c \in Child, NEW cause \in Causes
  PROVE  /\ Dead(c, cause) \in Process
         /\ Dead(c, cause).state = "dead" /\ Dead(c, cause).in = <<>>
         /\ Dead(c, cause).out = child[c].out
<1>1. child[c] \in Process
  BY DEF TypeOK
<1>2. <<>> \in Seq(Job \cup {ExitCmd})
  OBVIOUS
<1> QED
  BY <1>1, <1>2 DEF Dead, Process

\* A command is written to the helper.
LEMMA SendFacts ==
  ASSUME TypeOK, pid # 0, NEW what \in Job \cup {ExitCmd}, Send(what)
  PROVE  /\ child' \in [Child -> Process]
         /\ child'[pid].in = Append(child[pid].in, what)
         /\ child'[pid].out = child[pid].out /\ child'[pid].state = child[pid].state
         /\ child'[pid].job = child[pid].job
         /\ \A d \in Child : d # pid => child'[d] = child[d]
<1> DEFINE p == [child[pid] EXCEPT !.in = Append(child[pid].in, what)]
<1>1. pid \in Child /\ child[pid] \in Process
  BY NumberFacts DEF TypeOK
<1>2. Append(child[pid].in, what) \in Seq(Job \cup {ExitCmd})
  BY <1>1 DEF Process
<1>3. /\ p \in Process /\ p.in = Append(child[pid].in, what)
      /\ p.out = child[pid].out /\ p.state = child[pid].state /\ p.job = child[pid].job
  BY <1>1, <1>2 DEF Process
<1>4. Becomes(pid, p)
  BY DEF Send
<1> HIDE DEF p
<1> QED
  BY <1>1, <1>3, <1>4, BecomesFacts

\* What the helper printed is other than it was; no more is.
LEMMA OutFacts ==
  ASSUME TypeOK, NEW c \in Child, NEW lines \in Seq({"error", "finished"}),
         Becomes(c, [child[c] EXCEPT !.out = lines])
  PROVE  /\ child' \in [Child -> Process]
         /\ child'[c].out = lines /\ child'[c].state = child[c].state
         /\ child'[c].in = child[c].in /\ child'[c].job = child[c].job
         /\ \A d \in Child : d # c => child'[d] = child[d]
<1> DEFINE p == [child[c] EXCEPT !.out = lines]
<1>1. child[c] \in Process
  BY DEF TypeOK
<1>2. /\ p \in Process /\ p.out = lines /\ p.state = child[c].state
      /\ p.in = child[c].in /\ p.job = child[c].job
  BY <1>1 DEF Process
<1>3. Becomes(c, p)
  OBVIOUS
<1> HIDE DEF p
<1> QED
  BY <1>2, <1>3, BecomesFacts

\* What a step of a helper does to it: it says something ...
Says(c, line) ==
  /\ child[c].state = "busy"
  /\ child'[c].in = child[c].in /\ child'[c].job = child[c].job
  /\ child'[c].out = Output(c, line)
  /\ \/ line = "error" /\ child'[c].state \in {"busy", "leaving"}
        /\ completed' = completed
     \/ line = "finished" /\ child'[c].state = "idle"
        /\ completed' = completed \cup {child[c].job}

\* ... or reads a command ...
Reads(c) ==
  /\ child[c].state = "idle" /\ child[c].in # <<>>
  /\ child'[c].in = Tail(child[c].in) /\ child'[c].out = child[c].out
  /\ \/ Head(child[c].in) = ExitCmd /\ child'[c].state = "leaving"
     \/ Head(child[c].in) \in Job /\ child'[c].state = "busy"
        /\ child'[c].job = Head(child[c].in)
  /\ completed' = completed

\* ... or dies.
Dies(c) ==
  /\ Alive(c)
  /\ child'[c].state = "dead" /\ child'[c].in = <<>>
  /\ child'[c].out = child[c].out
  /\ completed' = completed

LEMMA DieFacts ==
  ASSUME TypeOK, NEW c \in Child, NEW cause \in Causes, Die(c, cause)
  PROVE  /\ child' \in [Child -> Process]
         /\ child'[c].state = "dead" /\ child'[c].in = <<>>
         /\ child'[c].out = child[c].out
         /\ \A d \in Child : d # c => child'[d] = child[d]
<1>1. Becomes(c, Dead(c, cause))
  BY DEF Die
<1> QED
  BY <1>1, DeadFacts, BecomesFacts

LEMMA HelperFacts ==
  ASSUME TypeOK, NEW c \in Child, HelperNext(c)
  PROVE  /\ child' \in [Child -> Process]
         /\ \A d \in Child : d # c => child'[d] = child[d]
         /\ Says(c, "error") \/ Says(c, "finished") \/ Reads(c) \/ Dies(c)
<1>1. child[c] \in Process
  BY DEF TypeOK
<1>2. CASE Leave(c) \/ EndsItself(c) \/ Quit(c)
  <2>1. PICK cause \in Causes : Die(c, cause)
    BY <1>2 DEF Leave, EndsItself, Quit, Causes
  <2>2. Alive(c) /\ completed' = completed
    BY <1>2 DEF Leave, EndsItself, Quit, Alive
  <2> QED
    BY <2>1, <2>2, DieFacts DEF Dies
<1>3. CASE ReadCommand(c)
  <2> DEFINE cmd == Head(child[c].in)
             p == [child[c] EXCEPT
                     !.in = Tail(@),
                     !.state = IF cmd = ExitCmd THEN "leaving" ELSE "busy",
                     !.job = IF cmd = ExitCmd THEN @ ELSE cmd,
                     !.failed = FALSE]
  <2>1. /\ child[c].state = "idle" /\ child[c].in # <<>> /\ completed' = completed
        /\ Becomes(c, p)
    BY <1>3 DEF ReadCommand
  <2>2. cmd \in Job \cup {ExitCmd} /\ Tail(child[c].in) \in Seq(Job \cup {ExitCmd})
    BY <1>1, <2>1 DEF Process
  <2>3. cmd \in 0..MaxJob
    <3>1. \A x \in Job \cup {ExitCmd} : x \in 0..MaxJob
      BY SpawnAssumption DEF Job, ExitCmd
    <3> QED
      BY <2>2, <3>1
  <2> HIDE DEF cmd
  <2>4. /\ p \in Process /\ p.in = Tail(child[c].in) /\ p.out = child[c].out
        /\ p.state = IF cmd = ExitCmd THEN "leaving" ELSE "busy"
        /\ cmd # ExitCmd => p.job = cmd
    BY <1>1, <2>2, <2>3 DEF Process
  <2> HIDE DEF p
  <2>5. /\ child' \in [Child -> Process] /\ child'[c] = p
        /\ \A d \in Child : d # c => child'[d] = child[d]
    BY <2>1, <2>4, BecomesFacts
  <2> USE DEF cmd
  <2>6. Reads(c)
    BY <2>1, <2>2, <2>4, <2>5 DEF Reads
  <2> QED
    BY <2>5, <2>6
<1>4. ASSUME NEW line \in {"error", "finished"}
      PROVE  Output(c, line) \in Seq({"error", "finished"})
  BY <1>1 DEF Output, Process
<1>5. CASE PrintError(c)
  <2>1. PICK next \in {"busy", "leaving"} :
          Becomes(c, [child[c] EXCEPT !.out = Output(c, "error"),
                                      !.failed = TRUE, !.state = next])
    BY <1>5 DEF PrintError
  <2> DEFINE p == [child[c] EXCEPT !.out = Output(c, "error"),
                                   !.failed = TRUE, !.state = next]
  <2>2. /\ p \in Process /\ p.in = child[c].in /\ p.job = child[c].job
        /\ p.out = Output(c, "error") /\ p.state = next
    BY <1>1, <1>4 DEF Process
  <2>3. Becomes(c, p)
    BY <2>1
  <2> HIDE DEF p
  <2>4. /\ child' \in [Child -> Process] /\ child'[c] = p
        /\ \A d \in Child : d # c => child'[d] = child[d]
    BY <2>2, <2>3, BecomesFacts
  <2>5. Says(c, "error")
    BY <1>5, <2>2, <2>4 DEF Says, PrintError
  <2> QED
    BY <2>4, <2>5
<1>6. CASE PrintFinished(c)
  <2> DEFINE p == [child[c] EXCEPT !.out = Output(c, "finished"), !.state = "idle"]
  <2>1. Becomes(c, p)
    BY <1>6 DEF PrintFinished
  <2>2. /\ p \in Process /\ p.in = child[c].in /\ p.job = child[c].job
        /\ p.out = Output(c, "finished") /\ p.state = "idle"
    BY <1>1, <1>4 DEF Process
  <2> HIDE DEF p
  <2>3. /\ child' \in [Child -> Process] /\ child'[c] = p
        /\ \A d \in Child : d # c => child'[d] = child[d]
    BY <2>1, <2>2, BecomesFacts
  <2>4. Says(c, "finished")
    BY <1>6, <2>2, <2>3 DEF Says, PrintFinished
  <2> QED
    BY <2>3, <2>4
<1> QED
  BY <1>2, <1>3, <1>5, <1>6 DEF HelperNext, HelperWorks

-----------------------------------------------------------------------------
(* Types, and the steps that pid and the timers go through.                *)

\* The steps that start a job.
LEMMA StartControl ==
  ASSUME TypeOK, ControlInv, NEW h \in Helpers,
         Reuse(h) \/ Change(h) \/ NoHelper(h) \/ Broken(h)
  PROVE  TypeOK' /\ ControlInv'
<1> USE NumberFacts
<1>0. /\ MainLoop /\ ~connected /\ job < MaxJob /\ job' = job + 1
      /\ connected' = TRUE /\ done' = FALSE /\ error' = "none"
      /\ errorTimer' = FALSE /\ exitTimer' = FALSE /\ told' = FALSE /\ want' = h
      /\ reported' = reported /\ finished' = finished /\ pid' = pid
      /\ killTimer' = killTimer /\ exit' = exit /\ last' = last
      /\ started' = started /\ completed' = completed /\ overdue' = overdue
  BY StartFacts
<1>1. job' \in Job /\ started' < job' /\ job' \in 0..MaxJob /\ started' \in 0..job'
  BY <1>0
<1>2. /\ child' \in [Child -> Process]
      /\ \A c \in Child : /\ child'[c].state = child[c].state
                          /\ child'[c].job = child[c].job
  <2>1. CASE child' = child
    BY <2>1 DEF TypeOK
  <2>2. ASSUME NEW what \in Job \cup {ExitCmd}, pid # 0, Send(what)
        PROVE  <1>2
    BY <2>2, SendFacts
  <2> QED
    BY <1>1, <2>1, <2>2 DEF Reuse, Change, NoHelper, Broken, CanSend, processVars
<1>3. /\ poll' = poll \/ poll' = FALSE
      /\ sending' = sending \/ (sending' = TRUE /\ changing' = TRUE /\ pid # 0
                                /\ spawning' = spawning)
      /\ changing' = changing \/ (sending' = TRUE /\ changing' = TRUE)
      /\ spawning' = spawning \/ (spawning' = TRUE /\ sending' = sending)
  BY DEF Reuse, Change, NoHelper, Broken, StartJob, CanSend
<1>4. ~sending /\ ~spawning /\ ~changing
  BY <1>0 DEF MainLoop, ControlInv
<1>5. TypeOK'
  BY <1>0, <1>1, <1>2, <1>3 DEF TypeOK
<1> QED
  BY <1>0, <1>1, <1>2, <1>3, <1>4, <1>5 DEF TypeOK, ControlInv, ExitWhenIdle

\* The steps of the main loop that leave the processes alone.
LEMMA QuietControl ==
  ASSUME TypeOK, ControlInv, ErrorTimeout \/ FinishedDelay \/ SpawnFails \/ GiveUp
  PROVE  TypeOK' /\ ControlInv'
<1> USE NumberFacts DEF TypeOK, ControlInv, ExitWhenIdle, glueVars, spawnVars,
                        processVars, backendVars
<1>1. CASE ErrorTimeout
  BY <1>1 DEF ErrorTimeout, MainLoop
<1>2. CASE FinishedDelay
  BY <1>2 DEF FinishedDelay, MainLoop
<1>3. CASE SpawnFails
  BY <1>3 DEF SpawnFails, Fail, Errors
<1>4. CASE GiveUp
  BY <1>4 DEF GiveUp
<1> QED
  BY <1>1, <1>2, <1>3, <1>4

LEMMA NoProcessFacts ==
  /\ NoProcess \in Process
  /\ NoProcess.state = "none" /\ NoProcess.in = <<>> /\ NoProcess.out = <<>>
  /\ NoProcess.job = 0
<1>1. <<>> \in Seq(Job \cup {ExitCmd}) /\ <<>> \in Seq({"error", "finished"})
  OBVIOUS
<1>2. 0 \in 0..MaxJob
  BY SpawnAssumption
<1> QED
  BY <1>1, <1>2 DEF NoProcess, Process, Causes

\* A new helper has the current job from its arguments; the pipes of the one
\* before are gone.
LEMMA SpawnFacts ==
  ASSUME TypeOK, ControlInv, Spawn
  PROVE  /\ started + 1 \in Child /\ pid' = started + 1 /\ started' = started + 1
         /\ child' \in [Child -> Process]
         /\ child'[pid'].state = "busy" /\ child'[pid'].job = job
         /\ child'[pid'].in = <<>> /\ child'[pid'].out = <<>>
         /\ \A c \in Child : c # pid' => /\ child'[c].state = child[c].state
                                         /\ child'[c].in = child[c].in
                                         /\ child'[c].job = child[c].job
<1> USE NumberFacts
<1> DEFINE p == [NoProcess EXCEPT !.state = "busy", !.job = job]
           q(c) == [child[c] EXCEPT !.out = <<>>]
<1>1. started + 1 \in Child /\ pid' = started + 1 /\ started' = started + 1
  BY DEF Spawn, ControlInv
<1>2. p \in Process /\ p.state = "busy" /\ p.job = job /\ p.in = <<>> /\ p.out = <<>>
  <2>1. job \in 0..MaxJob
    OBVIOUS
  <2> QED
    BY <2>1, NoProcessFacts DEF Process
<1>3. ASSUME NEW c \in Child
      PROVE  /\ q(c) \in Process /\ q(c).state = child[c].state
             /\ q(c).in = child[c].in /\ q(c).job = child[c].job
  <2>1. child[c] \in Process /\ <<>> \in Seq({"error", "finished"})
    BY DEF TypeOK
  <2> QED
    BY <2>1 DEF Process
<1>4. child' = [c \in Child |-> IF c = started + 1 THEN p ELSE q(c)]
  BY DEF Spawn
<1> HIDE DEF p, q
<1> QED
  BY <1>1, <1>2, <1>3, <1>4

LEMMA SpawnControl ==
  ASSUME TypeOK, ControlInv, Spawn
  PROVE  TypeOK' /\ ControlInv'
<1> USE NumberFacts, SpawnFacts
<1>1. job \in Job /\ started' \in 0..job /\ pid' \in 0..MaxJob /\ pid' # 0
  BY DEF Spawn, ControlInv
<1>0. /\ child' \in [Child -> Process] /\ job' = job /\ spawning' = FALSE
      /\ finished' = FALSE /\ poll' = TRUE /\ last' = want
      /\ UNCHANGED <<backendVars, glueVars, killTimer, exit, sending, changing, want,
                     completed, overdue>>
  BY DEF Spawn, backendVars
<1>2. TypeOK'
  BY <1>0, <1>1 DEF TypeOK, backendVars, glueVars
<1>3. \A c \in Child : child'[c].state = "busy" => child'[c].job # 0
  BY <1>1 DEF ControlInv
<1> QED
  BY <1>1, <1>2, <1>3 DEF TypeOK, ControlInv, ExitWhenIdle, Spawn, backendVars, glueVars

\* Reading, and the end of the helper.
LEMMA CheckControl ==
  ASSUME TypeOK, ControlInv, Stdout \/ Reap
  PROVE  TypeOK' /\ ControlInv'
<1> USE NumberFacts
<1>1. pid \in Child /\ child[pid].out \in Seq({"error", "finished"})
  BY DEF Stdout, Reap, Checking, TypeOK, Process
<1>2. /\ child' \in [Child -> Process]
      /\ \A c \in Child : child'[c].state = child[c].state /\ child'[c].job = child[c].job
  <2>1. CASE Stdout
    <3>1. /\ Tail(child[pid].out) \in Seq({"error", "finished"})
          /\ Becomes(pid, [child[pid] EXCEPT !.out = Tail(child[pid].out)])
      BY <1>1, <2>1 DEF Stdout
    <3> QED
      BY <1>1, <3>1, OutFacts
  <2>2. CASE Reap
    <3>1. <<>> \in Seq({"error", "finished"})
          /\ Becomes(pid, [child[pid] EXCEPT !.out = <<>>])
      BY <2>2 DEF Reap
    <3> QED
      BY <1>1, <3>1, OutFacts
  <2> QED
    BY <2>1, <2>2
<1>3. \A c \in Child : child'[c].state = "busy" => child'[c].job # 0
  BY <1>2 DEF ControlInv
<1>4. CASE Stdout
  <2>1. /\ done' \in BOOLEAN /\ errorTimer' \in BOOLEAN /\ told' \in BOOLEAN
        /\ exitTimer' \in BOOLEAN /\ error' \in Errors \cup {"none"}
        /\ done => done'
        /\ errorTimer' => error' # "none"
        /\ exitTimer' => exitTimer \/ done'
    <3>1. CASE SetError("own") /\ UNCHANGED <<done, told, exitTimer>>
      BY <3>1 DEF SetError, TypeOK, ControlInv, Errors
    <3>2. CASE SetDone /\ told' = TRUE /\ exitTimer' = TRUE /\ UNCHANGED error
      BY <3>2 DEF SetDone, TypeOK, ControlInv
    <3> QED
      BY <1>4, <3>1, <3>2 DEF Stdout
  <2>2. UNCHANGED <<job, connected, reported, spawnVars, want, spawning, started,
                    completed, overdue>>
    BY <1>4 DEF Stdout
  <2>3. TypeOK'
    BY <1>2, <2>1, <2>2 DEF TypeOK, spawnVars
  <2> QED
    BY <1>1, <1>2, <1>3, <2>1, <2>2, <2>3 DEF TypeOK, ControlInv, ExitWhenIdle, spawnVars
<1>5. CASE Reap
  <2>1. /\ done' \in BOOLEAN /\ errorTimer' \in BOOLEAN
        /\ error' \in Errors \cup {"none"}
        /\ done => done'
        /\ errorTimer' => error' # "none"
    BY <1>5 DEF Reap, ExitCb, Fail, SetError, TypeOK, ControlInv, Errors
  <2>2. exit' \in ExitTypes
    <3>1. child[pid].cause \in Causes
      BY <1>1 DEF TypeOK, Process
    <3> QED
      BY <1>5, <3>1 DEF Reap, ExitType, TypeOK, ExitTypes, Causes
  <2>3. /\ pid' = 0 /\ poll' = FALSE /\ finished' = TRUE /\ killTimer' = "none"
        /\ sending' = FALSE /\ changing' = FALSE /\ spawning' = changing
        /\ UNCHANGED <<job, connected, reported, told, exitTimer, last, want,
                       started, completed, overdue>>
    BY <1>5 DEF Reap, StopKillTimer
  <2>4. TypeOK'
    <3>1. /\ pid' \in 0..MaxJob /\ job' \in 0..MaxJob /\ started' \in 0..job'
          /\ completed' \subseteq Job
      BY <2>3 DEF TypeOK
    <3>2. /\ poll' \in BOOLEAN /\ finished' \in BOOLEAN /\ sending' \in BOOLEAN
          /\ changing' \in BOOLEAN /\ spawning' \in BOOLEAN /\ told' \in BOOLEAN
          /\ connected' \in BOOLEAN /\ exitTimer' \in BOOLEAN /\ overdue' \in BOOLEAN
          /\ killTimer' \in {"none", "armed", "over"}
      BY <2>3 DEF TypeOK
    <3>3. /\ last' \in Helpers /\ want' \in Helpers
          /\ reported' \in [Job -> Errors \cup {"none", "success"}]
      BY <2>3 DEF TypeOK
    <3> QED
      BY <1>2, <2>1, <2>2, <3>1, <3>2, <3>3 DEF TypeOK
  <2> QED
    BY <1>1, <1>2, <1>3, <2>1, <2>3, <2>4 DEF TypeOK, ControlInv, ExitWhenIdle
<1> QED
  BY <1>4, <1>5

\* The exit timer, Cancel and the SIGKILL.
LEMMA KillControl ==
  ASSUME TypeOK, ControlInv, ExitTimeout \/ Cancel \/ SigkillTimeout
  PROVE  TypeOK' /\ ControlInv'
<1> USE NumberFacts
<1>1. /\ child' \in [Child -> Process]
      /\ \A c \in Child : /\ child'[c].state \in {child[c].state, "dead"}
                          /\ child'[c].state = "busy" => child'[c].job = child[c].job
  <2>1. CASE child' = child
    BY <2>1 DEF TypeOK
  <2>2. CASE ExitTimeout
    BY <2>1, <2>2, SendFacts DEF ExitTimeout, CanSend
  <2>3. CASE Cancel
    <3>1. CASE child' # child
      <4> DEFINE p == [child[pid] EXCEPT !.quit = TRUE]
      <4>1. pid \in Child /\ child[pid] \in Process /\ Becomes(pid, p)
        BY <2>3, <3>1 DEF Cancel, TypeOK
      <4>2. p \in Process /\ p.state = child[pid].state /\ p.job = child[pid].job
        BY <4>1 DEF Process
      <4> HIDE DEF p
      <4> QED
        BY <4>1, <4>2, BecomesFacts
    <3> QED
      BY <2>1, <3>1
  <2>4. CASE SigkillTimeout
    <3>1. CASE child' # child
      <4>1. pid # 0 /\ Die(pid, "sigkill")
        BY <2>4, <3>1 DEF SigkillTimeout, ControlInv
      <4> QED
        BY <4>1, DieFacts DEF Causes
    <3> QED
      BY <2>1, <3>1
  <2> QED
    BY <2>2, <2>3, <2>4
<1>2. \A c \in Child : child'[c].state = "busy" => child'[c].job # 0
  BY <1>1 DEF ControlInv
<1>3. pid # 0 => child'[pid].state # "none"
  BY <1>1 DEF ControlInv
<1>4. CASE ExitTimeout
  BY <1>1, <1>2, <1>3, <1>4 DEF ExitTimeout, MainLoop, CanSend, TypeOK, ControlInv,
     ExitWhenIdle, backendVars
<1>5. CASE Cancel
  BY <1>1, <1>2, <1>3, <1>5 DEF Cancel, MainLoop, SetError, TypeOK, ControlInv,
     ExitWhenIdle, Errors, ExitTypes, glueVars
<1>6. CASE SigkillTimeout
  BY <1>1, <1>2, <1>3, <1>6 DEF SigkillTimeout, MainLoop, TypeOK, ControlInv,
     ExitWhenIdle, ExitTypes, backendVars, glueVars
<1> QED
  BY <1>4, <1>5, <1>6

LEMMA HelperControl ==
  ASSUME TypeOK, ControlInv, NEW c \in Child, HelperNext(c)
  PROVE  TypeOK' /\ ControlInv'
<1> USE NumberFacts
<1>1. /\ child' \in [Child -> Process]
      /\ \A d \in Child : d # c => child'[d] = child[d]
      /\ Says(c, "error") \/ Says(c, "finished") \/ Reads(c) \/ Dies(c)
  BY HelperFacts
<1>2. UNCHANGED <<backendVars, glueVars, spawnVars, want, spawning, started, overdue>>
  BY DEF HelperNext
<1>3. child'[c].state = "busy" => child'[c].job # 0
  BY <1>1 DEF Says, Reads, Dies, ControlInv
<1>4. child'[c].state # "none"
  BY <1>1 DEF Says, Reads, Dies
<1>5. completed' \subseteq Job
  <2>1. child[c].state = "busy" => child[c].job \in Job
    <3>1. child[c].job \in 0..MaxJob
      BY DEF TypeOK, Process
    <3> QED
      BY <3>1 DEF ControlInv
  <2> QED
    BY <1>1, <2>1 DEF Says, Reads, Dies, TypeOK
<1>6. TypeOK'
  BY <1>1, <1>2, <1>5 DEF TypeOK, backendVars, glueVars, spawnVars
<1> QED
  BY <1>1, <1>2, <1>3, <1>4, <1>6 DEF ControlInv, ExitWhenIdle, backendVars, glueVars,
     spawnVars

LEMMA ControlNext ==
  ASSUME TypeOK, ControlInv, [Next]_vars
  PROVE  TypeOK' /\ ControlInv'
<1>1. CASE UNCHANGED vars
  BY <1>1 DEF TypeOK, ControlInv, ExitWhenIdle, vars, backendVars, glueVars, spawnVars,
     processVars
<1> QED
  BY <1>1, StartControl, QuietControl, SpawnControl, CheckControl, KillControl,
     HelperControl DEF Next, Request, MainNext

LEMMA ControlInit == Init => TypeOK /\ ControlInv
<1> SUFFICES ASSUME Init
             PROVE  TypeOK /\ ControlInv
  OBVIOUS
<1> USE SpawnAssumption, NoProcessFacts
<1>1. child \in [Child -> Process]
  BY DEF Init
<1>2. reported \in [Job -> Errors \cup {"none", "success"}]
  BY DEF Init
<1>3. last \in Helpers /\ want \in Helpers /\ MaxJob \in Nat /\ exit \in ExitTypes
  BY DEF Init, ExitTypes
<1>4. TypeOK
  <2>1. job \in 0..MaxJob /\ pid \in 0..MaxJob /\ started \in 0..job /\ completed \subseteq Job
    BY DEF Init
  <2>2. /\ connected \in BOOLEAN /\ done \in BOOLEAN /\ errorTimer \in BOOLEAN
        /\ error \in Errors \cup {"none"}
        /\ told \in BOOLEAN /\ exitTimer \in BOOLEAN
        /\ poll \in BOOLEAN /\ finished \in BOOLEAN
    BY DEF Init
  <2>3. /\ killTimer \in {"none", "armed", "over"}
        /\ sending \in BOOLEAN /\ changing \in BOOLEAN /\ spawning \in BOOLEAN
        /\ overdue \in BOOLEAN
    BY DEF Init
  <2> QED
    BY <1>1, <1>2, <1>3, <2>1, <2>2, <2>3 DEF TypeOK
<1> QED
  BY <1>4 DEF Init, ControlInv, ExitWhenIdle

\* The types.
THEOREM TypeCorrect == Spec => []TypeOK
BY ControlInit, ControlNext, PTL DEF Spec

\* kill and waitpid are never called without a process, whatever helpers do.
THEOREM KillAlwaysHasTarget == Spec => []KillHasTarget
<1>1. ControlInv => KillHasTarget
  BY DEF ControlInv, KillHasTarget
<1> QED
  BY <1>1, ControlInit, ControlNext, PTL DEF Spec

\* No job is under way when an idle helper is told to go, whatever helpers do.
THEOREM ExitComesWhenIdle == Spec => []ExitWhenIdle
<1>1. ControlInv => ExitWhenIdle
  BY DEF ControlInv
<1> QED
  BY <1>1, ControlInit, ControlNext, PTL DEF Spec

-----------------------------------------------------------------------------
(* What the helper is doing, as long as helpers keep to the time-outs.     *)

\* "finished" is not among the lines; or it is the last one.
NoFinished(lines) == \A i \in 1..Len(lines) : lines[i] # "finished"
OneFinished(lines) ==
  /\ lines # <<>>
  /\ lines[Len(lines)] = "finished"
  /\ \A i \in 1..(Len(lines) - 1) : lines[i] # "finished"

\* The helper has the current job: it has not read the command, or it is at it,
\* or it has said "finished", which PkBackendSpawn has not read.
Working ==
  LET p == child[pid]
  IN  /\ connected /\ ~done /\ ~told /\ ~sending /\ ~spawning
      /\ \/ p.state = "idle" /\ p.in = <<job>> /\ p.out = <<>>
         \/ /\ p.state \in {"busy", "leaving", "dead"} /\ p.in = <<>>
            /\ NoFinished(p.out)
            /\ p.state = "busy" => p.job = job
         \/ /\ p.state \in {"idle", "dead"} /\ p.in = <<>>
            /\ OneFinished(p.out)
            /\ job \in completed

\* It has no job.
Resting ==
  LET p == child[pid]
  IN  /\ done /\ ~sending /\ ~spawning
      /\ p.state \in {"idle", "dead"} /\ p.in = <<>> /\ p.out = <<>>

\* It was told to exit.
Going ==
  LET p == child[pid]
  IN  /\ sending
      /\ p.out = <<>>
      /\ \/ p.state = "idle" /\ p.in = <<ExitCmd>>
         \/ p.state \in {"leaving", "dead"} /\ p.in = <<>>

\* It is dead, and no one will know.
Forgotten ==
  child[pid].state = "dead" /\ child[pid].in = <<>> /\ ~poll /\ ~sending

Shape == pid # 0 => Working \/ Resting \/ Going \/ Forgotten

\* There is no other process, and none when one is to be started.
Alone ==
  /\ \A c \in Child : Alive(c) => c = pid /\ ~spawning
  /\ \A c \in Child : ~Alive(c) => child[c].in = <<>>

\* The job that a new helper is started for is not over.
Pending == spawning \/ changing => ~done /\ ~told

\* A job that is done without an error was carried out.
Earned ==
  /\ connected /\ done /\ error = "none" => job \in completed
  /\ \A j \in Job : reported[j] = "success" => j \in completed

HelperInv == Shape /\ Alone /\ Pending /\ Earned

\* What is not "finished" is "error"; lines are read from the front and written
\* at the end.
LEMMA LinesFacts ==
  ASSUME NEW lines \in Seq({"error", "finished"})
  PROVE  /\ NoFinished(<<>>)
         /\ NoFinished(lines) => /\ NoFinished(Append(lines, "error"))
                                 /\ OneFinished(Append(lines, "finished"))
         /\ lines # <<>> /\ NoFinished(lines) =>
              Head(lines) = "error" /\ NoFinished(Tail(lines))
         /\ OneFinished(lines) /\ Head(lines) = "error" => OneFinished(Tail(lines))
         /\ OneFinished(lines) /\ Head(lines) = "finished" => Tail(lines) = <<>>
<1>1. NoFinished(<<>>)
  BY DEF NoFinished
<1>2. ASSUME NoFinished(lines)
      PROVE  /\ NoFinished(Append(lines, "error"))
             /\ OneFinished(Append(lines, "finished"))
  BY <1>2 DEF NoFinished, OneFinished
<1>3. ASSUME lines # <<>>
      PROVE  /\ Head(lines) = lines[1] /\ Len(lines) \in Nat /\ Len(lines) >= 1
             /\ Len(Tail(lines)) = Len(lines) - 1
             /\ \A i \in 1..(Len(lines) - 1) : Tail(lines)[i] = lines[i + 1]
             /\ Tail(lines) \in Seq({"error", "finished"})
             /\ lines[1] \in {"error", "finished"}
  BY <1>3
<1>4. ASSUME lines # <<>>, NoFinished(lines)
      PROVE  Head(lines) = "error" /\ NoFinished(Tail(lines))
  BY <1>3, <1>4 DEF NoFinished
<1>5. ASSUME OneFinished(lines), Head(lines) = "error"
      PROVE  OneFinished(Tail(lines))
  <2>1. Len(lines) > 1
    BY <1>3, <1>5 DEF OneFinished
  <2>2. Tail(lines) # <<>>
    <3>1. Len(Tail(lines)) # 0 /\ Tail(lines) \in Seq({"error", "finished"})
      BY <1>3, <1>5, <2>1 DEF OneFinished
    <3> QED
      BY <3>1, EmptySeq
  <2> QED
    BY <1>3, <1>5, <2>1, <2>2 DEF OneFinished
<1>6. ASSUME OneFinished(lines), Head(lines) = "finished"
      PROVE  Tail(lines) = <<>>
  <2>1. /\ lines # <<>>
        /\ \A i \in 1..(Len(lines) - 1) : lines[i] # "finished"
    BY <1>6 DEF OneFinished
  <2>2. lines[1] = "finished" /\ Len(lines) \in Nat /\ Len(lines) >= 1
    BY <1>3, <1>6, <2>1
  <2>3. Len(lines) = 1
    <3>1. \A n \in Nat : n >= 1 /\ n # 1 => 1 \in 1..(n - 1)
      OBVIOUS
    <3> QED
      BY <2>1, <2>2, <3>1
  <2>4. Len(Tail(lines)) = 0 /\ Tail(lines) \in Seq({"error", "finished"})
    BY <1>3, <2>1, <2>3
  <2> QED
    BY <2>4, EmptySeq
<1> QED
  BY <1>1, <1>2, <1>4, <1>5, <1>6

\* Nothing of it depends on the rest.
LEMMA HelperStutter ==
  ASSUME HelperInv,
         UNCHANGED <<connected, done, told, sending, spawning, changing, pid, poll,
                     job, child, completed, error, reported>>
  PROVE  HelperInv'
BY DEF HelperInv, Shape, Working, Resting, Going, Forgotten, Alone, Alive, Pending, Earned

\* A helper that the main loop can write to has no job when there is none.
LEMMA RestingFacts ==
  ASSUME TypeOK, ControlInv, HelperInv, MainLoop, ~connected \/ done, CanSend
  PROVE  /\ pid \in Child /\ pid # 0 /\ child[pid].state = "idle"
         /\ child[pid].in = <<>> /\ child[pid].out = <<>>
<1>1. pid \in Child /\ pid # 0 /\ child[pid].state # "dead" /\ ~sending
  BY NumberFacts DEF CanSend, MainLoop
<1> QED
  BY <1>1 DEF HelperInv, Shape, Working, Resting, Going, Forgotten

\* Starting a job.
LEMMA ReuseHelper ==
  ASSUME TypeOK, ControlInv, HelperInv, NEW h \in Helpers, Reuse(h)
  PROVE  HelperInv'
<1>1. /\ MainLoop /\ ~connected /\ job' = job + 1 /\ job < MaxJob
      /\ connected' /\ ~done' /\ ~told' /\ pid' = pid
      /\ completed' = completed /\ reported' = reported
  BY StartFacts
<1>2. job' \in Job
  BY <1>1, NumberFacts
<1>3. CanSend /\ Send(job') /\ UNCHANGED <<sending, changing, spawning>>
  BY DEF Reuse
<1>4. /\ pid \in Child /\ pid # 0 /\ child[pid].state = "idle"
      /\ child[pid].in = <<>> /\ child[pid].out = <<>>
  BY <1>1, <1>3, RestingFacts
<1>5. /\ child'[pid].in = <<job'>>
      /\ child'[pid].out = <<>> /\ child'[pid].state = "idle"
      /\ \A d \in Child : d # pid => child'[d] = child[d]
  BY <1>2, <1>3, <1>4, SendFacts
<1>6. ~sending /\ ~spawning /\ ~changing
  BY <1>1 DEF MainLoop, ControlInv
<1>7. Working'
  BY <1>1, <1>3, <1>5, <1>6 DEF Working
<1>8. Alone'
  BY <1>1, <1>3, <1>4, <1>5, <1>6 DEF Alone, Alive, HelperInv
<1> QED
  BY <1>1, <1>3, <1>6, <1>7, <1>8 DEF HelperInv, Shape, Pending, Earned

LEMMA ChangeHelper ==
  ASSUME TypeOK, ControlInv, HelperInv, NEW h \in Helpers, Change(h)
  PROVE  HelperInv'
<1>1. /\ MainLoop /\ ~connected /\ ~done' /\ ~told' /\ pid' = pid
      /\ completed' = completed /\ reported' = reported
  BY StartFacts
<1>2. CanSend /\ Send(ExitCmd) /\ sending' = TRUE /\ UNCHANGED spawning
  BY DEF Change
<1>3. /\ pid \in Child /\ pid # 0 /\ child[pid].state = "idle"
      /\ child[pid].in = <<>> /\ child[pid].out = <<>>
  BY <1>1, <1>2, RestingFacts
<1>4. /\ child'[pid].in = <<ExitCmd>>
      /\ child'[pid].out = <<>> /\ child'[pid].state = "idle"
      /\ \A d \in Child : d # pid => child'[d] = child[d]
  BY <1>2, <1>3, SendFacts
<1>5. Going'
  BY <1>1, <1>2, <1>4 DEF Going
<1>6. Alone'
  BY <1>1, <1>2, <1>3, <1>4 DEF Alone, Alive, HelperInv
<1> QED
  BY <1>1, <1>2, <1>5, <1>6 DEF HelperInv, Shape, Pending, Earned

LEMMA NewHelper ==
  ASSUME TypeOK, ControlInv, HelperInv, NEW h \in Helpers, NoHelper(h) \/ Broken(h)
  PROVE  HelperInv'
<1>1. /\ MainLoop /\ ~done' /\ ~told' /\ pid' = pid
      /\ completed' = completed /\ reported' = reported
  BY StartFacts
<1>2. child' = child /\ sending' = sending /\ changing' = changing
  BY DEF NoHelper, Broken, processVars
<1>3. \A c \in Child : ~Alive(c)
  BY NumberFacts DEF NoHelper, Broken, CanSend, ControlInv, HelperInv, Alone, Alive
<1>4. pid # 0 => Forgotten'
  <2>1. pid # 0 => /\ child[pid].state = "dead" /\ poll' = FALSE /\ pid \in Child
    BY NumberFacts DEF NoHelper, Broken, CanSend, ControlInv
  <2>2. pid # 0 => child[pid].in = <<>>
    BY <1>3, <2>1 DEF HelperInv, Alone
  <2> QED
    BY <1>1, <1>2, <2>1, <2>2 DEF Forgotten, MainLoop
<1>5. Alone'
  BY <1>2, <1>3 DEF Alone, Alive, HelperInv
<1> QED
  BY <1>1, <1>4, <1>5 DEF HelperInv, Shape, Pending, Earned

\* Time-outs and the end of a job.
LEMMA QuietHelper ==
  ASSUME TypeOK, ControlInv, HelperInv, ~overdue',
         ErrorTimeout \/ FinishedDelay \/ SpawnFails \/ GiveUp
  PROVE  HelperInv'
<1>1. CASE ErrorTimeout
  <2>1. done' = done
    BY <1>1 DEF ErrorTimeout, TypeOK
  <2> QED
    BY <1>1, <2>1, HelperStutter DEF ErrorTimeout, glueVars, spawnVars, processVars
<1>2. CASE FinishedDelay
  <2>1. /\ connected /\ done /\ ~sending /\ ~spawning
        /\ reported' = [reported EXCEPT ![job] = IF error = "none" THEN "success" ELSE error]
        /\ connected' = FALSE
        /\ UNCHANGED <<job, done, error, told, sending, spawning, changing, pid, poll,
                       child, completed>>
    BY <1>2 DEF FinishedDelay, MainLoop, glueVars, spawnVars, processVars
  <2>2. Shape'
    BY <2>1 DEF HelperInv, Shape, Working, Resting, Going, Forgotten
  <2>3. Earned'
    <3>1. ASSUME NEW j \in Job, reported'[j] = "success"
          PROVE  j \in completed
      <4>1. CASE j = job /\ error = "none"
        BY <2>1, <4>1 DEF HelperInv, Earned
      <4>2. CASE j = job /\ error # "none"
        BY <2>1, <3>1, <4>2 DEF TypeOK, Errors
      <4>3. CASE j # job
        BY <2>1, <3>1, <4>3 DEF HelperInv, Earned, TypeOK
      <4> QED
        BY <4>1, <4>2, <4>3
    <3> QED
      BY <2>1, <3>1 DEF Earned
  <2> QED
    BY <2>1, <2>2, <2>3 DEF HelperInv, Alone, Alive, Pending
<1>3. CASE SpawnFails
  <2>1. /\ spawning /\ ~sending /\ spawning' = FALSE /\ error' # "none"
        /\ changing' = changing /\ ~changing
        /\ UNCHANGED <<sending, pid, poll, child, completed, reported>>
    BY <1>3 DEF SpawnFails, Fail, ControlInv, processVars
  <2>2. pid # 0 => Forgotten
    BY <2>1 DEF HelperInv, Shape, Working, Resting, Going
  <2> QED
    BY <2>1, <2>2 DEF HelperInv, Shape, Forgotten, Alone, Alive, Pending, Earned
<1>4. CASE GiveUp
  BY <1>4 DEF GiveUp
<1> QED
  BY <1>1, <1>2, <1>3, <1>4

LEMMA SpawnHelper ==
  ASSUME TypeOK, ControlInv, HelperInv, Spawn
  PROVE  HelperInv'
<1>1. /\ spawning /\ connected /\ ~done /\ ~told /\ ~sending /\ ~changing
  BY DEF Spawn, ControlInv, HelperInv, Pending
<1>2. /\ spawning' = FALSE
      /\ UNCHANGED <<job, connected, done, error, reported, told, sending, changing,
                     completed>>
  BY DEF Spawn, backendVars, glueVars
<1>3. \A c \in Child : ~Alive(c) /\ child[c].in = <<>>
  BY <1>1 DEF HelperInv, Alone
<1>4. /\ child'[pid'].state = "busy" /\ child'[pid'].job = job
      /\ child'[pid'].in = <<>> /\ child'[pid'].out = <<>>
      /\ \A c \in Child : c # pid' => /\ child'[c].state = child[c].state
                                      /\ child'[c].in = child[c].in
  BY SpawnFacts
<1>5. Working'
  BY <1>1, <1>2, <1>4, LinesFacts DEF Working, NoFinished
<1>6. Alone'
  BY <1>2, <1>3, <1>4 DEF Alone, Alive
<1> QED
  BY <1>1, <1>2, <1>5, <1>6 DEF HelperInv, Shape, Pending, Earned

\* What is read is of the current job.
LEMMA StdoutHelper ==
  ASSUME TypeOK, ControlInv, HelperInv, Stdout
  PROVE  HelperInv'
<1> DEFINE lines == child[pid].out
<1>1. /\ pid \in Child /\ pid # 0 /\ ~spawning /\ (poll \/ sending)
      /\ lines # <<>> /\ lines \in Seq({"error", "finished"})
      /\ Tail(lines) \in Seq({"error", "finished"})
  BY NumberFacts DEF Stdout, Checking, TypeOK, Process
<1>2. UNCHANGED <<job, connected, reported, sending, spawning, changing, pid, poll,
                  completed>>
  BY DEF Stdout, spawnVars
<1>3. /\ child'[pid].out = Tail(lines) /\ child'[pid].state = child[pid].state
      /\ child'[pid].in = child[pid].in /\ child'[pid].job = child[pid].job
      /\ \A d \in Child : d # pid => child'[d] = child[d]
  BY <1>1, OutFacts DEF Stdout
<1>4. Working /\ ~(lines = <<>>)
  BY <1>1 DEF HelperInv, Shape, Resting, Going, Forgotten
<1>5. ~changing /\ ~sending
  BY <1>4 DEF Working, ControlInv
<1>6. Alone'
  BY <1>1, <1>2, <1>3 DEF HelperInv, Alone, Alive
<1>7. CASE Head(lines) = "error"
  <2>1. done' = done /\ told' = told /\ error' # "none"
    BY <1>7 DEF Stdout, SetError
  <2>2. Working'
    BY <1>1, <1>2, <1>3, <1>4, <1>7, <2>1, LinesFacts DEF Working
  <2> QED
    BY <1>2, <1>6, <2>1, <2>2 DEF HelperInv, Shape, Pending, Earned
<1>8. CASE Head(lines) = "finished"
  <2>1. done' = TRUE
    BY <1>8 DEF Stdout, SetDone
  <2>2. OneFinished(lines) /\ job \in completed /\ child[pid].in = <<>>
        /\ child[pid].state \in {"idle", "dead"}
    BY <1>1, <1>4, <1>8, LinesFacts DEF Working
  <2>3. Resting'
    BY <1>1, <1>2, <1>3, <1>5, <1>8, <2>1, <2>2, LinesFacts DEF Resting
  <2> QED
    BY <1>1, <1>2, <1>5, <1>6, <2>2, <2>3 DEF HelperInv, Shape, Pending, Earned
<1> QED
  BY <1>7, <1>8 DEF Stdout

LEMMA ReapHelper ==
  ASSUME TypeOK, ControlInv, HelperInv, Reap
  PROVE  HelperInv'
<1>1. /\ pid \in Child /\ ~spawning /\ child[pid].state = "dead"
      /\ pid' = 0 /\ spawning' = changing /\ changing' = FALSE
      /\ UNCHANGED <<job, connected, reported, told, completed>>
  BY NumberFacts DEF Reap, Checking
<1>2. \A c \in Child : /\ child'[c].state = child[c].state
                       /\ child'[c].in = child[c].in
  <2>1. <<>> \in Seq({"error", "finished"})
        /\ Becomes(pid, [child[pid] EXCEPT !.out = <<>>])
    BY DEF Reap
  <2> QED
    BY <1>1, <2>1, OutFacts
<1>3. \A c \in Child : ~Alive(c)
  BY <1>1 DEF HelperInv, Alone, Alive
<1>4. Alone'
  BY <1>2, <1>3 DEF HelperInv, Alone, Alive
<1>5. changing => done' = done
  BY DEF Reap, ExitType, ExitCb
<1>6. done' /\ error' = "none" => done /\ error = "none"
  <2>1. CASE exit' \in {"dispatcher-changed", "dispatcher-exit"}
    BY <2>1 DEF Reap, ExitCb
  <2>2. CASE exit' \notin {"dispatcher-changed", "dispatcher-exit"} /\ ~told
    BY <2>2 DEF Reap, ExitCb, Fail
  <2>3. CASE exit' \notin {"dispatcher-changed", "dispatcher-exit"} /\ told
    BY <2>3 DEF Reap, ExitCb, SetError
  <2> QED
    BY <2>1, <2>2, <2>3
<1> QED
  BY <1>1, <1>4, <1>5, <1>6 DEF HelperInv, Shape, Pending, Earned

LEMMA KillHelper ==
  ASSUME TypeOK, ControlInv, HelperInv, ExitTimeout \/ Cancel \/ SigkillTimeout
  PROVE  HelperInv'
<1>1. CASE ExitTimeout
  <2>1. /\ MainLoop /\ done /\ ~sending /\ ~spawning /\ ~changing
        /\ UNCHANGED <<job, connected, done, error, reported, told, spawning, changing,
                       pid, poll, completed>>
    BY <1>1 DEF ExitTimeout, MainLoop, backendVars, ControlInv, ExitWhenIdle
  <2>2. CASE CanSend
    <3>1. Send(ExitCmd) /\ sending' = TRUE
      BY <1>1, <2>2 DEF ExitTimeout
    <3>2. /\ pid \in Child /\ pid # 0 /\ child[pid].state = "idle"
          /\ child[pid].in = <<>> /\ child[pid].out = <<>>
      BY <2>1, <2>2, RestingFacts
    <3>3. /\ child'[pid].in = <<ExitCmd>>
          /\ child'[pid].out = <<>> /\ child'[pid].state = "idle"
          /\ \A d \in Child : d # pid => child'[d] = child[d]
      BY <3>1, <3>2, SendFacts
    <3>4. Going'
      BY <2>1, <3>1, <3>3 DEF Going
    <3>5. Alone'
      BY <2>1, <3>2, <3>3 DEF HelperInv, Alone, Alive
    <3> QED
      BY <2>1, <3>4, <3>5 DEF HelperInv, Shape, Pending, Earned
  <2>3. CASE ~CanSend
    BY <1>1, <2>1, <2>3, HelperStutter DEF ExitTimeout
  <2> QED
    BY <2>2, <2>3
<1>2. CASE Cancel
  <2>1. /\ UNCHANGED <<job, connected, done, reported, told, sending, spawning,
                       changing, pid, poll, completed>>
        /\ error' # "none"
    BY <1>2 DEF Cancel, SetError, glueVars
  <2>2. \A c \in Child : /\ child'[c].state = child[c].state
                         /\ child'[c].in = child[c].in /\ child'[c].out = child[c].out
                         /\ child'[c].job = child[c].job
    <3>1. CASE child' # child
      <4> DEFINE p == [child[pid] EXCEPT !.quit = TRUE]
      <4>1. pid \in Child /\ child[pid] \in Process /\ Becomes(pid, p)
        BY <1>2, <3>1, NumberFacts DEF Cancel, TypeOK
      <4>2. /\ p.state = child[pid].state /\ p.job = child[pid].job
            /\ p.in = child[pid].in /\ p.out = child[pid].out
        BY <4>1 DEF Process
      <4> HIDE DEF p
      <4> QED
        BY <4>1, <4>2, BecomesFacts
    <3> QED
      BY <3>1
  <2>3. Shape'
    BY <2>1, <2>2, NumberFacts DEF HelperInv, Shape, Working, Resting, Going, Forgotten
  <2>4. Alone'
    BY <2>1, <2>2 DEF HelperInv, Alone, Alive
  <2> QED
    BY <2>1, <2>3, <2>4 DEF HelperInv, Pending, Earned
<1>3. CASE SigkillTimeout
  <2>1. /\ ~sending /\ ~spawning /\ ~changing
        /\ UNCHANGED <<job, connected, done, error, reported, told, sending, spawning,
                       changing, pid, poll, completed>>
    BY <1>3 DEF SigkillTimeout, MainLoop, backendVars, glueVars, ControlInv
  <2>2. CASE child' = child
    BY <2>1, <2>2, HelperStutter
  <2>3. CASE child' # child
    <3>1. pid \in Child /\ pid # 0 /\ Die(pid, "sigkill") /\ Alive(pid)
      BY <1>3, <2>3, NumberFacts DEF SigkillTimeout, ControlInv
    <3>2. /\ child'[pid].state = "dead" /\ child'[pid].in = <<>>
          /\ child'[pid].out = child[pid].out
          /\ \A d \in Child : d # pid => child'[d] = child[d]
      BY <3>1, DieFacts DEF Causes
    <3>3. Shape'
      BY <2>1, <3>1, <3>2, LinesFacts
         DEF HelperInv, Shape, Working, Resting, Going, Forgotten, NoFinished
    <3>4. Alone'
      BY <2>1, <3>1, <3>2 DEF HelperInv, Alone, Alive
    <3> QED
      BY <2>1, <3>3, <3>4 DEF HelperInv, Pending, Earned
  <2> QED
    BY <2>2, <2>3
<1> QED
  BY <1>1, <1>2, <1>3

LEMMA HelperHelper ==
  ASSUME TypeOK, ControlInv, HelperInv, NEW c \in Child, HelperNext(c)
  PROVE  HelperInv'
<1>1. /\ \A d \in Child : d # c => child'[d] = child[d]
      /\ Says(c, "error") \/ Says(c, "finished") \/ Reads(c) \/ Dies(c)
  BY HelperFacts
<1>2. UNCHANGED <<job, connected, done, error, reported, told, sending, spawning,
                  changing, pid, poll>>
  BY DEF HelperNext, backendVars, glueVars, spawnVars
<1>3. c = pid /\ pid # 0 /\ ~spawning
  BY <1>1, NumberFacts DEF Says, Reads, Dies, HelperInv, Alone, Alive
<1>4. child[pid].out \in Seq({"error", "finished"})
  BY <1>3 DEF TypeOK, Process
<1>5. completed \subseteq completed'
  BY <1>1 DEF Says, Reads, Dies
<1>6. CASE Says(c, "error") \/ Says(c, "finished")
  <2>1. Working /\ child[pid].in = <<>> /\ child[pid].job = job
        /\ NoFinished(child[pid].out)
    BY <1>3, <1>6 DEF Says, HelperInv, Shape, Working, Resting, Going, Forgotten, OneFinished
  <2>2. ASSUME Says(c, "error")
        PROVE  Working'
    BY <1>2, <1>3, <1>4, <2>1, <2>2, LinesFacts DEF Says, Output, Working
  <2>3. ASSUME Says(c, "finished")
        PROVE  Working'
    BY <1>2, <1>3, <1>4, <2>1, <2>3, LinesFacts DEF Says, Output, Working
  <2>4. Alone'
    BY <1>1, <1>2, <1>3, <1>6 DEF Says, HelperInv, Alone, Alive
  <2>5. Working'
    BY <1>6, <2>2, <2>3
  <2> QED
    BY <1>2, <1>5, <2>4, <2>5 DEF HelperInv, Shape, Pending, Earned
<1>7. CASE Reads(c)
  <2>1. Alone'
    BY <1>1, <1>2, <1>3, <1>7 DEF Reads, HelperInv, Alone, Alive
  <2>2. ASSUME Working
        PROVE  Shape'
    <3>1. child[pid].in = <<job>> /\ child[pid].out = <<>> /\ job # ExitCmd
      BY <1>3, <1>7, <2>2 DEF Reads, Working, ControlInv, ExitCmd
    <3>2. Head(child[pid].in) = job /\ Tail(child[pid].in) = <<>>
      BY <3>1
    <3>3. Working'
      BY <1>2, <1>3, <1>7, <2>2, <3>1, <3>2, LinesFacts DEF Reads, Working, NoFinished
    <3> QED
      BY <3>3 DEF Shape
  <2>3. ASSUME Going
        PROVE  Shape'
    <3>1. child[pid].in = <<ExitCmd>> /\ child[pid].out = <<>>
      BY <1>3, <1>7, <2>3 DEF Reads, Going
    <3>2. Head(child[pid].in) = ExitCmd /\ Tail(child[pid].in) = <<>>
      BY <3>1
    <3>3. Going'
      BY <1>2, <1>3, <1>7, <2>3, <3>1, <3>2, NumberFacts DEF Reads, Going
    <3> QED
      BY <3>3 DEF Shape
  <2>4. Shape'
    BY <1>3, <1>7, <2>2, <2>3 DEF Reads, HelperInv, Shape, Resting, Forgotten
  <2> QED
    BY <1>2, <1>5, <2>1, <2>4 DEF HelperInv, Pending, Earned
<1>8. CASE Dies(c)
  <2>1. Alone'
    BY <1>1, <1>2, <1>3, <1>8 DEF Dies, HelperInv, Alone, Alive
  <2>2. Shape'
    BY <1>2, <1>3, <1>4, <1>8, LinesFacts
       DEF Dies, Alive, HelperInv, Shape, Working, Resting, Going, Forgotten, NoFinished
  <2> QED
    BY <1>2, <1>5, <2>1, <2>2 DEF HelperInv, Pending, Earned
<1> QED
  BY <1>1, <1>6, <1>7, <1>8

LEMMA HelperStep ==
  ASSUME TypeOK, ControlInv, ~overdue => HelperInv, [Next]_vars
  PROVE  ~overdue' => HelperInv'
<1> SUFFICES ASSUME ~overdue'
             PROVE  HelperInv'
  OBVIOUS
<1>1. HelperInv
  BY StartFacts DEF Next, Request, Cancel, MainNext, ErrorTimeout, FinishedDelay,
     ExitTimeout, SigkillTimeout, Spawn, SpawnFails, Stdout, Reap, GiveUp, HelperNext, vars
<1>2. CASE UNCHANGED vars
  BY <1>1, <1>2, HelperStutter DEF vars, backendVars, glueVars, spawnVars, processVars
<1> QED
  BY <1>1, <1>2, ReuseHelper, ChangeHelper, NewHelper, QuietHelper, SpawnHelper,
     StdoutHelper, ReapHelper, KillHelper, HelperHelper DEF Next, Request, MainNext

LEMMA HelperStart == Init => HelperInv
BY NumberFacts, ControlInit, NoProcessFacts
   DEF Init, HelperInv, Shape, Alone, Alive, Pending, Earned

\* Whatever helpers and timers do, HelperInv holds until one is late.
LEMMA HelperAlways ==
  Spec => [](TypeOK /\ ControlInv /\ (~overdue => HelperInv))
<1>1. Init => TypeOK /\ ControlInv /\ (~overdue => HelperInv)
  BY ControlInit, HelperStart
<1>2. TypeOK /\ ControlInv /\ (~overdue => HelperInv) /\ [Next]_vars
        => (TypeOK /\ ControlInv /\ (~overdue => HelperInv))'
  BY ControlNext, HelperStep
<1> QED
  BY <1>1, <1>2, PTL DEF Spec

\* As long as helpers keep to the time-outs there is one of them.
THEOREM OneHelperAlways == Spec => []OneHelper
<1>1. TypeOK /\ ControlInv /\ (~overdue => HelperInv) => OneHelper
  BY DEF HelperInv, Alone, OneHelper
<1> QED
  BY <1>1, HelperAlways, PTL

\* ... and only an idle one is written to, one command at a time.
THEOREM CommandsFindIdleHelper == Spec => []CommandsToIdle
<1>1. ASSUME TypeOK, ControlInv, ~overdue => HelperInv
      PROVE  CommandsToIdle
  <2>1. ASSUME ~overdue, NEW c \in Child, child[c].in # <<>>
        PROVE  child[c].state = "idle" /\ Len(child[c].in) = 1
    <3>1. c = pid /\ pid # 0
      BY <1>1, <2>1, NumberFacts DEF HelperInv, Alone
    <3>2. child[c].state = "idle" /\ \E what : child[c].in = <<what>>
      BY <1>1, <2>1, <3>1 DEF HelperInv, Shape, Working, Resting, Going, Forgotten
    <3> QED
      BY <3>2
  <2> QED
    BY <2>1 DEF CommandsToIdle
<1> QED
  BY <1>1, HelperAlways, PTL

\* ... and a job ends with success when its helper said so.
THEOREM SuccessAlwaysEarned == Spec => []SuccessIsEarned
<1>1. TypeOK /\ ControlInv /\ (~overdue => HelperInv) => SuccessIsEarned
  BY DEF HelperInv, Earned, SuccessIsEarned
<1> QED
  BY <1>1, HelperAlways, PTL
=============================================================================
