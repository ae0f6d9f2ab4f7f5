-------------------------- MODULE PkSpawnJobsProofs --------------------------
(***************************************************************************)
(* More proofs about PkSpawn, for any number of jobs and of programs: that *)
(* something is always under way that will end the job that a transaction  *)
(* waits for, unless it is deserted; and that spawned backends keep the    *)
(* promises of PkJobs.                                                     *)
(***************************************************************************)
EXTENDS PkSpawnProofs

-----------------------------------------------------------------------------
(* JobHasCompletion.                                                       *)

\* A helper that is not polled is dead, a helper that said "finished" was
\* believed, and an error has its timer until the job is done.
CompletionInv ==
  /\ JobHasCompletion
  /\ pid # 0 /\ ~poll => child[pid].state = "dead"
  /\ told => done
  /\ connected /\ ~done /\ error # "none" => errorTimer

\* SIGQUIT is only noted; the helper is what it was.
LEMMA CancelFacts ==
  ASSUME TypeOK, Cancel
  PROVE  \A c \in Child : /\ child'[c].state = child[c].state
                          /\ child'[c].in = child[c].in
                          /\ child'[c].out = child[c].out
                          /\ child'[c].job = child[c].job
<1>1. CASE child' = child
  BY <1>1
<1>2. CASE child' # child
  <2> DEFINE p == [child[pid] EXCEPT !.quit = TRUE]
  <2>1. pid \in Child /\ child[pid] \in Process /\ Becomes(pid, p)
    BY <1>2, NumberFacts DEF Cancel, TypeOK
  <2>2. /\ p.state = child[pid].state /\ p.job = child[pid].job
        /\ p.in = child[pid].in /\ p.out = child[pid].out
    BY <2>1 DEF Process
  <2> HIDE DEF p
  <2> QED
    BY <2>1, <2>2, BecomesFacts
<1> QED
  BY <1>1, <1>2

\* The helper that gets the command owes the job; a new one is under way otherwise.
LEMMA StartCompletion ==
  ASSUME TypeOK, ControlInv, CompletionInv, NEW h \in Helpers,
         Reuse(h) \/ Change(h) \/ NoHelper(h) \/ Broken(h)
  PROVE  CompletionInv'
<1>0. /\ MainLoop /\ connected' = TRUE /\ done' = FALSE /\ error' = "none"
      /\ told' = FALSE /\ pid' = pid /\ job' = job + 1 /\ job < MaxJob
  BY StartFacts
<1>1. job' \in Job
  BY <1>0, NumberFacts
<1>2. CASE Reuse(h)
  <2>1. CanSend /\ Send(job') /\ pid # 0 /\ poll' = poll
    BY <1>2 DEF Reuse, CanSend, StartJob
  <2>2. pid \in Child /\ child[pid].in \in Seq(Job \cup {ExitCmd})
    BY <2>1, NumberFacts DEF TypeOK, Process
  <2>3. child'[pid].in # <<>> /\ child'[pid].state = child[pid].state
    BY <1>0, <1>1, <2>1, <2>2, SendFacts
  <2>4. poll
    BY <2>1 DEF CanSend, CompletionInv
  <2> QED
    BY <1>0, <1>1, <2>1, <2>3, <2>4 DEF CompletionInv, JobHasCompletion, Owes
<1>3. CASE Change(h)
  <2>1. CanSend /\ Send(ExitCmd) /\ pid # 0 /\ poll' = poll /\ changing' = TRUE
    BY <1>3 DEF Change, CanSend, StartJob
  <2>2. child'[pid].state = child[pid].state
    BY <2>1, SendFacts
  <2> QED
    BY <1>0, <1>1, <2>1, <2>2 DEF CompletionInv, JobHasCompletion
<1>4. CASE NoHelper(h)
  BY <1>0, <1>1, <1>4 DEF NoHelper, CompletionInv, JobHasCompletion
<1>5. CASE Broken(h)
  <2>1. /\ spawning' = TRUE /\ child' = child
        /\ pid # 0 => child[pid].state = "dead"
    BY <1>5 DEF Broken, processVars, CanSend, ControlInv
  <2> QED
    BY <1>0, <1>1, <2>1 DEF CompletionInv, JobHasCompletion
<1> QED
  BY <1>2, <1>3, <1>4, <1>5

\* The steps of the main loop.
LEMMA MainCompletion ==
  ASSUME TypeOK, ControlInv, CompletionInv, MainNext \/ Cancel
  PROVE  CompletionInv'
<1> USE DEF CompletionInv, JobHasCompletion
<1>1. CASE ErrorTimeout \/ FinishedDelay \/ SpawnFails
  BY <1>1 DEF ErrorTimeout, FinishedDelay, SpawnFails, Fail, glueVars, spawnVars,
              processVars
<1>2. CASE GiveUp
  <2>1. /\ UNCHANGED <<connected, done, error, errorTimer, told, pid, poll, child>>
        /\ spawning' = changing /\ (~changing => done)
    BY <1>2 DEF GiveUp, backendVars, glueVars, processVars, ControlInv, ExitWhenIdle
  <2> QED
    BY <2>1
<1>3. CASE ExitTimeout
  <2>1. /\ done /\ UNCHANGED <<connected, done, error, errorTimer, told, pid, poll>>
    BY <1>3 DEF ExitTimeout, backendVars, ControlInv, ExitWhenIdle
  <2>2. pid # 0 => child'[pid].state = child[pid].state
    BY <1>3, SendFacts DEF ExitTimeout
  <2> QED
    BY <2>1, <2>2
<1>4. CASE Cancel
  <2>1. /\ connected /\ UNCHANGED <<connected, done, told, pid, poll>>
        /\ errorTimer' = (errorTimer \/ error = "none")
    BY <1>4 DEF Cancel, SetError, glueVars
  <2>2. pid # 0 => child'[pid].state = child[pid].state
    BY <1>4, CancelFacts, NumberFacts
  <2> QED
    BY <2>1, <2>2
<1>5. CASE SigkillTimeout
  <2>1. /\ pid # 0 /\ pid \in Child
        /\ UNCHANGED <<connected, done, error, errorTimer, told, pid, poll, spawning,
                       changing>>
    BY <1>5, NumberFacts DEF SigkillTimeout, backendVars, glueVars, ControlInv
  <2>2. child' = child \/ child'[pid].state = "dead"
    BY <1>5, <2>1, DieFacts DEF SigkillTimeout, Causes
  <2> QED
    BY <2>1, <2>2 DEF Owes, Deserted
<1>6. CASE Spawn
  <2>1. /\ poll' /\ child'[pid'].state = "busy" /\ pid' = started + 1
        /\ UNCHANGED <<connected, done, error, errorTimer, told>>
    BY <1>6, SpawnFacts DEF Spawn, backendVars, glueVars
  <2>2. pid' # 0
    BY <2>1, NumberFacts
  <2> QED
    BY <2>1, <2>2 DEF Owes
<1>7. CASE Stdout
  <2>1. /\ pid # 0 /\ pid \in Child /\ child[pid].out \in Seq({"error", "finished"})
        /\ child[pid].out # <<>> /\ UNCHANGED <<connected, pid, poll>>
    BY <1>7, NumberFacts DEF Stdout, Checking, spawnVars, TypeOK, Process
  <2>2. child'[pid].state = child[pid].state
    <3>1. /\ Tail(child[pid].out) \in Seq({"error", "finished"})
          /\ Becomes(pid, [child[pid] EXCEPT !.out = Tail(child[pid].out)])
      BY <1>7, <2>1 DEF Stdout
    <3> QED
      BY <2>1, <3>1, OutFacts
  <2>3. \/ /\ done' = done /\ told' = told
           /\ errorTimer \/ error = "none" => errorTimer'
        \/ done' = TRUE
    BY <1>7 DEF Stdout, SetError, SetDone
  <2> QED
    BY <2>1, <2>2, <2>3
<1>8. CASE Reap
  <2>1. /\ pid' = 0 /\ told' = told /\ connected' = connected /\ spawning' = changing
        /\ exit' = ExitType(child[pid].cause) /\ ExitCb(exit')
    BY <1>8 DEF Reap
  <2>2. CASE exit' \in {"dispatcher-changed", "dispatcher-exit"}
    <3>1. UNCHANGED <<error, done, errorTimer>>
      BY <2>1, <2>2 DEF ExitCb
    <3> QED
      BY <2>1, <2>2, <3>1 DEF Deserted
  <2>3. CASE exit' \notin {"dispatcher-changed", "dispatcher-exit"} /\ ~told
    BY <2>1, <2>3 DEF ExitCb, Fail
  <2>4. CASE told
    BY <2>1, <2>4 DEF ExitCb, SetError
  <2> QED
    BY <2>2, <2>3, <2>4
<1> QED
  BY <1>1, <1>2, <1>3, <1>4, <1>5, <1>6, <1>7, <1>8 DEF MainNext

\* A helper that is at a job says so, or dies, and owes the rest.
LEMMA HelperCompletion ==
  ASSUME TypeOK, ControlInv, CompletionInv, NEW c \in Child, HelperNext(c)
  PROVE  CompletionInv'
<1>1. /\ \A d \in Child : d # c => child'[d] = child[d]
      /\ Says(c, "error") \/ Says(c, "finished") \/ Reads(c) \/ Dies(c)
  BY HelperFacts
<1>2. UNCHANGED <<backendVars, glueVars, spawnVars, spawning>>
  BY DEF HelperNext
<1>3. CASE c # pid
  BY <1>1, <1>2, <1>3, NumberFacts
     DEF CompletionInv, JobHasCompletion, Owes, Deserted, backendVars, glueVars, spawnVars
<1>4. CASE c = pid
  <2>1. child[pid].out \in Seq({"error", "finished"})
    BY <1>4 DEF TypeOK, Process
  <2>2. Owes(pid)'
    <3>1. CASE Says(c, "finished")
      <4>1. child'[pid].out = Append(child[pid].out, "finished")
        BY <1>4, <3>1 DEF Says, Output
      <4>2. /\ Len(child'[pid].out) \in 1..Len(child'[pid].out)
            /\ child'[pid].out[Len(child'[pid].out)] = "finished"
        BY <2>1, <4>1
      <4> QED
        BY <1>2, <4>2 DEF Owes, spawnVars
    <3>2. CASE Says(c, "error") \/ Reads(c) \/ Dies(c)
      BY <1>2, <1>4, <3>2 DEF Says, Reads, Dies, Owes, spawnVars
    <3> QED
      BY <1>1, <3>1, <3>2
  <2>3. child[pid].state # "dead"
    BY <1>1, <1>4 DEF Says, Reads, Dies, Alive
  <2>4. poll /\ pid # 0
    BY <1>4, <2>3, NumberFacts DEF CompletionInv
  <2> QED
    BY <1>2, <2>2, <2>4 DEF CompletionInv, JobHasCompletion, backendVars, glueVars, spawnVars
<1> QED
  BY <1>3, <1>4

\* Whatever helpers do, the job that a transaction waits for has something under
\* way that will end it, unless its helper was taken for one that was sent away.
THEOREM CompletionIsComing == Spec => []JobHasCompletion
<1>1. Init => TypeOK /\ ControlInv /\ CompletionInv
  BY ControlInit DEF Init, CompletionInv, JobHasCompletion
<1>2. CompletionInv /\ UNCHANGED vars => CompletionInv'
  BY DEF CompletionInv, JobHasCompletion, Owes, Deserted, vars, backendVars, glueVars,
         spawnVars, processVars
<1>3. TypeOK /\ ControlInv /\ CompletionInv /\ [Next]_vars
        => (TypeOK /\ ControlInv /\ CompletionInv)'
  BY <1>2, ControlNext, StartCompletion, MainCompletion, HelperCompletion
     DEF Next, Request
<1>4. CompletionInv => JobHasCompletion
  BY DEF CompletionInv
<1> QED
  BY <1>1, <1>3, <1>4, PTL DEF Spec

-----------------------------------------------------------------------------
(* The refinement of PkJobs.                                               *)

\* No helper has a job that was not started.
BoundInv ==
  /\ \A c \in Child : child[c].state = "busy" => child[c].job <= job
  /\ \A c \in Child : \A i \in 1..Len(child[c].in) : child[c].in[i] <= job
  /\ \A j \in completed : j <= job

\* A transaction is told once, and not before its job was started.
ToldInv ==
  /\ connected => reported[job] = "none"
  /\ \A j \in Job : j > job => reported[j] = "none"

JobsInv ==
  TypeOK /\ ControlInv /\ (~overdue => HelperInv) /\ BoundInv /\ ToldInv

\* What is told, in the words of PkJobs.
toldBar == [j \in Job |-> Told(j)]

\* The steps that report nothing: whoever has the job after one had it before,
\* and a job that is carried out was somebody's.
Quiet ==
  /\ UNCHANGED <<job, connected, reported, overdue>>
  /\ error # "none" => error' # "none"
  /\ spawning' \/ changing' => spawning \/ changing
  /\ completed \subseteq completed'
  /\ connected /\ job \in completed' =>
       job \in completed \/ \E c \in Child : HasJob(c)
  /\ connected => \A c \in Child : HasJob(c)' => HasJob(c) \/ spawning
  /\ BoundInv'

\* The steps that only find a helper late.
Late ==
  /\ UNCHANGED <<job, connected, reported, error, completed, child>>
  /\ spawning' \/ changing' <=> spawning \/ changing
  /\ overdue' \in {overdue, TRUE}

\* What changes in no more than its output or state has the commands that it had.
LEMMA SameCommands ==
  ASSUME BoundInv, UNCHANGED <<job, completed>>,
         \A c \in Child :
           /\ child'[c].state = "busy" =>
                child[c].state = "busy" /\ child'[c].job = child[c].job
           /\ child'[c].in \in {child[c].in, <<>>}
  PROVE  BoundInv' /\ \A c \in Child : HasJob(c)' => HasJob(c)
BY DEF BoundInv, HasJob

\* What is written to the helper.
LEMMA SentCommand ==
  ASSUME TypeOK, BoundInv, pid # 0, NEW what \in Job \cup {ExitCmd}, Send(what),
         completed' = completed, job <= job', what <= job', job' \in Nat
  PROVE  /\ BoundInv'
         /\ \A c \in Child : \A j \in Job : j # what =>
              ((\E i \in 1..Len(child'[c].in) : child'[c].in[i] = j) =>
               (\E i \in 1..Len(child[c].in) : child[c].in[i] = j))
         /\ \A c \in Child : /\ child'[c].state = child[c].state
                             /\ child'[c].job = child[c].job
<1>1. pid \in Child /\ child[pid].in \in Seq(Job \cup {ExitCmd})
  BY NumberFacts DEF TypeOK, Process
<1>2. /\ child'[pid].in = Append(child[pid].in, what)
      /\ child'[pid].state = child[pid].state /\ child'[pid].job = child[pid].job
      /\ \A d \in Child : d # pid => child'[d] = child[d]
  BY SendFacts
<1>3. /\ Len(child'[pid].in) = Len(child[pid].in) + 1 /\ Len(child[pid].in) \in Nat
      /\ \A i \in 1..Len(child[pid].in) : child'[pid].in[i] = child[pid].in[i]
      /\ child'[pid].in[Len(child[pid].in) + 1] = what
  BY <1>1, <1>2
<1>4. ASSUME NEW i \in 1..Len(child'[pid].in)
      PROVE  i \in 1..Len(child[pid].in) \/ child'[pid].in[i] = what
  BY <1>3
<1>5. \A c \in Child : child[c].job \in Nat
  BY NumberFacts DEF TypeOK, Process
<1>6. \A c \in Child : \A i \in 1..Len(child[c].in) : child[c].in[i] \in Nat
  BY NumberFacts DEF TypeOK, Process
<1>7. \A j \in completed : j \in Nat
  BY NumberFacts DEF TypeOK
<1>8. BoundInv'
  <2>1. ASSUME NEW c \in Child, NEW i \in 1..Len(child'[c].in)
        PROVE  child'[c].in[i] <= job'
    <3>1. \A d \in Child : \A k \in 1..Len(child[d].in) : child[d].in[k] <= job'
      BY <1>6, NumberFacts DEF BoundInv
    <3>2. CASE c = pid
      BY <1>1, <1>3, <1>4, <2>1, <3>1, <3>2
    <3>3. CASE c # pid
      <4>1. child'[c] = child[c]
        BY <1>2, <3>3
      <4> QED
        BY <2>1, <3>1, <4>1
    <3> QED
      BY <3>2, <3>3
  <2>2. ASSUME NEW c \in Child, child'[c].state = "busy"
        PROVE  child'[c].job <= job'
    BY <1>2, <1>5, <2>2, NumberFacts DEF BoundInv
  <2>3. \A j \in completed' : j <= job'
    BY <1>7, NumberFacts DEF BoundInv
  <2> QED
    BY <2>1, <2>2, <2>3 DEF BoundInv
<1>9. ASSUME NEW c \in Child, NEW j \in Job, j # what,
             NEW i \in 1..Len(child'[c].in), child'[c].in[i] = j
      PROVE  \E k \in 1..Len(child[c].in) : child[c].in[k] = j
  <2>1. CASE c = pid
    BY <1>3, <1>4, <1>9, <2>1
  <2>2. CASE c # pid
    BY <1>2, <1>9, <2>2
  <2> QED
    BY <2>1, <2>2
<1> QED
  BY <1>2, <1>8, <1>9

\* The steps of the main loop that go on with the job.
LEMMA MainIsQuiet ==
  ASSUME TypeOK, ControlInv, BoundInv,
         \/ Spawn \/ SpawnFails \/ Stdout \/ Reap
         \/ ExitTimeout \/ Cancel \/ SigkillTimeout
  PROVE  Quiet
<1>1. CASE Spawn
  <2>1. /\ child'[pid'].in = <<>> /\ child'[pid'].job = job
        /\ \A c \in Child : c # pid' => /\ child'[c].state = child[c].state
                                        /\ child'[c].in = child[c].in
                                        /\ child'[c].job = child[c].job
    BY <1>1, SpawnFacts
  <2>2. /\ spawning /\ spawning' = FALSE
        /\ UNCHANGED <<job, connected, reported, overdue, error, completed, changing>>
    BY <1>1 DEF Spawn, backendVars
  <2>3. BoundInv'
    <3>1. \A c \in Child : \A i \in 1..Len(child'[c].in) : child'[c].in[i] <= job
      BY <2>1 DEF BoundInv
    <3>2. \A c \in Child : child'[c].state = "busy" => child'[c].job <= job
      BY <2>1, NumberFacts DEF BoundInv
    <3> QED
      BY <2>2, <3>1, <3>2 DEF BoundInv
  <2> QED
    BY <2>2, <2>3 DEF Quiet
<1>2. CASE SpawnFails
  <2>1. /\ UNCHANGED <<job, connected, reported, overdue, completed, changing, child>>
        /\ spawning' = FALSE /\ error' # "none"
    BY <1>2 DEF SpawnFails, Fail, processVars
  <2> QED
    BY <2>1, SameCommands DEF Quiet
<1>3. CASE Stdout
  <2>1. /\ pid \in Child /\ child[pid].out \in Seq({"error", "finished"})
        /\ child[pid].out # <<>>
    BY <1>3, NumberFacts DEF Stdout, Checking, TypeOK, Process
  <2>2. /\ Tail(child[pid].out) \in Seq({"error", "finished"})
        /\ Becomes(pid, [child[pid] EXCEPT !.out = Tail(child[pid].out)])
    BY <1>3, <2>1 DEF Stdout
  <2>3. \A c \in Child : /\ child'[c].state = child[c].state
                         /\ child'[c].in = child[c].in
                         /\ child'[c].job = child[c].job
    BY <2>1, <2>2, OutFacts
  <2>4. /\ UNCHANGED <<job, connected, reported, overdue, completed, spawning, changing>>
        /\ error # "none" => error' # "none"
    BY <1>3 DEF Stdout, spawnVars, SetError
  <2> QED
    BY <2>3, <2>4, SameCommands DEF Quiet
<1>4. CASE Reap
  <2>1. /\ pid \in Child /\ <<>> \in Seq({"error", "finished"})
        /\ Becomes(pid, [child[pid] EXCEPT !.out = <<>>])
    BY <1>4, NumberFacts DEF Reap, Checking
  <2>2. \A c \in Child : /\ child'[c].state = child[c].state
                         /\ child'[c].in = child[c].in
                         /\ child'[c].job = child[c].job
    BY <2>1, OutFacts
  <2>3. /\ UNCHANGED <<job, connected, reported, overdue, completed>>
        /\ spawning' = changing /\ changing' = FALSE
        /\ error # "none" => error' # "none"
    BY <1>4 DEF Reap, ExitCb, Fail, SetError
  <2> QED
    BY <2>2, <2>3, SameCommands DEF Quiet
<1>5. CASE ExitTimeout
  <2>1. UNCHANGED <<job, connected, reported, error, overdue, completed, spawning,
                    changing>>
    BY <1>5 DEF ExitTimeout, backendVars
  <2>2. CASE child' = child
    BY <2>1, <2>2, SameCommands DEF Quiet
  <2>3. CASE child' # child
    <3>1. pid # 0 /\ Send(ExitCmd)
      BY <1>5, <2>3 DEF ExitTimeout, CanSend
    <3>2. ExitCmd <= job' /\ job' \in Nat /\ job <= job'
      BY <2>1, NumberFacts DEF ExitCmd
    <3>3. /\ BoundInv'
          /\ \A c \in Child : \A j \in Job : j # ExitCmd =>
               ((\E i \in 1..Len(child'[c].in) : child'[c].in[i] = j) =>
                (\E i \in 1..Len(child[c].in) : child[c].in[i] = j))
          /\ \A c \in Child : /\ child'[c].state = child[c].state
                              /\ child'[c].job = child[c].job
      BY <2>1, <3>1, <3>2, SentCommand
    <3>4. connected => job \in Job /\ job # ExitCmd
      BY NumberFacts DEF ControlInv, ExitCmd
    <3>5. connected => \A c \in Child : HasJob(c)' => HasJob(c)
      BY <2>1, <3>3, <3>4 DEF HasJob
    <3> QED
      BY <2>1, <3>3, <3>5 DEF Quiet
  <2> QED
    BY <2>2, <2>3
<1>6. CASE Cancel
  <2>1. /\ UNCHANGED <<job, connected, reported, overdue, completed, spawning, changing>>
        /\ error # "none" => error' # "none"
    BY <1>6 DEF Cancel, SetError
  <2> QED
    BY <1>6, <2>1, CancelFacts, SameCommands DEF Quiet
<1>7. CASE SigkillTimeout
  <2>1. UNCHANGED <<job, connected, reported, error, overdue, completed, spawning,
                    changing>>
    BY <1>7 DEF SigkillTimeout, backendVars
  <2>2. CASE child' = child
    BY <2>1, <2>2, SameCommands DEF Quiet
  <2>3. CASE child' # child
    <3>1. pid \in Child /\ Die(pid, "sigkill")
      BY <1>7, <2>3, NumberFacts DEF SigkillTimeout, ControlInv
    <3>2. /\ child'[pid].state = "dead" /\ child'[pid].in = <<>>
          /\ \A d \in Child : d # pid => child'[d] = child[d]
      BY <3>1, DieFacts DEF Causes
    <3> QED
      BY <2>1, <3>1, <3>2, SameCommands DEF Quiet
  <2> QED
    BY <2>2, <2>3
<1> QED
  BY <1>1, <1>2, <1>3, <1>4, <1>5, <1>6, <1>7

\* A helper reads what was written to it, and carries out what it read.
LEMMA HelperIsQuiet ==
  ASSUME TypeOK, ControlInv, BoundInv, NEW c \in Child, HelperNext(c)
  PROVE  Quiet
<1>1. /\ \A d \in Child : d # c => child'[d] = child[d]
      /\ Says(c, "error") \/ Says(c, "finished") \/ Reads(c) \/ Dies(c)
  BY HelperFacts
<1>2. UNCHANGED <<job, connected, reported, error, overdue, spawning, changing>>
  BY DEF HelperNext, backendVars, spawnVars
<1>3. child[c].in \in Seq(Job \cup {ExitCmd})
  BY DEF TypeOK, Process
<1>4. CASE Says(c, "finished")
  <2>1. /\ completed' = completed \cup {child[c].job} /\ child[c].state = "busy"
        /\ child'[c].state = "idle" /\ child'[c].in = child[c].in
    BY <1>4 DEF Says
  <2>2. BoundInv' /\ \A d \in Child : HasJob(d)' => HasJob(d)
    BY <1>1, <1>2, <2>1 DEF BoundInv, HasJob
  <2>3. connected /\ job \in completed' => job \in completed \/ HasJob(c)
    BY <2>1 DEF HasJob
  <2> QED
    BY <1>2, <2>1, <2>2, <2>3 DEF Quiet
<1>5. CASE Says(c, "error") \/ Dies(c)
  <2>1. /\ completed' = completed
        /\ child'[c].state = "busy" =>
             child[c].state = "busy" /\ child'[c].job = child[c].job
        /\ child'[c].in \in {child[c].in, <<>>}
    BY <1>5 DEF Says, Dies
  <2>2. BoundInv' /\ \A d \in Child : HasJob(d)' => HasJob(d)
    BY <1>1, <1>2, <2>1, SameCommands
  <2> QED
    BY <1>2, <2>1, <2>2 DEF Quiet
<1>6. CASE Reads(c)
  <2>1. /\ completed' = completed /\ child[c].in # <<>>
        /\ child'[c].in = Tail(child[c].in)
        /\ child'[c].state = "busy" => child'[c].job = Head(child[c].in)
    BY <1>6 DEF Reads
  <2>2. /\ Head(child[c].in) = child[c].in[1] /\ 1 \in 1..Len(child[c].in)
        /\ \A i \in 1..Len(Tail(child[c].in)) :
             /\ i + 1 \in 1..Len(child[c].in)
             /\ Tail(child[c].in)[i] = child[c].in[i + 1]
    BY <1>3, <2>1
  <2>3. BoundInv'
    <3>1. \A i \in 1..Len(child'[c].in) : child'[c].in[i] <= job
      BY <2>1, <2>2 DEF BoundInv
    <3>2. child'[c].state = "busy" => child'[c].job <= job
      BY <2>1, <2>2 DEF BoundInv
    <3> QED
      BY <1>1, <1>2, <2>1, <3>1, <3>2 DEF BoundInv
  <2>4. HasJob(c)' => HasJob(c)
    BY <1>2, <2>1, <2>2 DEF HasJob
  <2>5. \A d \in Child : HasJob(d)' => HasJob(d)
    BY <1>1, <1>2, <2>4 DEF HasJob
  <2> QED
    BY <1>2, <2>1, <2>3, <2>5 DEF Quiet
<1> QED
  BY <1>1, <1>4, <1>5, <1>6

\* Every step starts a job, reports one, finds a helper late, or goes on.
LEMMA StepKinds ==
  ASSUME TypeOK, ControlInv, BoundInv, [Next]_vars
  PROVE  Request \/ FinishedDelay \/ Late \/ Quiet
<1>1. CASE ErrorTimeout
  <2>1. overdue' \in {overdue, TRUE}
    BY <1>1 DEF ErrorTimeout, TypeOK
  <2> QED
    BY <1>1, <2>1 DEF ErrorTimeout, Late, spawnVars, processVars
<1>2. CASE GiveUp
  BY <1>2 DEF GiveUp, Late, backendVars, processVars, ControlInv
<1>3. CASE UNCHANGED vars
  BY <1>3 DEF vars, Late, backendVars, spawnVars, processVars
<1> QED
  BY <1>1, <1>2, <1>3, MainIsQuiet, HelperIsQuiet DEF Next, MainNext

\* The commands of a job that starts are its own.
LEMMA StartBound ==
  ASSUME TypeOK, ControlInv, BoundInv, Request
  PROVE  BoundInv'
<1>1. PICK h \in Helpers : Reuse(h) \/ Change(h) \/ NoHelper(h) \/ Broken(h)
  BY DEF Request
<1>2. job' = job + 1 /\ job < MaxJob /\ completed' = completed
  BY <1>1, StartFacts
<1>3. /\ job' \in Job /\ job <= job' /\ job' <= job' /\ job' \in Nat /\ ExitCmd <= job'
  BY <1>2, NumberFacts DEF ExitCmd
<1>4. CASE child' = child
  <2>1. \A c \in Child : /\ child[c].job \in Nat
                         /\ \A i \in 1..Len(child[c].in) : child[c].in[i] \in Nat
    BY NumberFacts DEF TypeOK, Process
  <2>2. \A j \in completed : j \in Nat
    BY NumberFacts DEF TypeOK
  <2> QED
    BY <1>2, <1>4, <2>1, <2>2, NumberFacts DEF BoundInv
<1>5. ASSUME NEW what \in {job', ExitCmd}, pid # 0, Send(what)
      PROVE  BoundInv'
  BY <1>2, <1>3, <1>5, SentCommand
<1> QED
  BY <1>1, <1>4, <1>5 DEF Reuse, Change, NoHelper, Broken, CanSend, processVars

\* Every step keeps BoundInv and ToldInv.
LEMMA BoundToldNext ==
  ASSUME TypeOK, ControlInv, BoundInv, ToldInv, [Next]_vars
  PROVE  BoundInv' /\ ToldInv'
<1>1. CASE Request
  <2>1. PICK h \in Helpers : Reuse(h) \/ Change(h) \/ NoHelper(h) \/ Broken(h)
    BY <1>1 DEF Request
  <2>2. job' = job + 1 /\ job < MaxJob /\ reported' = reported
    BY <2>1, StartFacts
  <2>3. ToldInv'
    BY <2>2, NumberFacts DEF ToldInv
  <2> QED
    BY <1>1, <2>3, StartBound
<1>2. CASE FinishedDelay
  <2>1. /\ connected' = FALSE /\ UNCHANGED <<job, child, completed>>
        /\ \A j \in Job : j > job => reported'[j] = reported[j]
    BY <1>2, NumberFacts DEF FinishedDelay, processVars, TypeOK
  <2> QED
    BY <2>1 DEF BoundInv, ToldInv
<1>3. CASE Late
  BY <1>3 DEF Late, BoundInv, ToldInv
<1>4. CASE Quiet
  BY <1>4 DEF Quiet, ToldInv
<1> QED
  BY <1>1, <1>2, <1>3, <1>4, StepKinds

\* A job starts with a helper that has the command, or that is to be started.
LEMMA RefineStart ==
  ASSUME JobsInv, Request
  PROVE  Jobs!Start
<1>1. PICK h \in Helpers : Reuse(h) \/ Change(h) \/ NoHelper(h) \/ Broken(h)
  BY DEF Request
<1>2. /\ ~connected /\ job' = job + 1 /\ job < MaxJob /\ connected' = TRUE
      /\ error' = "none" /\ UNCHANGED <<reported, completed, overdue>>
  BY <1>1, StartFacts DEF JobsInv
<1>3. job' \in Job /\ job' \notin completed'
  BY <1>2, NumberFacts DEF JobsInv, BoundInv
<1>4. spawning' \/ changing' \/ \E c \in Child : HasJob(c)'
  <2>1. CASE Reuse(h)
    <3>1. /\ pid # 0 /\ pid \in Child /\ Send(job')
          /\ child[pid].in \in Seq(Job \cup {ExitCmd})
      BY <2>1, NumberFacts DEF Reuse, CanSend, JobsInv, TypeOK, Process
    <3>2. child'[pid].in = Append(child[pid].in, job')
      BY <1>3, <3>1, SendFacts DEF JobsInv
    <3>3. /\ Len(child'[pid].in) \in 1..Len(child'[pid].in)
          /\ child'[pid].in[Len(child'[pid].in)] = job'
      BY <1>3, <3>1, <3>2
    <3> QED
      BY <3>1, <3>3 DEF HasJob
  <2> QED
    BY <1>1, <2>1 DEF Change, NoHelper, Broken
<1>5. WorkDone' = "going"
  BY <1>2, <1>3, <1>4 DEF WorkDone
<1>6. toldBar' = toldBar
  BY <1>2 DEF toldBar, Told
<1> QED
  BY <1>2, <1>5, <1>6 DEF Jobs!Start, toldBar

\* What the transaction hears in the end is what became of its job, as long as
\* helpers keep to the time-outs.
LEMMA RefineReport ==
  ASSUME JobsInv, FinishedDelay
  PROVE  \E outcome \in {"success", "failure"} : Jobs!Report(outcome)
<1> DEFINE code == IF error = "none" THEN "success" ELSE error
           outcome == IF error = "none" THEN "success" ELSE "failure"
<1>1. /\ MainLoop /\ connected /\ done /\ connected' = FALSE
      /\ reported' = [reported EXCEPT ![job] = code]
      /\ UNCHANGED <<job, overdue>>
  BY DEF FinishedDelay
<1>2. job \in Job /\ toldBar[job] = "none"
  BY <1>1, NumberFacts DEF JobsInv, ControlInv, ToldInv, toldBar, Told
<1>3. Told(job)' = outcome
  BY <1>1, <1>2 DEF Told, JobsInv, TypeOK, Errors
<1>4. toldBar' = [toldBar EXCEPT ![job] = outcome]
  BY <1>1, <1>2, <1>3 DEF toldBar, Told, JobsInv, TypeOK
<1>5. WorkDone' = "none"
  BY <1>1 DEF WorkDone
<1>6. ASSUME ~overdue
      PROVE  WorkDone # "going" /\ (outcome = "success" => WorkDone = "complete")
  <2>1. ~spawning /\ ~changing /\ ~sending
    BY <1>1 DEF MainLoop, JobsInv, ControlInv
  <2>2. pid # 0 => child[pid].state # "busy" /\ child[pid].in = <<>>
    BY <1>1, <1>6, <2>1
       DEF JobsInv, HelperInv, Shape, Working, Resting, Going, Forgotten
  <2>3. ASSUME NEW c \in Child
        PROVE  child[c].state # "busy" /\ child[c].in = <<>>
    BY <1>6, <2>2, NumberFacts DEF JobsInv, HelperInv, Alone, Alive
  <2>4. \A c \in Child : ~HasJob(c)
    BY <2>3 DEF HasJob
  <2>5. error = "none" => job \in completed
    BY <1>1, <1>6 DEF JobsInv, HelperInv, Earned
  <2> QED
    BY <1>1, <2>1, <2>4, <2>5 DEF WorkDone
<1>7. Jobs!Report(outcome)
  BY <1>1, <1>2, <1>4, <1>5, <1>6 DEF Jobs!Report, toldBar
<1> QED
  BY <1>7

\* What goes on is work on the job, or is not seen.
LEMMA RefineQuiet ==
  ASSUME JobsInv, Quiet
  PROVE  [Jobs!Next]_(Jobs!vars)
<1>1. toldBar' = toldBar
  BY DEF Quiet, toldBar, Told
<1>2. CASE connected
  <2>1. WorkDone' = WorkDone \/ (WorkDone = "going" /\ WorkDone' \in {"complete", "broken"})
    <3>1. CASE job \in completed
      BY <1>2, <3>1 DEF Quiet, WorkDone
    <3>2. CASE job \notin completed /\ (spawning \/ changing \/ \E c \in Child : HasJob(c))
      <4>1. WorkDone = "going"
        BY <1>2, <3>2 DEF WorkDone
      <4>2. WorkDone' \in {"going", "complete", "broken"}
        BY <1>2 DEF Quiet, WorkDone
      <4> QED
        BY <4>1, <4>2
    <3>3. CASE job \notin completed /\ ~(spawning \/ changing \/ \E c \in Child : HasJob(c))
      <4>1. WorkDone = "broken"
        BY <1>2, <3>3 DEF WorkDone
      <4>2. job' \notin completed' /\ ~(spawning' \/ changing') /\ connected'
        BY <1>2, <3>3 DEF Quiet
      <4>3. ~\E c \in Child : HasJob(c)'
        BY <1>2, <3>3 DEF Quiet
      <4>4. WorkDone' = "broken"
        BY <4>2, <4>3 DEF WorkDone
      <4> QED
        BY <4>1, <4>4
    <3> QED
      BY <3>1, <3>2, <3>3
  <2>2. (connected /\ error # "none")' \in {connected /\ error # "none", TRUE}
    BY <1>2 DEF Quiet
  <2> QED
    BY <1>1, <1>2, <2>1, <2>2 DEF Quiet, Jobs!Next, Jobs!Work, toldBar
<1>3. CASE ~connected
  BY <1>1, <1>3 DEF Quiet, WorkDone, Jobs!vars, toldBar
<1> QED
  BY <1>2, <1>3 DEF JobsInv, TypeOK

\* A late helper is a backend that lapses.
LEMMA RefineLate ==
  ASSUME JobsInv, Late
  PROVE  [Jobs!Next]_(Jobs!vars)
<1>1. toldBar' = toldBar
  BY DEF Late, toldBar, Told
<1>2. WorkDone' = WorkDone
  <2>1. \A c \in Child : HasJob(c)' <=> HasJob(c)
    BY DEF Late, HasJob
  <2> QED
    BY <2>1 DEF Late, WorkDone
<1>3. CASE overdue' = overdue
  BY <1>1, <1>2, <1>3 DEF Late, Jobs!vars, toldBar
<1>4. CASE overdue' # overdue
  <2>1. overdue' = TRUE
    BY <1>4 DEF Late
  <2> QED
    BY <1>1, <1>2, <2>1 DEF Late, Jobs!Next, Jobs!Lapse, toldBar
<1> QED
  BY <1>3, <1>4

\* Every step of the spawner is a step of PkJobs, or one it does not see.
LEMMA RefineNext == JobsInv /\ [Next]_vars => [Jobs!Next]_(Jobs!vars)
<1> SUFFICES ASSUME JobsInv, [Next]_vars
             PROVE  [Jobs!Next]_(Jobs!vars)
  OBVIOUS
<1>1. CASE Request
  BY <1>1, RefineStart DEF Jobs!Next
<1>2. CASE FinishedDelay
  BY <1>2, RefineReport DEF Jobs!Next
<1> QED
  BY <1>1, <1>2, RefineQuiet, RefineLate, StepKinds DEF JobsInv

\* No job was started, and none told.
LEMMA RefineInit == Init => Jobs!Init
BY DEF Init, Jobs!Init, Jobs!Job, Job, WorkDone, Told

\* A spawned backend keeps the promises of PkJobs to the transactions that it
\* runs, with helpers that are kept, changed, signalled and lost; where "lapsed"
\* stands for a helper that outlived a time-out of the daemon.
THEOREM JobsRefinement == Spec => ImplementsJobs
<1>1. Init => JobsInv
  <2>1. Init => BoundInv /\ ToldInv
    BY NoProcessFacts DEF Init, BoundInv, ToldInv
  <2> QED
    BY <2>1, ControlInit, HelperStart DEF JobsInv
<1>2. JobsInv /\ [Next]_vars => JobsInv'
  BY ControlNext, HelperStep, BoundToldNext DEF JobsInv
<1> QED
  BY <1>1, <1>2, RefineInit, RefineNext, PTL DEF Spec, ImplementsJobs, Jobs!Spec
=============================================================================
