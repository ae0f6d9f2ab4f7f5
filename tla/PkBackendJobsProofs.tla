------------------------- MODULE PkBackendJobsProofs -------------------------
(***************************************************************************)
(* More proofs about PkBackend, for any number of jobs: that something is  *)
(* always under way that will report the job that a transaction waits for, *)
(* however late its worker is; and that the object keeps the promises of   *)
(* PkJobs.                                                                 *)
(***************************************************************************)
EXTENDS PkBackendProofs

-----------------------------------------------------------------------------
(* JobHasCompletion.                                                       *)

\* Somebody is on the way to the test that finishes the job.
Stopping == \E p \in Proc : pc[p] \in {"finish-stop", "finish-mark"}
Armed(kinds) == \E s \in sources : s.kind \in kinds

\* A worker that leaves its role after an error counts on the error timer.
CompletionInv ==
  /\ JobHasCompletion
  /\ connected => job # 0
  /\ connected /\ setError /\ ~finished => Stopping \/ Armed({"error"})

\* The finish that a thread or source calls for is not lost, whoever comes first.
LEMMA FinishedCallCompletes ==
  ASSUME TypeInv, CompletionInv, NEW p \in Proc, FinishedCall(p),
         pc[p] \notin {"finish-stop", "finish-mark"},
         p = 0 => pc[0] = "idle",
         \A s \in sources : s.kind = "finish" => s \in sources',
         UNCHANGED <<job, connected, setError, finished>>
  PROVE  CompletionInv'
<1> USE ProcFacts DEF TypeInv, TypeOK, FinishedCall, Back, Goto
<1>1. CASE finished
  BY <1>1 DEF CompletionInv, JobHasCompletion
<1>2. CASE ~finished
  <2>1. pc'[p] = "finish-stop"
    BY <1>2
  <2> QED
    BY <1>2, <2>1 DEF CompletionInv, JobHasCompletion, Stopping
<1> QED
  BY <1>1, <1>2

\* Every step keeps it, with workers in time or late ones.
LEMMA CompletionNext ==
  ASSUME TypeInv, CompletionInv, [Next]_vars
  PROVE  CompletionInv'
<1> USE ProcFacts DEF TypeInv, TypeOK, privVars, Goto
<1>1. CASE ThreadCreate
  <2>1. /\ job' \in Job /\ job' # 0 /\ connected' /\ ~finished' /\ ~setError'
        /\ pc'[job'] = "run"
    BY <1>1 DEF ThreadCreate, MayStart, Reset
  <2> QED
    BY <2>1 DEF CompletionInv, JobHasCompletion, InRole
<1>2. CASE PluginError \/ DelayEmit
  BY <1>2 DEF PluginError, MayStart, DelayEmit, CompletionInv, JobHasCompletion
<1>3. CASE StoreThread \/ Cancel \/ CancelSet \/ DelayExit
  BY <1>3 DEF StoreThread, Cancel, CancelSet, DelayExit, CompletionInv,
              JobHasCompletion, Stopping, Armed, InRole
<1>4. ASSUME NEW s \in sources, ThreadFinishedCb(s) \/ ErrorTimeout(s)
      PROVE  CompletionInv'
  BY <1>4, FinishedCallCompletes DEF ThreadFinishedCb, ErrorTimeout, Dispatch
<1>5. ASSUME NEW s \in sources, FinishedDelay(s)
      PROVE  CompletionInv'
  BY <1>5 DEF FinishedDelay, Dispatch, CompletionInv, JobHasCompletion,
              Stopping, Armed, InRole
<1>6. ASSUME NEW w \in Job, ErrorCode(w)
      PROVE  CompletionInv'
  <2>1. /\ SourceOf("error", w) \in sources' /\ sources \subseteq sources'
        /\ SourceOf("error", w).kind = "error"
        /\ pc' = [pc EXCEPT ![w] = "error-store"] /\ pc[w] = "run"
        /\ UNCHANGED <<job, connected, finished>>
    BY <1>6 DEF ErrorCode, SourceOf
  <2> QED
    BY <2>1 DEF CompletionInv, JobHasCompletion, Stopping, Armed, InRole
<1>7. ASSUME NEW w \in Job, ErrorStore(w) \/ ErrorExit(w) \/ ErrorSet(w)
      PROVE  CompletionInv'
  BY <1>7 DEF ErrorStore, ErrorExit, ErrorSet, CompletionInv, JobHasCompletion,
              Stopping, Armed, InRole
<1>8. ASSUME NEW w \in Job, CallFinished(w)
      PROVE  CompletionInv'
  BY <1>8, FinishedCallCompletes DEF CallFinished
<1>9. ASSUME NEW w \in Job, ThreadFinished(w)
      PROVE  CompletionInv'
  <2>1. /\ SourceOf("thread", w) \in sources' /\ sources \subseteq sources'
        /\ SourceOf("thread", w).kind = "thread"
        /\ pc' = [pc EXCEPT ![w] = "return"] /\ pc[w] = "run"
        /\ UNCHANGED <<job, connected, finished, setError>>
    BY <1>9 DEF ThreadFinished, SourceOf
  <2> QED
    BY <2>1 DEF CompletionInv, JobHasCompletion, Stopping, Armed, InRole
<1>10. ASSUME NEW w \in Job, Leave(w)
       PROVE  CompletionInv'
  BY <1>10 DEF Leave, CompletionInv, JobHasCompletion, Stopping, Armed, InRole
<1>11. ASSUME NEW w \in Job, \E ret \in BOOLEAN : ThreadReturn(w, ret)
       PROVE  CompletionInv'
  BY <1>11 DEF ThreadReturn, CompletionInv, JobHasCompletion, Stopping, Armed,
               InRole
<1>12. ASSUME NEW p \in Proc, FinishStop(p)
       PROVE  CompletionInv'
  BY <1>12 DEF FinishStop, CompletionInv, JobHasCompletion, Stopping, Armed, InRole
<1>13. ASSUME NEW p \in Proc, FinishMark(p)
       PROVE  CompletionInv'
  <2>1. /\ finished' /\ SourceOf("finish", p) \in sources'
        /\ SourceOf("finish", p).kind = "finish"
        /\ UNCHANGED <<job, connected>>
    BY <1>13 DEF FinishMark, SourceOf
  <2> QED
    BY <2>1 DEF CompletionInv, JobHasCompletion
<1>14. ASSUME NEW p \in Proc, FinishStore(p)
       PROVE  CompletionInv'
  BY <1>14 DEF FinishStore, Back, CompletionInv, JobHasCompletion, Stopping,
               Armed, InRole
<1>15. CASE UNCHANGED vars
  BY <1>15 DEF vars, CompletionInv, JobHasCompletion, Stopping, Armed
<1>16. CASE MainNext
  BY <1>2, <1>3, <1>4, <1>5, <1>12, <1>13, <1>14, <1>16 DEF MainNext, Finish
<1>17. ASSUME NEW w \in Job, WorkerNext(w)
       PROVE  CompletionInv'
  BY <1>6, <1>7, <1>8, <1>9, <1>10, <1>11, <1>12, <1>13, <1>14, <1>17
     DEF WorkerNext, Finish
<1> QED
  BY <1>1, <1>2, <1>3, <1>15, <1>16, <1>17 DEF Next

\* However late workers are, the job that a transaction waits for has something
\* under way that will report it: what JobEnds needs besides fairness.
THEOREM CompletionIsComing == Spec => []JobHasCompletion
<1>1. Init => CompletionInv
  BY DEF Init, CompletionInv, JobHasCompletion
<1>2. CompletionInv => JobHasCompletion
  BY DEF CompletionInv
<1>3. TypeInv /\ CompletionInv /\ [Next]_vars => TypeInv' /\ CompletionInv'
  BY TypeNext, CompletionNext
<1> QED
  BY <1>1, <1>2, <1>3, TypeInit, PTL DEF Spec

-----------------------------------------------------------------------------
(* The refinement of PkJobs.                                               *)

\* A transaction is told once, and not before its job was started.
ToldInv ==
  /\ connected => job # 0 /\ reported[job] = "none"
  /\ \A j \in Job : j > job => reported[j] = "none"

\* With workers in time, or late ones.
JobsInv == TypeInv /\ ToldInv /\ (~late => BInv)

\* What is told, in the words of PkJobs.
toldBar == [j \in Job |-> Told(j)]

\* The steps of threads and timers that report nothing.
Quiet ==
  /\ UNCHANGED <<job, connected, reported, late>>
  /\ setError => setError'
  /\ pc'[job] \in InRole => pc[job] \in InRole

\* The timers that may find their worker late.
Late ==
  /\ UNCHANGED <<job, connected, reported, setError>>
  /\ pc'[job] \in InRole <=> pc[job] \in InRole
  /\ late' \in {late, TRUE}

\* Every step starts a job, reports one, may find a worker late, or does none.
LEMMA StepKinds ==
  ASSUME TypeInv, [Next]_vars
  PROVE  ThreadCreate \/ PluginError \/ DelayEmit \/ Late \/ Quiet
<1> USE ProcFacts DEF TypeInv, TypeOK, privVars, Goto, InRole, Quiet
<1>1. CASE StoreThread \/ Cancel \/ CancelSet \/ DelayExit
  BY <1>1 DEF StoreThread, Cancel, CancelSet, DelayExit
<1>2. ASSUME NEW s \in sources,
             ThreadFinishedCb(s) \/ ErrorTimeout(s) \/ FinishedDelay(s)
      PROVE  Late \/ Quiet
  <2>1. CASE ThreadFinishedCb(s)
    BY <2>1 DEF ThreadFinishedCb, Dispatch, FinishedCall, Back
  <2>2. CASE ErrorTimeout(s) \/ FinishedDelay(s)
    <3>1. late' \in {late, TRUE}
      BY <2>2 DEF ErrorTimeout, FinishedDelay
    <3>2. /\ UNCHANGED <<job, connected, reported, setError>> /\ pc[0] = "idle"
          /\ pc'[0] \in {"idle", "finish-stop", "delay-exit", "delay-emit"}
          /\ \A w \in Job : pc'[w] = pc[w]
      BY <2>2 DEF ErrorTimeout, FinishedDelay, Dispatch, FinishedCall, Back
    <3> QED
      BY <3>1, <3>2 DEF Late
  <2> QED
    BY <1>2, <2>1, <2>2
<1>3. ASSUME NEW w \in Job,
             ErrorCode(w) \/ ErrorStore(w) \/ ErrorExit(w) \/ ErrorSet(w)
      PROVE  Quiet
  BY <1>3 DEF ErrorCode, ErrorStore, ErrorExit, ErrorSet
<1>4. ASSUME NEW w \in Job,
             \/ CallFinished(w) \/ ThreadFinished(w) \/ Leave(w)
             \/ \E ret \in BOOLEAN : ThreadReturn(w, ret)
      PROVE  Quiet
  BY <1>4 DEF CallFinished, FinishedCall, Back, ThreadFinished, Leave, ThreadReturn
<1>5. ASSUME NEW p \in Proc, Finish(p)
      PROVE  Quiet
  BY <1>5 DEF Finish, FinishStop, FinishMark, FinishStore, Back
<1>6. CASE UNCHANGED vars
  BY <1>6 DEF vars
<1>7. CASE MainNext
  BY <1>1, <1>2, <1>5, <1>7 DEF MainNext
<1>8. ASSUME NEW w \in Job, WorkerNext(w)
      PROVE  Quiet
  BY <1>3, <1>4, <1>5, <1>8 DEF WorkerNext
<1> QED
  BY <1>1, <1>6, <1>7, <1>8 DEF Next

\* Every step keeps ToldInv.
LEMMA ToldNext ==
  ASSUME TypeInv, ToldInv, [Next]_vars
  PROVE  ToldInv'
<1> USE ProcFacts DEF TypeInv, TypeOK, ToldInv, Job
<1>1. CASE ThreadCreate
  BY <1>1 DEF ThreadCreate, MayStart
<1>2. CASE PluginError
  BY <1>2 DEF PluginError, MayStart
<1>3. CASE DelayEmit
  BY <1>3 DEF DelayEmit
<1>4. CASE Late \/ Quiet
  <2>1. UNCHANGED <<job, connected, reported>>
    BY <1>4 DEF Late, Quiet
  <2> QED
    BY <2>1
<1> QED
  BY <1>1, <1>2, <1>3, <1>4, StepKinds

\* A job that gets its worker is started; the one before was told.
LEMMA RefineStart ==
  ASSUME JobsInv, ThreadCreate
  PROVE  Jobs!Start
<1> USE ProcFacts DEF JobsInv, TypeInv, TypeOK
<1>1. /\ ~connected /\ job < MaxJob /\ job' = job + 1 /\ job' \in Job /\ job' # 0
      /\ connected' = TRUE /\ setError' = FALSE /\ reported' = reported
      /\ pc'[job'] = "run" /\ late' = late
  BY DEF ThreadCreate, MayStart
<1>2. WorkDone' = "going"
  BY <1>1 DEF WorkDone, InRole
<1>3. toldBar' = toldBar
  BY <1>1 DEF toldBar, Told
<1> QED
  BY <1>1, <1>2, <1>3 DEF Jobs!Start, toldBar

\* One that a plugin refuses is told so at once.
LEMMA RefineRefuse ==
  ASSUME JobsInv, PluginError
  PROVE  Jobs!Refuse
<1> USE ProcFacts DEF JobsInv, TypeInv, TypeOK
<1>1. /\ ~connected /\ job < MaxJob /\ job' = job + 1 /\ job' \in Job
      /\ connected' = connected /\ late' = late
      /\ reported' = [reported EXCEPT ![job'] = "failed"]
  BY DEF PluginError, MayStart
<1>2. WorkDone' = WorkDone
  BY <1>1 DEF WorkDone
<1>3. toldBar' = [toldBar EXCEPT ![job'] = "failure"]
  BY <1>1 DEF toldBar, Told
<1> QED
  BY <1>1, <1>2, <1>3 DEF Jobs!Refuse, toldBar

\* The emission is the report, if a transaction waits for it.
LEMMA RefineReport ==
  ASSUME JobsInv, DelayEmit, connected
  PROVE  \E outcome \in {"success", "failure"} : Jobs!Report(outcome)
<1> USE ProcFacts DEF JobsInv, TypeInv, TypeOK
<1> DEFINE outcome == IF exit = "success" THEN "success" ELSE "failure"
<1>1. /\ connected' = FALSE /\ job' = job /\ job \in Job /\ late' = late
      /\ exit \in ExitCodes \ {"unknown"}
      /\ reported' = [reported EXCEPT ![job] = exit]
      /\ toldBar[job] = "none"
  BY DEF DelayEmit, ToldInv, toldBar, Told
<1>2. WorkDone' = "none"
  BY <1>1 DEF WorkDone
<1>3. toldBar' = [toldBar EXCEPT ![job] = outcome]
  BY <1>1 DEF toldBar, Told, ExitCodes
<1>4. ASSUME ~late
      PROVE  WorkDone = "complete" /\ (exit = "success" => ~setError)
  BY <1>1, <1>4 DEF DelayEmit, BInv, MainInv, ExitInv, WorkDone, Calling
<1>5. Jobs!Report(outcome)
  BY <1>1, <1>2, <1>3, <1>4 DEF Jobs!Report, toldBar
<1> QED
  BY <1>5

\* What else happens is work on the job, or is not seen.
LEMMA RefineQuiet ==
  ASSUME JobsInv, Quiet
  PROVE  [Jobs!Next]_(Jobs!vars)
<1> USE ProcFacts DEF JobsInv, TypeInv, TypeOK
<1>1. toldBar' = toldBar
  BY DEF Quiet, toldBar, Told
<1>2. CASE connected
  <2>1. WorkDone' = WorkDone \/ (WorkDone = "going" /\ WorkDone' = "complete")
    BY <1>2 DEF Quiet, WorkDone
  <2>2. (connected /\ setError)' \in {connected /\ setError, TRUE}
    BY <1>2 DEF Quiet
  <2> QED
    BY <1>1, <1>2, <2>1, <2>2 DEF Quiet, Jobs!Next, Jobs!Work, toldBar
<1>3. CASE ~connected
  BY <1>1, <1>3 DEF Quiet, WorkDone, Jobs!vars, toldBar
<1> QED
  BY <1>2, <1>3

\* A worker that is found late is a backend that lapses.
LEMMA RefineLate ==
  ASSUME JobsInv, Late
  PROVE  [Jobs!Next]_(Jobs!vars)
<1>1. toldBar' = toldBar
  BY DEF Late, toldBar, Told
<1>2. WorkDone' = WorkDone
  BY DEF Late, WorkDone
<1>3. CASE late' = late
  BY <1>1, <1>2, <1>3 DEF Late, Jobs!vars, toldBar
<1>4. CASE late' = TRUE
  BY <1>1, <1>2, <1>4 DEF Late, Jobs!Next, Jobs!Lapse, toldBar
<1> QED
  BY <1>3, <1>4 DEF Late

\* Every step of the object is a step of PkJobs, or one it does not see.
LEMMA RefineNext == JobsInv /\ [Next]_vars => [Jobs!Next]_(Jobs!vars)
<1> SUFFICES ASSUME JobsInv, [Next]_vars
             PROVE  [Jobs!Next]_(Jobs!vars)
  OBVIOUS
<1>1. CASE ThreadCreate
  BY <1>1, RefineStart DEF Jobs!Next
<1>2. CASE PluginError
  BY <1>2, RefineRefuse DEF Jobs!Next
<1>3. CASE DelayEmit /\ connected
  BY <1>3, RefineReport DEF Jobs!Next
<1>4. CASE DelayEmit /\ ~connected
  <2>1. Quiet
    BY <1>4, ProcFacts DEF DelayEmit, Quiet, Goto, InRole, JobsInv, TypeInv, TypeOK
  <2> QED
    BY <2>1, RefineQuiet
<1>5. CASE Late \/ Quiet
  BY <1>5, RefineLate, RefineQuiet
<1> QED
  BY <1>1, <1>2, <1>3, <1>4, <1>5, StepKinds DEF JobsInv

\* No job was started, and none told.
LEMMA RefineInit == Init => Jobs!Init
BY DEF Init, Jobs!Init, Jobs!Job, Job, WorkDone, Told

\* The backend object keeps the promises of PkJobs to the transactions that it
\* runs; "lapsed" stands for a worker that outlived a time-out.
THEOREM JobsRefinement == Spec => ImplementsJobs
<1>1. Init => JobsInv
  <2>1. Init => ToldInv
    BY DEF Init, ToldInv
  <2> QED
    BY <2>1, TypeInit, BInit DEF JobsInv
<1>2. JobsInv /\ [Next]_vars => JobsInv'
  BY TypeNext, ToldNext, BNext, LateStays DEF JobsInv
<1> QED
  BY <1>1, <1>2, RefineInit, RefineNext, PTL DEF Spec, ImplementsJobs, Jobs!Spec
=============================================================================
