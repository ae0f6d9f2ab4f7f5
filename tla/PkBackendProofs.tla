--------------------------- MODULE PkBackendProofs ---------------------------
(***************************************************************************)
(* Proofs about the backend object with worker threads (PkBackend), for    *)
(* any number of jobs.                                                     *)
(***************************************************************************)
EXTENDS PkBackend, TLAPS

-----------------------------------------------------------------------------
(* Types.                                                                  *)

\* What is emitted is an exit code, and there are no threads and no sources
\* before the first job.
TypeInv ==
  /\ TypeOK
  /\ pc[0] = "delay-emit" => exit # "unknown"
  /\ job = 0 => /\ sources = {} /\ ~connected
                /\ \A p \in Proc : pc[p] \in {"idle", "none"}

\* The main loop is not one of the workers, and jobs are numbered in order.
LEMMA ProcFacts ==
  /\ 0 \in Proc /\ 0 \notin Job /\ Job \subseteq Proc /\ MaxJob \in Nat
  /\ (job \in 0..MaxJob /\ job < MaxJob) =>
        job + 1 \in Job /\ job + 1 \in 0..MaxJob /\ job + 1 # job
  /\ (job \in 0..MaxJob /\ job # 0) => job \in Job
BY BackendAssumption DEF Proc, Job

\* Every step keeps the types.
LEMMA TypeNext == TypeInv /\ [Next]_vars => TypeInv'
<1> SUFFICES ASSUME TypeInv, [Next]_vars PROVE TypeInv'
  OBVIOUS
<1> USE ProcFacts DEF TypeInv, TypeOK, privVars, Goto, MainLabels, WorkerLabels,
                      Finishing, InRole, ExitCodes
<1>1. CASE ThreadCreate
  <2>1. /\ job + 1 \in Job /\ job' = job + 1 /\ job + 1 \in 0..MaxJob
        /\ job + 1 \in Proc /\ job + 1 # 0
    BY <1>1 DEF ThreadCreate, MayStart
  <2>2. sources' \subseteq Source
    BY <1>1 DEF ThreadCreate, Reset
  <2>3. /\ pc' \in [Proc -> MainLabels \cup WorkerLabels]
        /\ pc'[0] = "store-thread"
        /\ \A w \in Job : pc'[w] \in WorkerLabels
    <3>1. pc' = [pc EXCEPT ![0] = "store-thread", ![job + 1] = "run"]
      BY <1>1, <2>1 DEF ThreadCreate
    <3> HIDE DEF MainLabels, WorkerLabels
    <3>2. "store-thread" \in MainLabels /\ "run" \in WorkerLabels
      BY DEF MainLabels, WorkerLabels
    <3> QED
      BY <2>1, <3>1, <3>2
  <2>4. thread' \in 0..MaxJob /\ job' \in 0..MaxJob
    BY <1>1, <2>1 DEF ThreadCreate, Reset
  <2> QED
    BY <1>1, <2>1, <2>2, <2>3, <2>4 DEF ThreadCreate, Reset
<1>2. CASE PluginError
  <2> DEFINE s == [kind |-> "error", by |-> 0, job |-> job']
  <2>1. /\ job + 1 \in Job /\ job' = job + 1 /\ job + 1 \in 0..MaxJob
        /\ job + 1 # 0 /\ pc[0] = "idle"
    BY <1>2 DEF PluginError, MayStart
  <2>2. s \in Source
    BY <2>1 DEF Source
  <2>3. sources' \subseteq Source /\ errorTimer' = s
    BY <1>2, <2>2 DEF PluginError
  <2>4. reported' \in [Job -> {"none"} \cup (ExitCodes \ {"unknown"})]
    BY <1>2, <2>1 DEF PluginError
  <2>5. thread' \in 0..MaxJob /\ job' \in 0..MaxJob
    BY <1>2, <2>1 DEF PluginError
  <2> QED
    BY <1>2, <2>1, <2>2, <2>3, <2>4, <2>5 DEF PluginError
<1>3. CASE Cancel
  BY <1>3 DEF Cancel
<1>4. CASE StoreThread
  BY <1>4 DEF StoreThread
<1>5. CASE DelayExit \/ CancelSet
  BY <1>5 DEF DelayExit, CancelSet
<1>6. CASE DelayEmit
  BY <1>6 DEF DelayEmit
<1>7. ASSUME NEW s \in sources,
             ThreadFinishedCb(s) \/ ErrorTimeout(s) \/ FinishedDelay(s)
      PROVE  TypeInv'
  BY <1>7 DEF ThreadFinishedCb, ErrorTimeout, FinishedDelay, Dispatch,
              FinishedCall, Back
<1>8. ASSUME NEW w \in Job, ErrorCode(w) \/ ThreadFinished(w)
      PROVE  TypeInv'
  <2>1. job # 0
    BY <1>8 DEF ErrorCode, ThreadFinished
  <2>2. SourceOf("error", w) \in Source /\ SourceOf("thread", w) \in Source
    BY <2>1 DEF Source, SourceOf
  <2>3. CASE ErrorCode(w)
    BY <2>1, <2>2, <2>3 DEF ErrorCode
  <2>4. CASE ThreadFinished(w)
    BY <2>1, <2>2, <2>4 DEF ThreadFinished
  <2> QED
    BY <1>8, <2>3, <2>4
<1>9. ASSUME NEW w \in Job,
             ErrorStore(w) \/ ErrorExit(w) \/ ErrorSet(w) \/ Leave(w) \/ CallFinished(w)
      PROVE  TypeInv'
  BY <1>9 DEF ErrorStore, ErrorExit, ErrorSet, Leave, CallFinished,
              FinishedCall,
              Back
<1>10. ASSUME NEW w \in Job, NEW ret \in BOOLEAN, ThreadReturn(w, ret)
       PROVE  TypeInv'
  BY <1>10 DEF ThreadReturn
<1>11. ASSUME NEW p \in Proc, FinishMark(p)
       PROVE  TypeInv'
  <2>1. job # 0
    BY <1>11 DEF FinishMark
  <2>2. SourceOf("finish", p) \in Source
    BY <2>1 DEF Source, SourceOf
  <2>3. sources' \subseteq Source /\ added' \in [Proc -> Source \cup {NoSource}]
    BY <1>11, <2>2 DEF FinishMark
  <2>4. /\ pc' \in [Proc -> MainLabels \cup WorkerLabels]
        /\ pc'[0] \in MainLabels
        /\ \A w \in Job : pc'[w] \in WorkerLabels
        /\ pc'[0] = "delay-emit" => pc[0] = "delay-emit"
    BY <1>11 DEF FinishMark
  <2> QED
    BY <1>11, <2>1, <2>3, <2>4 DEF FinishMark
<1>12. ASSUME NEW p \in Proc, FinishStop(p)
       PROVE  TypeInv'
  <2>1. stopped' \subseteq Job
    BY <1>12 DEF FinishStop, Proc, Job
  <2> QED
    BY <1>12, <2>1 DEF FinishStop
<1>13. ASSUME NEW p \in Proc, FinishStore(p)
       PROVE  TypeInv'
  BY <1>13 DEF FinishStore, Back
<1>14. CASE UNCHANGED vars
  BY <1>14 DEF vars
<1>15. CASE MainNext
  BY <1>4, <1>5, <1>6, <1>7, <1>11, <1>12, <1>13, <1>15 DEF MainNext, Finish
<1>16. ASSUME NEW w \in Job, WorkerNext(w)
       PROVE  TypeInv'
  BY <1>8, <1>9, <1>10, <1>11, <1>12, <1>13, <1>16 DEF WorkerNext, Finish
<1> QED
  BY <1>1, <1>2, <1>3, <1>14, <1>15, <1>16 DEF Next

\* The object starts in its types.
LEMMA TypeInit == Init => TypeInv
<1> SUFFICES ASSUME Init PROVE TypeInv
  OBVIOUS
<1>1. /\ pc \in [Proc -> MainLabels \cup WorkerLabels]
      /\ pc[0] \in MainLabels
      /\ \A w \in Job : pc[w] \in WorkerLabels
      /\ pc[0] # "delay-emit"
      /\ \A p \in Proc : pc[p] \in {"idle", "none"}
  BY ProcFacts DEF Init, MainLabels, WorkerLabels
<1>2. reported \in [Job -> {"none"} \cup (ExitCodes \ {"unknown"})]
  BY DEF Init
<1>3. added \in [Proc -> Source \cup {NoSource}]
  BY DEF Init
<1>4. job \in 0..MaxJob /\ thread \in 0..MaxJob
  BY ProcFacts DEF Init
<1> QED
  BY <1>1, <1>2, <1>3, <1>4 DEF Init, TypeInv, TypeOK, ExitCodes

\* Type correctness, with workers in time or late ones.
THEOREM TypeCorrect == Spec => []TypeOK
<1>1. TypeInv => TypeOK
  BY DEF TypeInv
<1> QED
  BY <1>1, TypeInit, TypeNext, PTL DEF Spec

-----------------------------------------------------------------------------
(* Jobs and workers, as long as workers keep to the time-outs.             *)

\* Labels of a worker that has not finished, and of one that is in a call.
Unfinished == InRole \cup {"finish-stop", "finish-mark"}
Calling == InRole \cup Finishing

\* The error timer is the one that the object knows of, but for the moment in
\* which its worker has not stored it, and it goes when the job finishes.
ErrorSource(s) ==
  /\ ~finished
  /\ \/ s.by = 0 /\ ~connected /\ s = errorTimer
     \/ /\ s.by = job /\ connected
        /\ s = errorTimer \/ (pc[job] = "error-store" /\ added[job] = s)

\* A worker that left the finish to the main loop is out of its role.
ThreadSource(s) ==
  /\ s.by = job /\ connected /\ ~finished
  /\ pc[job] \in {"return", "done"}
  /\ pc[0] \notin Finishing

\* There is one thread that finishes, and it knows the source that it added.
FinishSource(s) ==
  /\ finished
  /\ s = finishTimer \/ (pc[s.by] = "finish-store" /\ added[s.by] = s)
  /\ \A w \in Job : pc[w] \in Finishing => s.by = w
  /\ pc[0] \in Finishing => s.by = 0

\* What is armed is of the current job.
SourcesInv ==
  \A s \in sources :
    /\ s.job = job
    /\ s.kind = "error" => ErrorSource(s)
    /\ s.kind = "thread" => ThreadSource(s)
    /\ s.kind = "finish" => FinishSource(s)

\* Only the current worker is in a call, and never with the main loop in one
\* that finishes.
WorkersInv ==
  \A w \in Job :
    /\ pc[w] \in Calling => w = job /\ connected /\ pc[0] \notin Finishing
    /\ pc[w] \in Unfinished => ~finished
    /\ pc[w] = "finish-store" => finished /\ added[w] = SourceOf("finish", w)
    /\ pc[w] = "error-store" => added[w] = SourceOf("error", w)

\* The job is reported when nobody can finish it any more.
MainInv ==
  /\ connected => job # 0 /\ reported[job] = "none"
  /\ \A j \in Job : j > job => reported[j] = "none"
  /\ pc[0] \in {"finish-stop", "finish-mark"} => ~finished
  /\ pc[0] = "finish-store" => finished /\ added[0] = SourceOf("finish", 0)
  /\ pc[0] \in {"delay-exit", "delay-emit"} =>
       /\ finished
       /\ \A w \in Job : pc[w] \notin Calling
       /\ \A s \in sources : s.kind # "finish"
  /\ pc[0] = "delay-exit" => exit = "unknown"

\* An error has an exit code, or its worker is about to write one.
ExitInv ==
  /\ setError /\ exit = "unknown" =>
       pc[job] \in {"error-store", "error-exit", "error-set"}
  /\ exit = "success" => finished /\ ~setError
  /\ job # 0 /\ setError => reported[job] # "success"

\* The inductive invariant.
BInv == TypeInv /\ SourcesInv /\ WorkersInv /\ MainInv /\ ExitInv

\* The labels of the threads, where they matter.
LEMMA Labels ==
  /\ \A l \in {"idle", "none", "return", "done", "store-thread", "cancel-set",
               "delay-exit", "delay-emit"} : l \notin Calling
  /\ \A l \in Unfinished : l \in Calling /\ l # "finish-store"
  /\ Calling = Unfinished \cup {"finish-store"}
  /\ Finishing \subseteq Calling
BY DEF Calling, Unfinished, InRole, Finishing

\* A source of the current job is known by its kind and its thread.
LEMMA SourceForm ==
  \A s \in Source : s.job = job => s = SourceOf(s.kind, s.by)
BY DEF Source, SourceOf

\* Between two jobs there are no sources but the timers that the object knows.
LEMMA BetweenJobs ==
  ASSUME BInv, pc[0] = "idle", ~connected
  PROVE  /\ sources \subseteq {errorTimer, finishTimer}
         /\ \A w \in Job : pc[w] \notin Calling
<1>1. \A w \in Job : pc[w] \notin Calling
  BY DEF BInv, WorkersInv
<1>2. ASSUME NEW s \in sources PROVE s \in {errorTimer, finishTimer}
  <2>1. s \in Source /\ s.kind \in {"error", "finish", "thread"} /\ s.by \in Proc
    BY <1>2 DEF BInv, TypeInv, TypeOK, Source
  <2>2. pc[s.by] # "finish-store"
    BY <2>1, <1>1 DEF Proc, Job, Calling, Finishing
  <2> QED
    BY <1>2, <2>1, <2>2 DEF BInv, SourcesInv, ErrorSource, ThreadSource,
                            FinishSource
<1> QED
  BY <1>1, <1>2

\* A step that finds no worker late keeps the invariant.
LEMMA BNext ==
  ASSUME ~late', BInv, TypeInv', [Next]_vars
  PROVE  BInv'
<1> USE ProcFacts, Labels DEF BInv, TypeInv, TypeOK, privVars, Goto
<1>1. CASE ThreadCreate
  <2>1. SourcesInv'
    <3>1. sources' = {}
      BY <1>1, BetweenJobs DEF ThreadCreate, MayStart, Reset
    <3> QED
      BY <3>1 DEF SourcesInv
  <2>2. WorkersInv'
    <3>1. \A w \in Job : pc[w] \notin Calling
      BY <1>1, BetweenJobs DEF ThreadCreate, MayStart
    <3>2. /\ job' = job + 1 /\ job' \in Job /\ connected' /\ ~finished'
          /\ pc' = [pc EXCEPT ![0] = "store-thread", ![job'] = "run"]
      BY <1>1 DEF ThreadCreate, MayStart, Reset
    <3>3. /\ "run" \in Calling /\ "store-thread" \notin Finishing
          /\ {"finish-store", "error-store"} \subseteq Calling
      BY DEF Calling, InRole, Finishing
    <3>4. pc'[0] = "store-thread" /\ pc'[job'] = "run"
      BY <3>2
    <3>5. \A w \in Job : w # job' => pc'[w] = pc[w]
      BY <3>2
    <3> QED
      BY <3>1, <3>2, <3>3, <3>4, <3>5 DEF WorkersInv
  <2>3. MainInv'
    <3>1. /\ job' = job + 1 /\ job' \in Job /\ connected' /\ reported' = reported
          /\ pc'[0] = "store-thread"
      BY <1>1 DEF ThreadCreate, MayStart
    <3>2. reported[job'] = "none" /\ \A j \in Job : j > job' => reported[j] = "none"
      BY <3>1 DEF MainInv, Job
    <3> QED
      BY <3>1, <3>2 DEF MainInv, Finishing
  <2>4. ExitInv'
    BY <1>1 DEF ThreadCreate, MayStart, Reset, ExitInv
  <2> QED
    BY <2>1, <2>2, <2>3, <2>4
<1>2. CASE PluginError
  <2>1. SourcesInv'
    <3>1. sources' \subseteq {errorTimer'} /\ ~connected' /\ ~finished'
      BY <1>2, BetweenJobs DEF PluginError, MayStart
    <3>2. errorTimer' = [kind |-> "error", by |-> 0, job |-> job']
      BY <1>2 DEF PluginError
    <3> QED
      BY <3>1, <3>2 DEF SourcesInv, ErrorSource
  <2>2. WorkersInv'
    BY <1>2 DEF PluginError, MayStart, WorkersInv, Calling, InRole
  <2>3. MainInv'
    <3>1. /\ job' = job + 1 /\ job' \in Job /\ ~connected' /\ pc'[0] = "idle"
          /\ reported' = [reported EXCEPT ![job'] = "failed"]
      BY <1>2 DEF PluginError, MayStart
    <3>2. \A j \in Job : j > job' => reported'[j] = "none"
      BY <3>1 DEF MainInv, Job
    <3> QED
      BY <3>1, <3>2 DEF MainInv
  <2>4. ExitInv'
    BY <1>2 DEF PluginError, MayStart, ExitInv
  <2> QED
    BY <2>1, <2>2, <2>3, <2>4
<1>3. CASE StoreThread
  <2>1. SourcesInv'
    BY <1>3 DEF StoreThread, SourcesInv, ErrorSource, ThreadSource, FinishSource
  <2>2. WorkersInv'
    BY <1>3 DEF StoreThread, WorkersInv, SourceOf
  <2>3. MainInv'
    BY <1>3 DEF StoreThread, MainInv
  <2>4. ExitInv'
    BY <1>3 DEF StoreThread, ExitInv
  <2> QED
    BY <2>1, <2>2, <2>3, <2>4
<1>4. CASE Cancel
  <2>1. SourcesInv'
    BY <1>4 DEF Cancel, SourcesInv, ErrorSource, ThreadSource, FinishSource
  <2>2. WorkersInv'
    BY <1>4 DEF Cancel, WorkersInv, SourceOf
  <2>3. MainInv'
    BY <1>4 DEF Cancel, MainInv
  <2>4. ExitInv'
    BY <1>4 DEF Cancel, ExitInv
  <2> QED
    BY <2>1, <2>2, <2>3, <2>4
<1>5. CASE CancelSet
  <2>1. SourcesInv'
    BY <1>5 DEF CancelSet, SourcesInv, ErrorSource, ThreadSource, FinishSource
  <2>2. WorkersInv'
    BY <1>5 DEF CancelSet, WorkersInv, SourceOf
  <2>3. MainInv'
    BY <1>5 DEF CancelSet, MainInv
  <2>4. ExitInv'
    BY <1>5 DEF CancelSet, ExitInv
  <2> QED
    BY <2>1, <2>2, <2>3, <2>4
<1>6. CASE DelayExit
  <2>1. SourcesInv'
    BY <1>6 DEF DelayExit, SourcesInv, ErrorSource, ThreadSource, MainInv
  <2>2. WorkersInv'
    BY <1>6 DEF DelayExit, WorkersInv, SourceOf
  <2>3. MainInv'
    BY <1>6 DEF DelayExit, MainInv
  <2>4. ExitInv'
    BY <1>6 DEF DelayExit, ExitInv, MainInv, Calling, InRole
  <2> QED
    BY <2>1, <2>2, <2>3, <2>4
<1>7. CASE DelayEmit
  <2>1. SourcesInv'
    BY <1>7 DEF DelayEmit, SourcesInv, ErrorSource, ThreadSource, MainInv
  <2>2. WorkersInv'
    BY <1>7 DEF DelayEmit, WorkersInv, SourceOf, MainInv
  <2>3. MainInv'
    BY <1>7 DEF DelayEmit, MainInv
  <2>4. ExitInv'
    BY <1>7 DEF DelayEmit, ExitInv
  <2> QED
    BY <2>1, <2>2, <2>3, <2>4
<1>8. ASSUME NEW s \in sources, ThreadFinishedCb(s)
      PROVE  BInv'
  <2>1. SourcesInv'
    BY <1>8 DEF ThreadFinishedCb, Dispatch, FinishedCall, SourcesInv,
                ErrorSource, ThreadSource, FinishSource, Source
  <2>2. WorkersInv'
    BY <1>8 DEF ThreadFinishedCb, Dispatch, FinishedCall, WorkersInv, SourceOf,
                SourcesInv, ThreadSource
  <2>3. MainInv'
    BY <1>8 DEF ThreadFinishedCb, FinishedCall, Back, MainInv
  <2>4. ExitInv'
    BY <1>8 DEF ThreadFinishedCb, FinishedCall, ExitInv
  <2> QED
    BY <2>1, <2>2, <2>3, <2>4
<1>9. ASSUME NEW s \in sources, ErrorTimeout(s)
      PROVE  BInv'
  <2>1. SourcesInv'
    <3>1. s.kind = "error" /\ ErrorSource(s) /\ ~finished /\ s.job = job
      BY <1>9 DEF ErrorTimeout, Dispatch, SourcesInv, ErrorSource
    <3>2. ASSUME NEW t \in sources PROVE t.kind # "thread"
      <4>1. SUFFICES ASSUME t.kind = "thread" PROVE FALSE
        OBVIOUS
      <4>2. ThreadSource(t) /\ t = SourceOf("thread", job)
        BY <4>1, SourceForm DEF SourcesInv, ThreadSource
      <4>3. s.by = job /\ s.by # 0
        BY <3>1, <4>2 DEF ErrorSource, ThreadSource, MainInv
      <4> QED
        BY <1>9, <4>2, <4>3 DEF ErrorTimeout, IsLate
    <3>3. /\ sources' \subseteq sources /\ errorTimer' = errorTimer
          /\ pc' = [pc EXCEPT ![0] = "finish-stop"]
          /\ UNCHANGED <<job, connected, finished, added>>
      BY <1>9, <3>1 DEF ErrorTimeout, Dispatch, FinishedCall
    <3>4. \A t \in sources : t.kind # "finish"
      BY <3>1 DEF SourcesInv, FinishSource
    <3>5. ASSUME NEW t \in sources PROVE t.job = job /\ (t.kind = "error" => ErrorSource(t)')
      <4>1. t.job = job /\ (t.kind = "error" => ErrorSource(t))
        BY DEF SourcesInv
      <4>2. pc'[job] = "error-store" <=> (job # 0 /\ pc[job] = "error-store")
        BY <3>3
      <4> QED
        BY <3>3, <4>1, <4>2 DEF ErrorSource, MainInv
    <3> QED
      BY <3>2, <3>3, <3>4, <3>5 DEF SourcesInv
  <2>2. WorkersInv'
    BY <1>9 DEF ErrorTimeout, Dispatch, FinishedCall, IsLate, WorkersInv,
                SourceOf, SourcesInv, ErrorSource
  <2>3. MainInv'
    BY <1>9 DEF ErrorTimeout, FinishedCall, Back, MainInv
  <2>4. ExitInv'
    BY <1>9 DEF ErrorTimeout, FinishedCall, ExitInv
  <2> QED
    BY <2>1, <2>2, <2>3, <2>4
<1>10. ASSUME NEW s \in sources, FinishedDelay(s)
      PROVE  BInv'
  <2>1. SourcesInv'
    BY <1>10 DEF FinishedDelay, Dispatch, SourcesInv, ErrorSource, ThreadSource,
                 FinishSource
  <2>2. WorkersInv'
    BY <1>10 DEF FinishedDelay, WorkersInv, SourceOf
  <2>3. MainInv'
    <3>1. /\ s.kind = "finish" /\ FinishSource(s) /\ finished
          /\ s.by \in Proc /\ pc[s.by] # "finish-store" /\ s = finishTimer
          /\ pc[0] = "idle"
      BY <1>10 DEF FinishedDelay, Dispatch, SourcesInv, FinishSource, Source
    <3>2. \A w \in Job : pc[w] \notin Calling
      BY <3>1 DEF FinishSource, WorkersInv, Finishing
    <3>3. \A t \in sources : t.kind = "finish" => t = s
      <4>1. SUFFICES ASSUME NEW t \in sources, t.kind = "finish" PROVE t = s
        OBVIOUS
      <4>2. FinishSource(t) /\ t.by \in Proc
        BY <4>1 DEF SourcesInv, Source
      <4>3. pc[t.by] # "finish-store"
        BY <3>1, <3>2, <4>2 DEF Proc, Job
      <4> QED
        BY <3>1, <4>2, <4>3 DEF FinishSource
    <3>4. /\ sources' = sources \ {s} /\ UNCHANGED <<job, connected, privVars, reported, added>>
          /\ pc' = [pc EXCEPT ![0] = IF exit = "unknown" THEN "delay-exit" ELSE "delay-emit"]
      BY <1>10 DEF FinishedDelay, Dispatch
    <3> QED
      BY <3>1, <3>2, <3>3, <3>4 DEF MainInv
  <2>4. ExitInv'
    BY <1>10 DEF FinishedDelay, ExitInv
  <2> QED
    BY <2>1, <2>2, <2>3, <2>4
<1>11. ASSUME NEW w \in Job, ErrorCode(w)
      PROVE  BInv'
  <2>1. SourcesInv'
    <3>0. PICK n : n = SourceOf("error", w)
      OBVIOUS
    <3>1. /\ w = job /\ connected /\ ~finished /\ pc[job] = "run" /\ w # 0
      BY <1>11 DEF ErrorCode, WorkersInv, Calling, Unfinished, InRole
    <3>2. /\ sources' = sources \cup {n} /\ added' = [added EXCEPT ![w] = n]
          /\ pc' = [pc EXCEPT ![w] = "error-store"]
          /\ UNCHANGED <<job, connected, finished, errorTimer, finishTimer>>
      BY <1>11, <3>0 DEF ErrorCode
    <3>3. /\ n.kind = "error" /\ n.by = job /\ n.job = job /\ added'[job] = n
          /\ pc'[job] = "error-store" /\ pc'[0] = pc[0]
      BY <3>0, <3>1, <3>2 DEF SourceOf
    <3>4. ErrorSource(n)'
      BY <3>1, <3>2, <3>3 DEF ErrorSource
    <3>5. ASSUME NEW t \in sources
          PROVE  t.job = job /\ t.kind = "error" /\ ErrorSource(t)'
      BY <3>1, <3>2 DEF SourcesInv, ErrorSource, ThreadSource, FinishSource,
                        Source
    <3> QED
      BY <3>2, <3>3, <3>4, <3>5 DEF SourcesInv
  <2>2. WorkersInv'
    BY <1>11 DEF ErrorCode, SourceOf, WorkersInv, Calling, InRole
  <2>3. MainInv'
    BY <1>11 DEF ErrorCode, SourceOf, MainInv, Calling, InRole
  <2>4. ExitInv'
    BY <1>11 DEF ErrorCode, ExitInv, MainInv, WorkersInv, Calling, InRole
  <2> QED
    BY <2>1, <2>2, <2>3, <2>4
<1>12. ASSUME NEW w \in Job, ErrorStore(w)
      PROVE  BInv'
  <2>1. SourcesInv'
    <3>1. /\ w = job /\ connected /\ pc[job] = "error-store" /\ ~finished
          /\ added[job] = SourceOf("error", job) /\ pc[0] \notin Finishing
      BY <1>12 DEF ErrorStore, WorkersInv, Calling, Unfinished, InRole
    <3>2. /\ errorTimer' = SourceOf("error", job) /\ pc'[0] = pc[0]
          /\ UNCHANGED <<job, connected, finished, sources>>
      BY <1>12, <3>1 DEF ErrorStore
    <3>3. ASSUME NEW t \in sources
          PROVE  t.kind = "error" /\ t.job = job /\ t.by = job /\ t = errorTimer'
      <4>1. t.kind = "error"
        BY <3>1 DEF SourcesInv, ThreadSource, FinishSource, Source
      <4> QED
        BY <3>1, <3>2, <4>1, SourceForm DEF SourcesInv, ErrorSource
    <3> QED
      BY <3>1, <3>2, <3>3 DEF SourcesInv, ErrorSource
  <2>2. WorkersInv'
    BY <1>12 DEF ErrorStore, WorkersInv, Calling, InRole
  <2>3. MainInv'
    BY <1>12 DEF ErrorStore, MainInv, SourceOf, Calling, InRole
  <2>4. ExitInv'
    BY <1>12 DEF ErrorStore, ExitInv
  <2> QED
    BY <2>1, <2>2, <2>3, <2>4
<1>13. ASSUME NEW w \in Job, ErrorExit(w)
      PROVE  BInv'
  <2>1. SourcesInv'
    BY <1>13 DEF ErrorExit, SourcesInv, ErrorSource, ThreadSource, FinishSource,
                 Finishing
  <2>2. WorkersInv'
    BY <1>13 DEF ErrorExit, WorkersInv, Calling, InRole
  <2>3. MainInv'
    BY <1>13 DEF ErrorExit, MainInv, SourceOf, Calling, InRole
  <2>4. ExitInv'
    BY <1>13 DEF ErrorExit, ExitInv
  <2> QED
    BY <2>1, <2>2, <2>3, <2>4
<1>14. ASSUME NEW w \in Job, ErrorSet(w)
      PROVE  BInv'
  <2>1. SourcesInv'
    BY <1>14 DEF ErrorSet, SourcesInv, ErrorSource, ThreadSource, FinishSource,
                 Finishing
  <2>2. WorkersInv'
    BY <1>14 DEF ErrorSet, WorkersInv, Calling, InRole
  <2>3. MainInv'
    BY <1>14 DEF ErrorSet, MainInv, SourceOf, Calling, InRole
  <2>4. ExitInv'
    BY <1>14 DEF ErrorSet, ExitInv
  <2> QED
    BY <2>1, <2>2, <2>3, <2>4
<1>15. ASSUME NEW w \in Job, CallFinished(w)
      PROVE  BInv'
  <2>1. SourcesInv'
    BY <1>15 DEF CallFinished, FinishedCall, Back, SourcesInv, ErrorSource,
                 ThreadSource, FinishSource
  <2>2. WorkersInv'
    BY <1>15 DEF CallFinished, FinishedCall, WorkersInv, Calling, InRole
  <2>3. MainInv'
    BY <1>15 DEF CallFinished, FinishedCall, Back, MainInv, SourceOf
  <2>4. ExitInv'
    BY <1>15 DEF CallFinished, FinishedCall, ExitInv
  <2> QED
    BY <2>1, <2>2, <2>3, <2>4
<1>16. ASSUME NEW w \in Job, ThreadFinished(w)
      PROVE  BInv'
  <2>1. SourcesInv'
    <3>0. PICK n : n = SourceOf("thread", w)
      OBVIOUS
    <3>1. /\ w = job /\ connected /\ ~finished /\ pc[job] = "run" /\ w # 0
          /\ pc[0] \notin Finishing
      BY <1>16 DEF ThreadFinished, WorkersInv, Calling, Unfinished, InRole
    <3>2. /\ sources' = sources \cup {n}
          /\ pc' = [pc EXCEPT ![w] = "return"]
          /\ UNCHANGED <<job, connected, finished, errorTimer, finishTimer, added>>
      BY <1>16, <3>0 DEF ThreadFinished
    <3>3. /\ n.kind = "thread" /\ n.by = job /\ n.job = job
          /\ pc'[job] = "return" /\ pc'[0] = pc[0]
      BY <3>0, <3>1, <3>2 DEF SourceOf
    <3>4. ThreadSource(n)'
      BY <3>1, <3>2, <3>3 DEF ThreadSource
    <3>5. ASSUME NEW t \in sources
          PROVE  t.job = job /\ t.kind = "error" /\ ErrorSource(t)'
      BY <3>1, <3>2 DEF SourcesInv, ErrorSource, ThreadSource, FinishSource,
                        Source
    <3> QED
      BY <3>2, <3>3, <3>4, <3>5 DEF SourcesInv
  <2>2. WorkersInv'
    BY <1>16 DEF ThreadFinished, SourceOf, WorkersInv
  <2>3. MainInv'
    BY <1>16 DEF ThreadFinished, SourceOf, MainInv
  <2>4. ExitInv'
    BY <1>16 DEF ThreadFinished, ExitInv
  <2> QED
    BY <2>1, <2>2, <2>3, <2>4
<1>17. ASSUME NEW w \in Job, Leave(w)
      PROVE  BInv'
  <2>1. SourcesInv'
    BY <1>17 DEF Leave, SourcesInv, ErrorSource, ThreadSource, FinishSource
  <2>2. WorkersInv'
    BY <1>17 DEF Leave, WorkersInv, SourceOf
  <2>3. MainInv'
    BY <1>17 DEF Leave, MainInv, SourceOf
  <2>4. ExitInv'
    BY <1>17 DEF Leave, ExitInv
  <2> QED
    BY <2>1, <2>2, <2>3, <2>4
<1>18. ASSUME NEW w \in Job, \E ret \in BOOLEAN : ThreadReturn(w, ret)
      PROVE  BInv'
  <2>1. SourcesInv'
    BY <1>18 DEF ThreadReturn, SourcesInv, ErrorSource, ThreadSource,
                 FinishSource
  <2>2. WorkersInv'
    BY <1>18 DEF ThreadReturn, WorkersInv, SourceOf
  <2>3. MainInv'
    BY <1>18 DEF ThreadReturn, MainInv, SourceOf
  <2>4. ExitInv'
    BY <1>18 DEF ThreadReturn, ExitInv
  <2> QED
    BY <2>1, <2>2, <2>3, <2>4
<1>19. ASSUME NEW p \in Proc, FinishStop(p)
      PROVE  BInv'
  <2>1. SourcesInv'
    BY <1>19 DEF FinishStop, SourcesInv, ErrorSource, ThreadSource,
                 FinishSource, Finishing
  <2>2. WorkersInv'
    BY <1>19 DEF FinishStop, WorkersInv, SourceOf, Finishing
  <2>3. MainInv'
    BY <1>19 DEF FinishStop, MainInv, SourceOf, Finishing
  <2>4. ExitInv'
    BY <1>19 DEF FinishStop, ExitInv
  <2> QED
    BY <2>1, <2>2, <2>3, <2>4
<1>20. ASSUME NEW p \in Proc, FinishMark(p)
      PROVE  BInv'
  <2>0. /\ ~finished
        /\ p # 0 => p = job /\ connected /\ pc[0] \notin Finishing
        /\ p # 0 => \A w \in Job : pc[w] \in Calling => w = p
        /\ p = 0 => pc[0] \in Finishing /\ \A w \in Job : pc[w] \notin Calling
    <3>1. pc[p] = "finish-mark"
      BY <1>20 DEF FinishMark
    <3>2. "finish-mark" \in Unfinished \cap Finishing \cap Calling
      BY DEF Unfinished, Finishing, Calling
    <3>3. CASE p = 0
      BY <3>1, <3>2, <3>3 DEF WorkersInv, MainInv
    <3>4. CASE p \in Job
      BY <3>1, <3>2, <3>4 DEF WorkersInv
    <3> QED
      BY <3>3, <3>4 DEF Proc, Job
  <2>1. SourcesInv'
    <3>0. PICK n : n = SourceOf("finish", p)
      OBVIOUS
    <3>1. sources' = (sources \ {errorTimer}) \cup {n} /\ finished' /\ added'[p] = n
      BY <1>20, <3>0 DEF FinishMark
    <3>2. /\ pc' = [pc EXCEPT ![p] = "finish-store"] /\ pc[p] = "finish-mark"
          /\ UNCHANGED <<job, connected>>
      BY <1>20 DEF FinishMark
    <3>3. ASSUME NEW t \in sources PROVE t = errorTimer
      <4>1. t.kind # "finish"
        BY <2>0 DEF SourcesInv, FinishSource
      <4>2. t.kind # "thread"
        BY <2>0, <3>2 DEF SourcesInv, ThreadSource, Proc, Job, Finishing
      <4>3. pc[job] # "error-store"
        BY <2>0, <3>2 DEF Calling, InRole
      <4> QED
        BY <4>1, <4>2, <4>3 DEF SourcesInv, ErrorSource, Source
    <3>4. sources' = {n}
      BY <3>1, <3>3
    <3>5. n.kind = "finish" /\ n.by = p /\ n.job = job'
      BY <3>0, <3>2 DEF SourceOf
    <3>6. \A w \in Job : pc'[w] \in Finishing => p = w
      BY <2>0, <3>2
    <3>7. pc'[0] \in Finishing => p = 0
      BY <2>0, <3>2
    <3>8. FinishSource(n)'
      BY <3>1, <3>2, <3>5, <3>6, <3>7 DEF FinishSource
    <3> QED
      BY <3>4, <3>5, <3>8 DEF SourcesInv
  <2>2. WorkersInv'
    <3>1. /\ pc' = [pc EXCEPT ![p] = "finish-store"] /\ finished'
          /\ added' = [added EXCEPT ![p] = SourceOf("finish", p)]
          /\ UNCHANGED <<job, connected>>
      BY <1>20 DEF FinishMark
    <3>2. CASE p = 0
      BY <2>0, <3>1, <3>2 DEF WorkersInv, Calling, InRole, Finishing
    <3>3. CASE p # 0
      BY <2>0, <3>1, <3>3 DEF WorkersInv, SourceOf, Calling, InRole, Finishing
    <3> QED
      BY <3>2, <3>3
  <2>3. MainInv'
    <3>1. /\ pc' = [pc EXCEPT ![p] = "finish-store"] /\ finished'
          /\ added' = [added EXCEPT ![p] = SourceOf("finish", p)]
          /\ UNCHANGED <<job, connected, reported>>
      BY <1>20 DEF FinishMark
    <3>2. pc'[0] \notin {"delay-exit", "delay-emit"}
      BY <2>0, <3>1 DEF MainInv
    <3>3. pc'[0] \notin {"finish-stop", "finish-mark"}
      BY <2>0, <3>1 DEF Finishing
    <3>4. pc'[0] = "finish-store" => added'[0] = SourceOf("finish", 0)'
      BY <2>0, <3>1 DEF Finishing, SourceOf
    <3> QED
      BY <3>1, <3>2, <3>3, <3>4 DEF MainInv
  <2>4. ExitInv'
    BY <1>20 DEF FinishMark, ExitInv
  <2> QED
    BY <2>1, <2>2, <2>3, <2>4
<1>21. ASSUME NEW p \in Proc, FinishStore(p)
      PROVE  BInv'
  <2>0. /\ finished /\ added[p] = SourceOf("finish", p)
        /\ p # 0 => p = job /\ connected /\ pc[0] \notin Finishing
        /\ p # 0 => \A w \in Job : pc[w] \in Calling => w = p
        /\ p = 0 => pc[0] \in Finishing /\ \A w \in Job : pc[w] \notin Calling
    BY <1>21 DEF FinishStore, WorkersInv, MainInv, Finishing, Proc, Job
  <2>1. SourcesInv'
    <3>1. /\ finishTimer' = SourceOf("finish", p) /\ sources' = sources /\ finished'
          /\ UNCHANGED <<job, connected>>
      BY <1>21, <2>0 DEF FinishStore
    <3>2. pc' = [pc EXCEPT ![p] = Back(p)] /\ Back(p) \notin Finishing /\ pc[p] = "finish-store"
      BY <1>21 DEF FinishStore, Back, Finishing
    <3>3. ASSUME NEW t \in sources
          PROVE  t.kind = "finish" /\ t.job = job /\ FinishSource(t) /\ t.by = p
      <4>1. t.kind = "finish"
        BY <2>0 DEF SourcesInv, ErrorSource, ThreadSource, Source
      <4> QED
        BY <2>0, <3>2, <4>1 DEF SourcesInv, FinishSource, Finishing
    <3>4. ASSUME NEW t \in sources PROVE t = finishTimer'
      BY <3>1, <3>3, SourceForm
    <3>5. /\ \A w \in Job : pc'[w] \notin Finishing
          /\ pc'[0] \notin Finishing
      BY <2>0, <3>2 DEF Proc
    <3> QED
      BY <3>1, <3>3, <3>4, <3>5 DEF SourcesInv, FinishSource
  <2>2. WorkersInv'
    <3>1. /\ pc' = [pc EXCEPT ![p] = Back(p)] /\ Back(p) \notin Calling
          /\ UNCHANGED <<job, connected, finished, added>>
      BY <1>21 DEF FinishStore, Back
    <3>2. {"finish-store", "error-store"} \subseteq Calling
      BY DEF Calling, Finishing, InRole
    <3> QED
      BY <2>0, <3>1, <3>2 DEF WorkersInv, SourceOf
  <2>3. MainInv'
    <3>1. /\ pc' = [pc EXCEPT ![p] = Back(p)] /\ Back(p) \in {"idle", "return"}
          /\ UNCHANGED <<job, connected, finished, added, reported>>
      BY <1>21 DEF FinishStore, Back
    <3>2. pc'[0] \notin {"delay-exit", "delay-emit"}
      BY <1>21, <2>0, <3>1 DEF MainInv, FinishStore
    <3> QED
      BY <3>1, <3>2 DEF MainInv, SourceOf
  <2>4. ExitInv'
    BY <1>21 DEF FinishStore, ExitInv
  <2> QED
    BY <2>1, <2>2, <2>3, <2>4
<1>22. CASE UNCHANGED vars
  BY <1>22 DEF vars, SourcesInv, ErrorSource, ThreadSource, FinishSource,
               WorkersInv,
    MainInv, ExitInv, SourceOf
<1>23. CASE MainNext
  BY <1>3, <1>6, <1>7, <1>5, <1>8, <1>9, <1>10,
     <1>19, <1>20, <1>21, <1>23 DEF MainNext, Finish
<1>24. ASSUME NEW w \in Job, WorkerNext(w)
      PROVE  BInv'
  BY <1>11, <1>12, <1>13, <1>14, <1>15, <1>16, <1>17, <1>18,
     <1>19, <1>20, <1>21, <1>24 DEF WorkerNext, Finish
<1> QED
  BY <1>1, <1>2, <1>4, <1>22, <1>23, <1>24 DEF Next

\* The object starts in the invariant.
LEMMA BInit == Init => BInv
<1> SUFFICES ASSUME Init PROVE BInv
  OBVIOUS
<1>1. TypeInv
  BY TypeInit
<1>2. \A p \in Proc : pc[p] \in {"idle", "none"}
  BY DEF Init
<1>3. pc[0] = "idle" /\ \A w \in Job : pc[w] \notin Calling
  BY <1>2, ProcFacts, Labels DEF Init
<1>4. SourcesInv
  BY DEF Init, SourcesInv
<1>5. WorkersInv
  BY <1>3 DEF WorkersInv, Calling, Unfinished, InRole, Finishing
<1>6. MainInv
  BY <1>3 DEF Init, MainInv
<1>7. ExitInv
  BY DEF Init, ExitInv
<1> QED
  BY <1>1, <1>4, <1>5, <1>6, <1>7 DEF BInv

\* Once a worker was late, it was.
LEMMA LateStays == [Next]_vars /\ late => late'
<1> SUFFICES ASSUME [Next]_vars, late PROVE late'
  OBVIOUS
<1>1. ASSUME NEW s \in sources,
             ThreadFinishedCb(s) \/ ErrorTimeout(s) \/ FinishedDelay(s)
      PROVE  late'
  BY <1>1 DEF ThreadFinishedCb, ErrorTimeout, FinishedDelay
<1>2. ASSUME NEW p \in Proc, Finish(p)
      PROVE  late'
  BY <1>2 DEF Finish, FinishStop, FinishMark, FinishStore
<1>3. ASSUME NEW w \in Job, WorkerNext(w)
      PROVE  late'
  BY <1>2, <1>3, ProcFacts
     DEF WorkerNext, ErrorCode, ErrorStore, ErrorExit, ErrorSet, CallFinished,
         ThreadFinished, Leave, ThreadReturn
<1>4. CASE MainNext
  BY <1>1, <1>2, <1>4, ProcFacts
     DEF MainNext, StoreThread, DelayExit, DelayEmit, CancelSet
<1> QED
  BY <1>3, <1>4 DEF Next, ThreadCreate, PluginError, Cancel, vars

\* As long as no worker was late, the invariant holds.
LEMMA BAlways == Spec => [](~late => BInv)
<1>1. Init => TypeInv /\ (~late => BInv)
  BY TypeInit, BInit
<1>2. TypeInv /\ (~late => BInv) /\ [Next]_vars => (TypeInv /\ (~late => BInv))'
  BY TypeNext, BNext, LateStays
<1> QED
  BY <1>1, <1>2, PTL DEF Spec

\* As long as workers keep to the time-outs, no job is reported and no other
\* started while its worker is in the code of its role.
THEOREM OneWorkerAtATime == Spec => []OneWorker
<1>1. (~late => BInv) => OneWorker
  BY DEF BInv, WorkersInv, MainInv, OneWorker, Calling
<1> QED
  BY <1>1, BAlways, PTL

\* As long as workers keep to the time-outs, pk_backend_reset leaves no source of
\* an earlier job.
THEOREM NoSourceIsStale == Spec => []NoStaleSource
<1>1. (~late => BInv) => NoStaleSource
  BY DEF BInv, SourcesInv, NoStaleSource
<1> QED
  BY <1>1, BAlways, PTL

\* As long as workers keep to the time-outs, a job with an error is never reported
\* as a success.
THEOREM FailuresAreReported == Spec => []FailureIsReported
<1>1. (~late => BInv) => FailureIsReported
  BY DEF BInv, ExitInv, FailureIsReported
<1> QED
  BY <1>1, BAlways, PTL
=============================================================================
