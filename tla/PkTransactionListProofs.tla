---------------------- MODULE PkTransactionListProofs -----------------------
(***************************************************************************)
(* Proofs about PkTransactionList, for every number of transactions, users *)
(* and roles: type correctness, the inductive invariant IInv and the       *)
(* safety properties that follow from it, and the refinement of PkSchedule.*)
(***************************************************************************)
EXTENDS PkTransactionList, WellFoundedInduction, TLAPS

-----------------------------------------------------------------------------
(* The order of the array.                                                 *)

\* A set of items that is not empty has a first one (g_ptr_array order).
LEMMA FirstExists ==
  ASSUME NEW S \in SUBSET Tid, S # {}
  PROVE  First(S) # {}
<1> DEFINE Less == {p \in Nat \X Nat : p[1] < p[2]}
<1>1. S \subseteq Nat
  BY ListAssumption DEF Tid
<1>2. IsWellFoundedOn(Less, Nat)
  BY NatLessThanWellFounded DEF OpToRel
<1> HIDE DEF Less
<1>3. PICK x \in S : \A y \in S : ~(<<y, x>> \in Less)
  BY <1>1, <1>2, WFMin
<1>4. \A y \in S : x <= y
  <2> SUFFICES ASSUME NEW y \in S PROVE x <= y
    OBVIOUS
  <2>1. x \in Nat /\ y \in Nat
    BY <1>1
  <2>2. <<y, x>> \in Nat \X Nat /\ <<y, x>>[1] = y /\ <<y, x>>[2] = x
    BY <2>1
  <2>3. ~(y < x)
    BY <1>3, <2>2 DEF Less
  <2> QED
    BY <2>1, <2>3
<1>5. x \in First(S)
  BY <1>4 DEF First
<1> QED
  BY <1>5

\* It has only one first item, and that one is in it.
LEMMA FirstIsOne ==
  ASSUME NEW S \in SUBSET Tid, NEW x \in First(S), NEW y \in First(S)
  PROVE  x \in S /\ x = y
BY ListAssumption DEF First, Tid

-----------------------------------------------------------------------------
(* Type correctness.                                                       *)

\* What the helpers of several actions do to the types.
LEMMA NextItemType ==
  ASSUME NEW t \in Tid
  PROVE  NextItem(t) \subseteq Ready \ {t}
BY DEF NextItem, First, Ready

\* What the list's "finished" callback may write.
LEMMA FinishedType ==
  ASSUME TypeOK, NEW t \in Tid, NEW p \in SUBSET Tid, ListFinished(t, p)
  PROVE  /\ state' \in [Tid -> States]
         /\ background' \subseteq Tid
         /\ commitTimer' \subseteq Tid
         /\ removeTimer' \subseteq Tid
         /\ idle' \subseteq Tid
BY NextItemType DEF TypeOK, ListFinished, States, Ready

\* A report is one of Reports.
LEMMA ReportType ==
  ASSUME TypeOK, NEW t \in Tid, NEW e, Report(t, e)
  PROVE  report' \in [Tid -> Reports]
BY DEF TypeOK, Report, Reports

\* What a commit may write.
LEMMA CommitType ==
  ASSUME TypeOK, NEW t \in Tid, NEW b \in BOOLEAN, Commit(t, b)
  PROVE  /\ state' \in [Tid -> States]
         /\ background' \subseteq Tid
         /\ commitTimer' \subseteq Tid
         /\ removeTimer' \subseteq Tid
         /\ idle' \subseteq Tid
         /\ exit' \in ExitCodes
BY DEF TypeOK, Commit, States, SetExit, ExitCodes

\* Freeing an item keeps every variable in its type.
LEMMA ReleaseType ==
  ASSUME TypeOK, NEW t \in Tid, Release(t)
  PROVE  TypeOK'
<1>1. report' \in [Tid -> Reports]
  BY ReportType DEF Release, ItemFree, TypeOK
<1> QED
  BY <1>1 DEF TypeOK, Release, ItemFree, States, loopVars, jobVars

\* The values that the loops have at rest are in their types.
LEMMA ZeroType ==
  /\ 0 \in 0..MaxTid
  /\ NoScan \in [loop : {"none", "pending", "running"}, at : 1..(MaxTid + 1)]
BY ListAssumption DEF NoScan

\* The aborted daemon is in its type.
LEMMA CrashType ==
  ASSUME Crash
  PROVE  TypeOK'
BY ZeroType DEF Crash, TypeOK, States, Reports, ExitCodes

\* So is the daemon that starts.
LEMMA TypeInit ==
  ASSUME Init
  PROVE  TypeOK
BY ZeroType DEF Init, TypeOK, States, Reports, ExitCodes

\* Every action leaves every variable in its type.
LEMMA TypeNext ==
  ASSUME TypeOK, [Next]_vars
  PROVE  TypeOK'
<1> USE DEF listVars, timerVars, authVars, linkVars, loopVars, jobVars, histVars
<1>1. ASSUME NEW u \in Uids, Create(u) \/ CreateRefused(u)
      PROVE  TypeOK'
  <2>1. created + 1 \in Tid /\ created + 1 \in 0..MaxTid
    BY <1>1, ListAssumption DEF TypeOK, Create, CreateRefused, Tid
  <2>2. CASE Create(u)
    BY <2>1, <2>2 DEF TypeOK, Create, States
  <2>3. CASE CreateRefused(u)
    BY <2>1, <2>3 DEF TypeOK, CreateRefused
  <2> QED
    BY <1>1, <2>2, <2>3
<1>2. ASSUME NEW t \in Tid, NEW r \in Roles, NEW b \in BOOLEAN, Query(t, r, b)
      PROVE  TypeOK'
  BY <1>2, CommitType, ListAssumption DEF TypeOK, Query, Callable, SetRole
<1>3. ASSUME NEW t \in Tid, NEW r \in Roles, AnswerFromCache(t, r)
      PROVE  TypeOK'
  BY <1>3, ListAssumption DEF TypeOK, AnswerFromCache, Callable, SetRole
<1>4. ASSUME NEW t \in Tid, NEW r \in Roles, Privileged(t, r)
      PROVE  TypeOK'
  BY <1>4, ListAssumption
     DEF TypeOK, Privileged, Callable, SetRole, ObtainAuthorization, States
<1>5. ASSUME NEW t \in Tid, AcceptEula(t)
      PROVE  TypeOK'
  BY <1>5, ListAssumption
     DEF TypeOK, AcceptEula, Callable, SetRole, ObtainAuthorization, States
<1>6. ASSUME NEW t \in Tid, AcceptEulaFails(t)
      PROVE  TypeOK'
  BY <1>6, ReportType DEF TypeOK, AcceptEulaFails, States
<1>7. ASSUME NEW t \in Tid,
             MethodFails(t) \/ NoCommitTimeout(t) \/ KeepFinishedTimeout(t)
      PROVE  TypeOK'
  BY <1>7, ReleaseType DEF MethodFails, NoCommitTimeout, KeepFinishedTimeout
<1>8. ASSUME NEW t \in Tid, AuthDenied(t)
      PROVE  TypeOK'
  <2>1. FinishedEmit(t, "failed") /\ idle \in SUBSET Tid
    BY <1>8 DEF AuthDenied, TypeOK
  <2> QED
    BY <1>8, <2>1, FinishedType, ReportType DEF TypeOK, AuthDenied, FinishedEmit
<1>9. ASSUME NEW t \in Tid, NEW b \in BOOLEAN, AuthGranted(t, b)
      PROVE  TypeOK'
  BY <1>9, CommitType DEF TypeOK, AuthGranted
<1>10. ASSUME NEW t \in Tid, FinishedIdle(t)
       PROVE  TypeOK'
  <2>1. FinishedEmit(t, "success") /\ idle \in SUBSET Tid
    BY <1>10 DEF FinishedIdle, TypeOK
  <2> QED
    BY <1>10, <2>1, FinishedType, ReportType DEF TypeOK, FinishedIdle, FinishedEmit
<1>11. ASSUME NEW t \in Tid, CallbackOnFreed(t)
       PROVE  TypeOK'
  BY <1>11, CrashType DEF TypeOK, CallbackOnFreed
<1>12. ASSUME NEW t \in Tid, RunFlushesFinish(t)
       PROVE  TypeOK'
  <2>1. resume' \in 0..MaxTid
    BY <1>12, ListAssumption DEF RunFlushesFinish, Tid
  <2> QED
    BY <1>12, <2>1 DEF TypeOK, RunFlushesFinish, SetExit, ExitCodes
<1>13. ASSUME NEW t \in Tid, NEW p \in PluginAborts, NEW e \in {"failed", "skip"},
              RunEndedByPlugin(t, p, e)
       PROVE  TypeOK'
  <2>1. ListFinished(t, idle \ {t}) /\ idle \ {t} \in SUBSET Tid
    BY <1>13 DEF RunEndedByPlugin, RunEnds, TypeOK
  <2>2. report' \in [Tid -> Reports]
    BY <1>13, ReportType DEF RunEndedByPlugin, RunEnds
  <2> QED
    BY <1>13, <2>1, <2>2, FinishedType, ListAssumption
       DEF TypeOK, RunEndedByPlugin, RunEnds, ExitCodes
<1>14. ASSUME NEW t \in Tid, RunEndedByOther(t)
       PROVE  TypeOK'
  <2>1. ListFinished(t, idle \ {t}) /\ idle \ {t} \in SUBSET Tid
    BY <1>14 DEF RunEndedByOther, RunEnds, TypeOK
  <2>2. report' \in [Tid -> Reports]
    BY <1>14, ReportType DEF RunEndedByOther, RunEnds
  <2> QED
    BY <1>14, <2>1, <2>2, FinishedType, ListAssumption
       DEF TypeOK, RunEndedByOther, RunEnds
<1>15. ASSUME NEW t \in Tid, RunDispatch(t)
       PROVE  TypeOK'
  BY <1>15, ListAssumption DEF TypeOK, RunDispatch, ExitCodes
<1>16. ASSUME NEW t \in Tid, RunAborts(t)
       PROVE  TypeOK'
  BY <1>16, CrashType DEF RunAborts
<1>17. CASE BackendError
  BY <1>17 DEF TypeOK, BackendError, SetExit, ExitCodes
<1>18. CASE BackendFinished \/ ErrorTimeout
  <2>1. outstanding' \in Nat
    BY <1>18 DEF TypeOK, BackendFinished, ErrorTimeout
  <2>2. job' \in {"clean", "error", "finished"} /\ delay' \in BOOLEAN
    BY <1>18 DEF TypeOK, BackendFinished, ErrorTimeout, SetFinished
  <2> QED
    BY <1>18, <2>1, <2>2 DEF TypeOK, BackendFinished, ErrorTimeout
<1>19. CASE FinishedDelay
  BY <1>19 DEF TypeOK, FinishedDelay, SetExit, ExitCodes
<1>20. ASSUME NEW t \in Tid, NEW e \in ExitCodes \cup {"required"}, FinishedCb(t, e)
       PROVE  TypeOK'
  <2>1. FinishedEmit(t, e) /\ idle \in SUBSET Tid
    BY <1>20 DEF FinishedCb, TypeOK
  <2> QED
    BY <1>20, <2>1, FinishedType, ReportType DEF TypeOK, FinishedCb, FinishedEmit
<1>21. ASSUME NEW t \in Tid, FinishedCbOnFreed(t)
       PROVE  TypeOK'
  BY <1>21, CrashType DEF TypeOK, FinishedCbOnFreed
<1>22. ASSUME NEW t \in Tid, NEW e \in ExitCodes, CancelQueued(t) \/ CancelBackend(t, e)
       PROVE  /\ state' \in [Tid -> States] /\ background' \subseteq Tid
              /\ commitTimer' \subseteq Tid /\ idle' \subseteq Tid
              /\ removeTimer' \subseteq Tid /\ exit' \in ExitCodes
              /\ cancelled' \subseteq Tid /\ report' \in [Tid -> Reports]
  <2>1. CASE CancelQueued(t)
    <3>1. FinishedEmit(t, "cancelled") /\ idle \in SUBSET Tid
      BY <2>1 DEF CancelQueued, TypeOK
    <3> QED
      BY <2>1, <3>1, FinishedType, ReportType DEF TypeOK, CancelQueued, FinishedEmit
  <2>2. CASE CancelBackend(t, e)
    BY <2>2 DEF TypeOK, CancelBackend, SetExit
  <2> QED
    BY <1>22, <2>1, <2>2
<1>23. ASSUME NEW t \in Tid, Cancel(t)
       PROVE  TypeOK'
  BY <1>22, <1>23 DEF TypeOK, Cancel, ExitCodes
<1>24. CASE CancelBackground
  BY <1>24, ListAssumption DEF TypeOK, CancelBackground
<1>25. ASSUME NEW t \in Tid, ScanItem(t)
       PROVE  TypeOK'
  <2>1. scan' \in [loop : {"none", "pending", "running"}, at : 1..(MaxTid + 1)]
    BY <1>25, ListAssumption DEF TypeOK, ScanItem, Tid
  <2> QED
    BY <1>22, <1>25, <2>1 DEF TypeOK, ScanItem, ExitCodes
<1>26. CASE ScanEnd
  BY <1>26, ZeroType, ListAssumption DEF TypeOK, ScanEnd
<1>27. CASE UNCHANGED vars
  BY <1>27 DEF TypeOK, vars
<1> QED
  BY <1>1, <1>2, <1>3, <1>4, <1>5, <1>6, <1>7, <1>8, <1>9, <1>10, <1>11, <1>12,
     <1>13, <1>14, <1>15, <1>16, <1>17, <1>18, <1>19, <1>20, <1>21, <1>23, <1>24,
     <1>25, <1>26, <1>27
     DEF Next, ClientNext, CallbackNext, RunNext, FinishNext, ScanNext

\* The type invariant holds in every behaviour.
THEOREM TypeCorrect == Spec => []TypeOK
<1>1. Init => TypeOK
  BY TypeInit
<1>2. TypeOK /\ [Next]_vars => TypeOK'
  BY TypeNext
<1> QED
  BY <1>1, <1>2, PTL DEF Spec

-----------------------------------------------------------------------------
(* The inductive invariant.  None of its parts is inductive alone: that no *)
(* item is left in the queue needs the timers to be those of the states    *)
(* (a timer must not take the running item away), which needs to know in   *)
(* which states the callbacks find their items.                            *)

Inv ==
  /\ SourcesMatchState
  /\ NotWedged
  /\ ReportedIsOver
  /\ NeverRunTwice
  /\ CallbacksFindStates

IInv == TypeOK /\ Inv

\* The set operators that the invariant is stated with.
LEMMA ReadyRunning ==
  /\ \A t \in Tid : t \in Ready <=> state[t] = "READY"
  /\ \A t \in Tid : t \in Running <=> state[t] = "RUNNING"
  /\ Ready \subseteq Tid /\ Running \subseteq Tid
BY DEF Ready, Running

\* Nothing of the list changes, and no callback is added.
LEMMA SameList ==
  ASSUME Inv,
         UNCHANGED <<state, role, timerVars, linkVars, report>>,
         auth' \subseteq auth, finishIdle' \subseteq finishIdle,
         \A t \in Tid : t > created' => t > created,
         emission' \subseteq connected, resume' # 0 => resume' \in idle
  PROVE  Inv'
<1> USE DEF Inv, timerVars, linkVars
<1>1. SourcesMatchState' /\ NotWedged'
  BY DEF SourcesMatchState, NotWedged, Ready, Running
<1>2. ReportedIsOver' /\ NeverRunTwice'
  BY DEF ReportedIsOver, NeverRunTwice
<1>3. CallbacksFindStates'
  BY DEF CallbacksFindStates, Listed
<1> QED
  BY <1>1, <1>2, <1>3

\* The daemon aborts: there is nothing left that could be wrong.
LEMMA CrashKeeps ==
  ASSUME Crash
  PROVE  Inv'
BY DEF Crash, Inv, SourcesMatchState, NotWedged, Ready, Running, ReportedIsOver,
       NeverRunTwice, CallbacksFindStates

\* An item that is not queued and not running is freed.
LEMMA ReleaseKeeps ==
  ASSUME IInv, NEW t \in Tid, MainLoop, Release(t),
         state[t] \in {"NEW", "WAITING_FOR_AUTH", "FINISHED"}
  PROVE  Inv'
<1> USE DEF IInv, Inv, Release, ItemFree, TypeOK
<1>1. /\ \A u \in Tid \ {t} : state'[u] = state[u] /\ role'[u] = role[u]
                              /\ report'[u] = report[u]
      /\ state'[t] = "gone"
  BY DEF Report
<1>2. SourcesMatchState'
  BY <1>1 DEF SourcesMatchState
<1>3. Ready' = Ready /\ Running' = Running
  BY <1>1 DEF Ready, Running
<1>4. NotWedged'
  BY <1>3 DEF NotWedged
<1>5. ReportedIsOver'
  BY <1>1 DEF ReportedIsOver
<1>6. NeverRunTwice'
  BY DEF NeverRunTwice
<1>7. CallbacksFindStates'
  BY <1>1 DEF CallbacksFindStates, MainLoop, Listed, loopVars
<1> QED
  BY <1>2, <1>4, <1>5, <1>6, <1>7

\* What the list's "finished" callback does to the states: t is finished, and
\* a queued item, if there is one, is started; nothing else moves.
LEMMA FinishStates ==
  ASSUME IInv, NEW t \in Tid, NEW p \in SUBSET idle, ListFinished(t, p)
  PROVE  /\ state'[t] = "FINISHED"
         /\ \A u \in Tid \ {t} : \/ state'[u] = state[u]
                                 \/ state[u] = "READY" /\ state'[u] = "RUNNING"
         /\ \A u \in idle' : \/ u \in p
                             \/ u \in Tid \ {t} /\ state[u] = "READY"
                                /\ state'[u] = "RUNNING"
         /\ Ready' # {} => Running' # {}
<1> USE DEF IInv, Inv, TypeOK
<1>1. CASE state[t] = "FINISHED"
  <2>1. state' = state /\ idle' = p
    BY <1>1 DEF ListFinished
  <2> QED
    BY <1>1, <2>1 DEF NotWedged, Ready, Running
<1>2. CASE state[t] # "FINISHED"
  <2>1. /\ \A u \in Tid : state'[u] = IF u = t THEN "FINISHED"
                                      ELSE IF u \in NextItem(t) THEN "RUNNING"
                                      ELSE state[u]
        /\ idle' = p \cup NextItem(t)
    BY <1>2 DEF ListFinished
  <2>2. NextItem(t) \subseteq Ready \ {t}
    BY NextItemType
  <2>3. Ready \ {t} # {} => NextItem(t) # {}
    BY FirstExists, ReadyRunning DEF NextItem
  <2>4. NextItem(t) # {} => Running' # {}
    BY <2>1, <2>2, ReadyRunning DEF Running
  <2>5. Ready' \subseteq Ready \ {t}
    BY <2>1 DEF Ready
  <2> QED
    BY <2>1, <2>2, <2>3, <2>4, <2>5, ReadyRunning
<1> QED
  BY <1>1, <1>2

\* An item finishes: the conjuncts of Inv about states, sources and reports.
LEMMA FinishKeeps ==
  ASSUME IInv, NEW t \in Tid, Listed(t), NEW e, Report(t, e),
         NEW p \in SUBSET idle, ListFinished(t, p),
         t \in p => state[t] = "FINISHED" \/ role[t] = "accept-eula",
         UNCHANGED role
  PROVE  SourcesMatchState' /\ NotWedged' /\ ReportedIsOver'
<1> USE DEF IInv, Inv, TypeOK
<1>1. /\ state'[t] = "FINISHED"
      /\ \A u \in Tid \ {t} : \/ state'[u] = state[u]
                              \/ state[u] = "READY" /\ state'[u] = "RUNNING"
      /\ \A u \in idle' : \/ u \in p
                          \/ u \in Tid \ {t} /\ state[u] = "READY"
                             /\ state'[u] = "RUNNING"
      /\ Ready' # {} => Running' # {}
  BY FinishStates
<1>2. commitTimer' = {u \in Tid : state'[u] \in {"NEW", "WAITING_FOR_AUTH"}}
  <2>1. commitTimer' = commitTimer \ {t}
    BY DEF ListFinished, SourcesMatchState
  <2> QED
    BY <1>1, <2>1 DEF SourcesMatchState
<1>3. removeTimer' = {u \in Tid : state'[u] = "FINISHED"}
  <2>1. removeTimer' = removeTimer \cup {t}
    BY DEF ListFinished, SourcesMatchState
  <2> QED
    BY <1>1, <2>1 DEF SourcesMatchState
<1>4. \A u \in idle' : \/ state'[u] = "RUNNING"
                       \/ state'[u] = "FINISHED" /\ role'[u] = "accept-eula"
  BY <1>1 DEF SourcesMatchState
<1>5. ReportedIsOver'
  <2>1. /\ report'[t] # "none"
        /\ \A u \in Tid \ {t} : report'[u] = report[u]
    BY DEF Report, Reports
  <2> QED
    BY <1>1, <2>1 DEF ReportedIsOver, Listed
<1> QED
  BY <1>1, <1>2, <1>3, <1>4, <1>5 DEF SourcesMatchState, NotWedged

\* A transaction that was not committed before is queued or started.
LEMMA CommitKeeps ==
  ASSUME IInv, NEW t \in Tid, NEW b, Commit(t, b),
         state[t] \in {"NEW", "WAITING_FOR_AUTH"},
         \A u \in Tid \ {t} : role'[u] = role[u],
         UNCHANGED report
  PROVE  /\ SourcesMatchState' /\ NotWedged' /\ ReportedIsOver'
         /\ \A u \in Tid \ {t} : state'[u] = state[u]
         /\ state'[t] \in {"READY", "RUNNING"}
         /\ idle' \subseteq idle \cup {t}
<1> USE DEF IInv, Inv, TypeOK
<1>1. /\ \A u \in Tid \ {t} : state'[u] = state[u]
      /\ \/ Running = {} /\ state'[t] = "RUNNING" /\ idle' = idle \cup {t}
         \/ Running # {} /\ state'[t] = "READY" /\ idle' = idle
      /\ commitTimer' = commitTimer \ {t}
      /\ removeTimer' = removeTimer
  BY DEF Commit
<1>2. NotWedged'
  BY <1>1, ReadyRunning DEF NotWedged, Ready, Running
<1>3. SourcesMatchState'
  BY <1>1 DEF SourcesMatchState
<1>4. ReportedIsOver'
  BY <1>1 DEF ReportedIsOver
<1> QED
  BY <1>1, <1>2, <1>3, <1>4

\* The callbacks that are still pending when an item finishes find theirs as
\* they expect it, and no item is scheduled that already ran.
LEMMA FinishCallbacks ==
  ASSUME IInv, NEW t \in Tid, Listed(t),
         NEW p \in SUBSET idle, ListFinished(t, p),
         p \cap (connected' \cup finished') = {},
         auth' \subseteq auth, finishIdle' \subseteq finishIdle,
         connected' \subseteq connected \cup {t},
         finished' \subseteq finished \cup {t},
         emission' \subseteq connected', resume' # 0 => resume' \in p,
         UNCHANGED <<created, role>>
  PROVE  CallbacksFindStates' /\ NeverRunTwice'
<1> USE DEF IInv, Inv, TypeOK
<1>1. /\ state'[t] = "FINISHED"
      /\ \A u \in Tid \ {t} : \/ state'[u] = state[u]
                              \/ state[u] = "READY" /\ state'[u] = "RUNNING"
      /\ \A u \in idle' : \/ u \in p
                          \/ u \in Tid \ {t} /\ state[u] = "READY"
                             /\ state'[u] = "RUNNING"
  BY FinishStates
<1>2. p \subseteq idle'
  BY DEF ListFinished
<1>3. \A u \in connected' \cup finished' : u = t \/ state[u] # "READY"
  BY DEF CallbacksFindStates
<1>4. NeverRunTwice'
  BY <1>1, <1>3 DEF NeverRunTwice
<1>5. \A u \in Tid : u > created' => state'[u] = "none"
  BY <1>1 DEF CallbacksFindStates, Listed
<1>6. \A u \in auth' : state'[u] \in {"WAITING_FOR_AUTH", "FINISHED", "gone"}
  BY <1>1 DEF CallbacksFindStates
<1>7. \A u \in finishIdle' :
        /\ \/ state'[u] \in {"NEW", "FINISHED", "gone"}
           \/ role'[u] = "accept-eula" /\ Listed(u)'
        /\ state'[u] = "NEW" => role'[u] # "unknown"
  BY <1>1 DEF CallbacksFindStates, Listed
<1>8. /\ \A u \in connected' : state'[u] \in {"RUNNING", "FINISHED", "gone"}
      /\ \A u \in finished' : state'[u] = "FINISHED"
  BY <1>1 DEF CallbacksFindStates
<1>9. emission' \subseteq connected' /\ (resume' # 0 => resume' \in idle')
  BY <1>2
<1>10. CallbacksFindStates'
  BY <1>5, <1>6, <1>7, <1>8, <1>9 DEF CallbacksFindStates, Listed
<1> QED
  BY <1>4, <1>10

\* The same for a transaction that is queued or started: no callback expects
\* it, but for the polkit answer that is being handled.
LEMMA CommitCallbacks ==
  ASSUME IInv, NEW t \in Tid, NEW b, Commit(t, b), MainLoop,
         state[t] \in {"NEW", "WAITING_FOR_AUTH"},
         t \notin auth', auth' \subseteq auth,
         t \in finishIdle => role'[t] = "accept-eula",
         \A u \in Tid \ {t} : role'[u] = role[u],
         UNCHANGED <<created, finishIdle, finished, connected, emission, resume>>
  PROVE  CallbacksFindStates' /\ NeverRunTwice'
<1> USE DEF IInv, Inv, TypeOK
<1>1. /\ \A u \in Tid \ {t} : state'[u] = state[u]
      /\ state'[t] \in {"READY", "RUNNING"}
      /\ idle' \subseteq idle \cup {t}
  BY DEF Commit
<1>2. t \notin connected /\ t \notin finished /\ ~(t > created)
  BY DEF CallbacksFindStates
<1>3. NeverRunTwice'
  BY <1>1, <1>2 DEF NeverRunTwice
<1>4. CallbacksFindStates'
  BY <1>1, <1>2 DEF CallbacksFindStates, Listed, MainLoop
<1> QED
  BY <1>3, <1>4

\* The daemon starts with an empty list.
LEMMA InvInit == Init => Inv
BY DEF Init, Inv, SourcesMatchState, NotWedged, Ready, Running, ReportedIsOver,
       NeverRunTwice, CallbacksFindStates

\* GetTid and the role methods.
LEMMA InvClient ==
  ASSUME IInv, TypeOK', ClientNext
  PROVE  Inv'
<1> USE DEF IInv, listVars, timerVars, authVars, linkVars, loopVars, jobVars, histVars
<1>1. ASSUME NEW u \in Uids, Create(u)
      PROVE  Inv'
  <2> DEFINE t == created + 1
  <2>1. t \in Tid /\ t > created
    BY <1>1, ListAssumption DEF TypeOK, Create, Tid
  <2>2. state[t] = "none" /\ report[t] = "none"
    BY <2>1 DEF Inv, CallbacksFindStates, ReportedIsOver
  <2> HIDE DEF t
  <2>3. /\ state' = [state EXCEPT ![t] = "NEW"]
        /\ commitTimer' = commitTimer \cup {t}
        /\ created' = t
    BY <1>1 DEF Create, t
  <2>4. SourcesMatchState'
    BY <1>1, <2>1, <2>2, <2>3 DEF Create, TypeOK, Inv, SourcesMatchState
  <2>5. NotWedged' /\ ReportedIsOver' /\ NeverRunTwice'
    BY <1>1, <2>1, <2>2, <2>3
       DEF Create, TypeOK, Inv, NotWedged, Ready, Running, ReportedIsOver, NeverRunTwice
  <2>6. CallbacksFindStates'
    <3>1. \A v \in Tid : v > created' => v > created /\ v # t
      BY <2>1, <2>3, ListAssumption DEF Tid, TypeOK
    <3> QED
      BY <1>1, <2>1, <2>2, <2>3, <3>1 DEF Create, TypeOK, Inv, CallbacksFindStates, Listed
  <2> QED
    BY <2>4, <2>5, <2>6 DEF Inv
<1>2. ASSUME NEW u \in Uids, CreateRefused(u)
      PROVE  Inv'
  <2>1. \A t \in Tid : t > created' => t > created
    BY <1>2, ListAssumption DEF CreateRefused, TypeOK, Tid
  <2> QED
    BY <1>2, <2>1, SameList DEF CreateRefused, MainLoop
<1>3. ASSUME NEW t \in Tid, NEW r \in Roles, NEW b \in BOOLEAN, Query(t, r, b)
      PROVE  Inv'
  <2>1. state[t] = "NEW" /\ role[t] = "unknown" /\ resume = 0 /\ emission = {}
    BY <1>3 DEF Query, Callable, MainLoop
  <2>2. \A u \in Tid \ {t} : role'[u] = role[u]
    BY <1>3 DEF Query, SetRole, TypeOK
  <2>3. /\ SourcesMatchState' /\ NotWedged' /\ ReportedIsOver'
        /\ \A u \in Tid \ {t} : state'[u] = state[u]
        /\ state'[t] \in {"READY", "RUNNING"}
        /\ idle' \subseteq idle \cup {t}
    BY <1>3, <2>1, <2>2, CommitKeeps DEF Query
  <2>4. t \notin auth /\ t \notin finishIdle /\ t \notin connected /\ t \notin finished
    BY <2>1 DEF Inv, CallbacksFindStates
  <2>5. CallbacksFindStates' /\ NeverRunTwice'
    BY <1>3, <2>1, <2>2, <2>4, CommitCallbacks DEF Query, Callable
  <2> QED
    BY <2>3, <2>5 DEF Inv
<1>4. ASSUME NEW t \in Tid, NEW r \in Roles, AnswerFromCache(t, r)
      PROVE  Inv'
  <2>1. state[t] = "NEW" /\ r # "unknown"
    BY <1>4, ListAssumption DEF AnswerFromCache, Callable, RoleKinds
  <2>2. SourcesMatchState' /\ NotWedged' /\ ReportedIsOver' /\ NeverRunTwice'
    BY <1>4, <2>1 DEF AnswerFromCache, SetRole, TypeOK, Inv, SourcesMatchState,
                      NotWedged, Ready, Running, ReportedIsOver, NeverRunTwice
  <2>3. CallbacksFindStates'
    BY <1>4, <2>1
       DEF AnswerFromCache, SetRole, TypeOK, Inv, CallbacksFindStates, Listed
  <2> QED
    BY <2>2, <2>3 DEF Inv
<1>5. ASSUME NEW t \in Tid, NEW r, SetRole(t, r), ObtainAuthorization(t), MainLoop,
             state[t] = "NEW", role[t] = "unknown",
             finishIdle' = finishIdle \/ (finishIdle' = finishIdle \cup {t}
                                           /\ r = "accept-eula"),
             UNCHANGED <<created, timerVars, linkVars, loopVars, report>>
      PROVE  Inv'
  <2>1. /\ state' = [state EXCEPT ![t] = "WAITING_FOR_AUTH"]
        /\ role' = [role EXCEPT ![t] = r]
        /\ auth' = auth \cup {t}
    BY <1>5 DEF SetRole, ObtainAuthorization
  <2>2. SourcesMatchState' /\ NotWedged' /\ ReportedIsOver' /\ NeverRunTwice'
    BY <1>5, <2>1 DEF TypeOK, Inv, SourcesMatchState, NotWedged, Ready, Running,
                      ReportedIsOver, NeverRunTwice
  <2>3. CallbacksFindStates'
    BY <1>5, <2>1 DEF TypeOK, Inv, CallbacksFindStates, Listed, MainLoop
  <2> QED
    BY <2>2, <2>3 DEF Inv
<1>6. ASSUME NEW t \in Tid, NEW r \in Roles, Privileged(t, r)
      PROVE  Inv'
  BY <1>5, <1>6 DEF Privileged, Callable
<1>7. ASSUME NEW t \in Tid, AcceptEula(t)
      PROVE  Inv'
  BY <1>5, <1>7 DEF AcceptEula, Callable
<1>8. ASSUME NEW t \in Tid, AcceptEulaFails(t)
      PROVE  Inv'
  <2>1. /\ state[t] = "NEW" /\ role[t] = "unknown" /\ emission = {} /\ resume = 0
        /\ state' = [state EXCEPT ![t] = "gone"]
        /\ \A u \in Tid \ {t} : report'[u] = report[u]
    BY <1>8 DEF AcceptEulaFails, Callable, MainLoop, Report, TypeOK
  <2>2. SourcesMatchState' /\ NotWedged' /\ ReportedIsOver' /\ NeverRunTwice'
    BY <1>8, <2>1 DEF AcceptEulaFails, TypeOK, Inv, SourcesMatchState, NotWedged,
                      Ready, Running, ReportedIsOver, NeverRunTwice
  <2>3. CallbacksFindStates'
    BY <1>8, <2>1 DEF AcceptEulaFails, TypeOK, Inv, CallbacksFindStates, Listed
  <2> QED
    BY <2>2, <2>3 DEF Inv
<1>9. ASSUME NEW t \in Tid, MethodFails(t)
      PROVE  Inv'
  BY <1>9, ReleaseKeeps DEF MethodFails
<1>10. ASSUME NEW t \in Tid, Cancel(t)
       PROVE  Inv'
  <2>1. CASE CancelQueued(t)
    <3>1. Listed(t) /\ MainLoop /\ FinishedEmit(t, "cancelled")
      BY <1>10, <2>1 DEF Cancel, CancelQueued
    <3>2. t \notin idle /\ t \notin connected /\ t \notin finished
      BY <2>1 DEF CancelQueued, BeforeRunning, Inv, SourcesMatchState, CallbacksFindStates
    <3>3. SourcesMatchState' /\ NotWedged' /\ ReportedIsOver'
      BY <1>10, <3>1, <3>2, FinishKeeps DEF Cancel, FinishedEmit
    <3>4. CallbacksFindStates' /\ NeverRunTwice'
      BY <1>10, <3>1, FinishCallbacks
         DEF Cancel, FinishedEmit, Inv, NeverRunTwice, MainLoop
    <3> QED
      BY <3>3, <3>4 DEF Inv
  <2>2. CASE CancelBackend(t, "cancelled")
    BY <1>10, <2>2, SameList DEF Cancel, CancelBackend, MainLoop
  <2> QED
    BY <1>10, <2>1, <2>2 DEF Cancel
<1>11. CASE CancelBackground
  BY <1>11, SameList DEF CancelBackground, MainLoop
<1> QED
  BY <1>1, <1>2, <1>3, <1>4, <1>6, <1>7, <1>8, <1>9, <1>10, <1>11 DEF ClientNext

\* The answers of polkit, the idle callbacks and the timers of the list.
LEMMA InvCallback ==
  ASSUME IInv, TypeOK', CallbackNext
  PROVE  Inv'
<1> USE DEF IInv, listVars, timerVars, authVars, linkVars, loopVars, jobVars, histVars
<1>1. ASSUME NEW t \in Tid, AuthDenied(t)
      PROVE  Inv'
  <2>1. /\ Listed(t) /\ MainLoop /\ FinishedEmit(t, "failed")
        /\ state[t] \in {"WAITING_FOR_AUTH", "FINISHED"}
    BY <1>1 DEF AuthDenied, Inv, CallbacksFindStates, Listed
  <2>2. t \in idle => state[t] = "FINISHED"
    BY <2>1 DEF Inv, SourcesMatchState
  <2>3. SourcesMatchState' /\ NotWedged' /\ ReportedIsOver'
    BY <1>1, <2>1, <2>2, FinishKeeps DEF AuthDenied, FinishedEmit
  <2>4. CallbacksFindStates' /\ NeverRunTwice'
    BY <1>1, <2>1, FinishCallbacks
       DEF AuthDenied, FinishedEmit, Inv, NeverRunTwice, MainLoop
  <2> QED
    BY <2>3, <2>4 DEF Inv
<1>2. ASSUME NEW t \in Tid, NEW b \in BOOLEAN, AuthGranted(t, b)
      PROVE  Inv'
  <2>1. /\ Listed(t) /\ MainLoop /\ auth' = auth \ {t}
        /\ state[t] \in {"WAITING_FOR_AUTH", "FINISHED"}
    BY <1>2 DEF AuthGranted, Inv, CallbacksFindStates, Listed
  <2>2. CASE state[t] = "FINISHED"
    BY <1>2, <2>1, <2>2, SameList DEF AuthGranted, MainLoop
  <2>3. CASE state[t] = "WAITING_FOR_AUTH"
    <3>1. Commit(t, b)
      BY <1>2, <2>3 DEF AuthGranted
    <3>2. SourcesMatchState' /\ NotWedged' /\ ReportedIsOver'
      BY <1>2, <2>3, <3>1, CommitKeeps DEF AuthGranted
    <3>3. t \in finishIdle => role[t] = "accept-eula"
      BY <2>3 DEF Inv, CallbacksFindStates
    <3>4. CallbacksFindStates' /\ NeverRunTwice'
      BY <1>2, <2>1, <2>3, <3>1, <3>3, CommitCallbacks DEF AuthGranted
    <3> QED
      BY <3>2, <3>4 DEF Inv
  <2> QED
    BY <2>1, <2>2, <2>3
<1>3. ASSUME NEW t \in Tid, FinishedIdle(t)
      PROVE  Inv'
  <2>1. /\ Listed(t) /\ MainLoop /\ FinishedEmit(t, "success")
        /\ state[t] \in {"NEW", "FINISHED"} \/ role[t] = "accept-eula"
    BY <1>3 DEF FinishedIdle, Inv, CallbacksFindStates, Listed
  <2>2. t \in idle => state[t] = "FINISHED" \/ role[t] = "accept-eula"
    BY <2>1 DEF Inv, SourcesMatchState
  <2>3. SourcesMatchState' /\ NotWedged' /\ ReportedIsOver'
    BY <1>3, <2>1, <2>2, FinishKeeps DEF FinishedIdle, FinishedEmit
  <2>4. CallbacksFindStates' /\ NeverRunTwice'
    BY <1>3, <2>1, FinishCallbacks
       DEF FinishedIdle, FinishedEmit, Inv, NeverRunTwice, MainLoop
  <2> QED
    BY <2>3, <2>4 DEF Inv
<1>4. ASSUME NEW t \in Tid, CallbackOnFreed(t)
      PROVE  Inv'
  BY <1>4, CrashKeeps, SameList DEF CallbackOnFreed, MainLoop
<1>5. ASSUME NEW t \in Tid, NoCommitTimeout(t) \/ KeepFinishedTimeout(t)
      PROVE  Inv'
  <2>1. state[t] \in {"NEW", "WAITING_FOR_AUTH", "FINISHED"}
    BY <1>5 DEF NoCommitTimeout, KeepFinishedTimeout, Inv, SourcesMatchState
  <2> QED
    BY <1>5, <2>1, ReleaseKeeps DEF NoCommitTimeout, KeepFinishedTimeout
<1> QED
  BY <1>1, <1>2, <1>3, <1>4, <1>5 DEF CallbackNext

\* The start of a transaction.
LEMMA InvRun ==
  ASSUME IInv, TypeOK', RunNext
  PROVE  Inv'
<1> USE DEF IInv, listVars, timerVars, authVars, linkVars, loopVars, jobVars, histVars
<1>1. ASSUME NEW t \in Tid, RunFlushesFinish(t)
      PROVE  Inv'
  BY <1>1, SameList DEF RunFlushesFinish
<1>2. ASSUME NEW t \in Tid, MayRun(t)
      PROVE  /\ t \in idle /\ emission = {}
             /\ state[t] \in {"RUNNING", "FINISHED"}
             /\ t \notin connected /\ t \notin finished
             /\ state[t] = "FINISHED" => role[t] = "accept-eula"
  <2>1. t # 0
    BY ListAssumption DEF Tid
  <2>2. t \in idle /\ emission = {}
    BY <1>2, <2>1 DEF MayRun, Inv, CallbacksFindStates
  <2> QED
    BY <2>2 DEF Inv, SourcesMatchState, NeverRunTwice
<1>3. ASSUME NEW t \in Tid, NEW e, MayRun(t), RunEnds(t, e),
             connected' \subseteq connected \cup {t}
      PROVE  Inv'
  <2>1. t \in idle /\ Listed(t) /\ emission = {}
    BY <1>2, <1>3 DEF Listed
  <2>2. ListFinished(t, idle \ {t}) /\ idle \ {t} \in SUBSET idle
    BY <1>3 DEF RunEnds
  <2>3. PICK f : Report(t, f)
    BY <1>3 DEF RunEnds
  <2>4. UNCHANGED role /\ UNCHANGED <<created, role>>
    BY <1>3 DEF RunEnds
  <2>5. SourcesMatchState' /\ NotWedged' /\ ReportedIsOver'
    BY <2>1, <2>2, <2>3, <2>4, FinishKeeps
  <2>6. (idle \ {t}) \cap (connected' \cup finished') = {}
    BY <1>3 DEF RunEnds, Inv, NeverRunTwice
  <2>7. /\ auth' \subseteq auth /\ finishIdle' \subseteq finishIdle
        /\ finished' \subseteq finished \cup {t}
        /\ emission' \subseteq connected'
        /\ resume' = 0
    BY <1>3, <2>1 DEF RunEnds
  <2>8. CallbacksFindStates' /\ NeverRunTwice'
    BY <1>3, <2>1, <2>2, <2>4, <2>6, <2>7, FinishCallbacks
  <2> QED
    BY <2>5, <2>8 DEF Inv
<1>4. ASSUME NEW t \in Tid, NEW p \in PluginAborts, NEW e \in {"failed", "skip"},
             RunEndedByPlugin(t, p, e)
      PROVE  Inv'
  BY <1>3, <1>4 DEF RunEndedByPlugin
<1>5. ASSUME NEW t \in Tid, RunEndedByOther(t)
      PROVE  Inv'
  BY <1>3, <1>5 DEF RunEndedByOther
<1>6. ASSUME NEW t \in Tid, RunDispatch(t)
      PROVE  Inv'
  <2>1. /\ MayRun(t) /\ role[t] # "accept-eula"
        /\ idle' = idle \ {t} /\ connected' = connected \cup {t}
        /\ resume' = 0
        /\ UNCHANGED <<created, state, role, commitTimer, removeTimer, auth,
                       finishIdle, finished, emission, report>>
    BY <1>6 DEF RunDispatch
  <2>2. emission = {} /\ state[t] = "RUNNING" /\ t \notin finished
    BY <1>2, <2>1 DEF Inv, CallbacksFindStates
  <2>3. SourcesMatchState' /\ NotWedged' /\ ReportedIsOver' /\ NeverRunTwice'
    BY <2>1, <2>2 DEF Inv, SourcesMatchState, NotWedged, Ready, Running,
                      ReportedIsOver, NeverRunTwice
  <2>4. CallbacksFindStates'
    BY <2>1, <2>2 DEF Inv, CallbacksFindStates, Listed
  <2> QED
    BY <2>3, <2>4 DEF Inv
<1>7. ASSUME NEW t \in Tid, RunAborts(t)
      PROVE  Inv'
  BY <1>7, CrashKeeps DEF RunAborts
<1> QED
  BY <1>1, <1>4, <1>5, <1>6, <1>7 DEF RunNext

\* The backend, and the emission of its "finished" signal.
LEMMA InvFinish ==
  ASSUME IInv, TypeOK', BackendError \/ FinishNext
  PROVE  Inv'
<1> USE DEF IInv, listVars, timerVars, authVars, linkVars, loopVars, jobVars, histVars
<1>1. CASE BackendError \/ BackendFinished \/ ErrorTimeout \/ FinishedDelay
  <2>1. /\ MainLoop /\ emission' \in {emission, connected}
        /\ UNCHANGED <<created, state, role, timerVars, linkVars, auth,
                       finishIdle, report, resume>>
    BY <1>1 DEF BackendError, BackendFinished, ErrorTimeout, FinishedDelay
  <2> QED
    BY <2>1, SameList DEF MainLoop
<1>2. ASSUME NEW t \in Tid, NEW e, FinishedCb(t, e)
      PROVE  Inv'
  <2>1. /\ Listed(t) /\ FinishedEmit(t, e) /\ t \in emission
        /\ emission' = emission \ {t} /\ finished' = finished \cup {t}
        /\ connected' = connected \ {t}
        /\ UNCHANGED <<created, role, auth, finishIdle, resume>>
    BY <1>2 DEF FinishedCb
  <2>2. t \notin idle /\ emission \subseteq connected
    BY <2>1 DEF Inv, CallbacksFindStates, NeverRunTwice
  <2>3. SourcesMatchState' /\ NotWedged' /\ ReportedIsOver'
    BY <2>1, <2>2, FinishKeeps DEF FinishedEmit
  <2>4. /\ idle \cap (connected' \cup finished') = {}
        /\ resume' # 0 => resume' \in idle
    BY <2>1, <2>2 DEF Inv, NeverRunTwice, CallbacksFindStates
  <2>5. CallbacksFindStates' /\ NeverRunTwice'
    BY <2>1, <2>2, <2>4, FinishCallbacks DEF FinishedEmit
  <2> QED
    BY <2>3, <2>5 DEF Inv
<1>3. ASSUME NEW t \in Tid, FinishedCbOnFreed(t)
      PROVE  Inv'
  <2>1. CASE Crash
    BY <2>1, CrashKeeps
  <2>2. CASE ~Crash
    BY <1>3, <2>2, SameList DEF FinishedCbOnFreed, Inv, CallbacksFindStates
  <2> QED
    BY <2>1, <2>2
<1> QED
  BY <1>1, <1>2, <1>3 DEF FinishNext

\* The two walks of CancelBackground.
LEMMA InvScan ==
  ASSUME IInv, TypeOK', ScanNext
  PROVE  Inv'
<1> USE DEF IInv, listVars, timerVars, authVars, linkVars, loopVars, jobVars, histVars
<1>1. CASE ScanEnd
  BY <1>1, SameList DEF ScanEnd, Inv, CallbacksFindStates
<1>2. ASSUME NEW t \in Tid, ScanItem(t), CancelQueued(t)
      PROVE  Inv'
  <2>1. /\ FinishedEmit(t, "cancelled") /\ Listed(t)
        /\ UNCHANGED <<created, role, auth, finishIdle, linkVars, emission, resume>>
    BY <1>2 DEF ScanItem, CancelQueued, BeforeRunning, Listed
  <2>2. t \notin idle
    BY <1>2 DEF CancelQueued, BeforeRunning, Inv, SourcesMatchState
  <2>3. SourcesMatchState' /\ NotWedged' /\ ReportedIsOver'
    BY <2>1, <2>2, FinishKeeps DEF FinishedEmit
  <2>4. /\ idle \cap (connected \cup finished) = {}
        /\ emission \subseteq connected /\ (resume # 0 => resume \in idle)
    BY DEF Inv, NeverRunTwice, CallbacksFindStates
  <2>5. CallbacksFindStates' /\ NeverRunTwice'
    BY <2>1, <2>4, FinishCallbacks DEF FinishedEmit
  <2> QED
    BY <2>3, <2>5 DEF Inv
<1>3. ASSUME NEW t \in Tid, ScanItem(t), CancelBackend(t, "cancelled-priority")
      PROVE  Inv'
  BY <1>3, SameList DEF ScanItem, CancelBackend, Inv, CallbacksFindStates
<1> QED
  BY <1>1, <1>2, <1>3 DEF ScanNext, ScanItem

\* The inductive step.
LEMMA InvNext == IInv /\ [Next]_vars => IInv'
<1> SUFFICES ASSUME IInv, [Next]_vars PROVE IInv'
  OBVIOUS
<1>1. TypeOK'
  BY TypeNext DEF IInv
<1>2. CASE UNCHANGED vars
  <2>1. /\ UNCHANGED <<created, state, role, timerVars, linkVars, auth,
                       finishIdle, emission, resume, report>>
    BY <1>2 DEF vars, listVars, timerVars, authVars, linkVars, loopVars, histVars
  <2>2. Inv /\ emission \subseteq connected /\ (resume # 0 => resume \in idle)
    BY DEF IInv, Inv, CallbacksFindStates
  <2>3. Inv'
    BY <2>1, <2>2, SameList DEF timerVars
  <2> QED
    BY <1>1, <2>3 DEF IInv
<1>3. CASE Next
  <2>1. CASE ClientNext
    BY <1>1, <2>1, InvClient DEF IInv
  <2>2. CASE CallbackNext
    BY <1>1, <2>2, InvCallback DEF IInv
  <2>3. CASE RunNext
    BY <1>1, <2>3, InvRun DEF IInv
  <2>4. CASE BackendError \/ FinishNext
    BY <1>1, <2>4, InvFinish DEF IInv
  <2>5. CASE ScanNext
    BY <1>1, <2>5, InvScan DEF IInv
  <2> QED
    BY <1>3, <2>1, <2>2, <2>3, <2>4, <2>5 DEF Next
<1> QED
  BY <1>2, <1>3

\* The inductive invariant holds in every behaviour.
THEOREM Invariant == Spec => []IInv
<1>1. Init => IInv
  BY TypeInit, InvInit DEF IInv
<1> QED
  BY <1>1, InvNext, PTL DEF Spec

\* A queued transaction always has a running one that will hand on to it.
THEOREM NeverWedged == Spec => []NotWedged
<1>1. IInv => NotWedged
  BY DEF IInv, Inv
<1> QED
  BY <1>1, Invariant, PTL

\* The timers and idle sources of an item are those of its state.
THEOREM SourcesFollowState == Spec => []SourcesMatchState
<1>1. IInv => SourcesMatchState
  BY DEF IInv, Inv
<1> QED
  BY <1>1, Invariant, PTL

\* An item is finished exactly when its client was sent Finished.
THEOREM OverIsReported == Spec => []ReportedIsOver
<1>1. IInv => ReportedIsOver
  BY DEF IInv, Inv
<1> QED
  BY <1>1, Invariant, PTL

\* No transaction is scheduled again after it was connected or has finished.
THEOREM RunsAtMostOnce == Spec => []NeverRunTwice
<1>1. IInv => NeverRunTwice
  BY DEF IInv, Inv
<1> QED
  BY <1>1, Invariant, PTL

\* Every pending callback finds its item in a state it is written for.
THEOREM CallbacksAreExpected == Spec => []CallbacksFindStates
<1>1. IInv => CallbacksFindStates
  BY DEF IInv, Inv
<1> QED
  BY <1>1, Invariant, PTL

-----------------------------------------------------------------------------
(* What one step does to the states, read by the two results below: every  *)
(* action is a stutter, the opening of an item, its commit, its finish, its *)
(* removal, or the abort of the daemon.                                     *)

\* The items that are waiting to be committed may change among themselves.
Stays ==
  /\ \A t \in Tid : \/ state'[t] = state[t]
                    \/ state[t] = "NEW" /\ state'[t] = "WAITING_FOR_AUTH"
  /\ background' = background

Opens(t) ==
  /\ state[t] = "none"
  /\ state' = [state EXCEPT ![t] = "NEW"]
  /\ background' = background

Enters(t, b) ==
  /\ state[t] \in {"NEW", "WAITING_FOR_AUTH"}
  /\ Commit(t, b)
  /\ \/ role[t] = "unknown"
     \/ t \in auth \ auth' /\ report' = report

Leaves(t) ==
  /\ state[t] \in {"NEW", "WAITING_FOR_AUTH", "FINISHED"}
  /\ state' = [state EXCEPT ![t] = "gone"]
  /\ background' = background \ {t} \/ background' = background

StepKind ==
  \/ Stays
  \/ \E t \in Tid :
       \/ Opens(t)
       \/ \E b \in BOOLEAN : Enters(t, b)
       \/ Listed(t) /\ \E p \in SUBSET idle : ListFinished(t, p)
       \/ Leaves(t)
  \/ Crash

\* Every step of the list is of one of these kinds.
LEMMA StepIsKnown ==
  ASSUME IInv, [Next]_vars
  PROVE  StepKind
<1> USE DEF IInv, listVars, timerVars, authVars, linkVars, loopVars, jobVars, histVars
<1>1. ASSUME NEW u \in Uids, Create(u) \/ CreateRefused(u)
      PROVE  StepKind
  <2>1. CASE Create(u)
    <3>1. created + 1 \in Tid /\ created + 1 > created
      BY <2>1, ListAssumption DEF TypeOK, Create, Tid
    <3>2. Opens(created + 1)
      BY <2>1, <3>1 DEF Create, Opens, Inv, CallbacksFindStates
    <3> QED
      BY <3>1, <3>2 DEF StepKind
  <2>2. CASE CreateRefused(u)
    BY <2>2 DEF CreateRefused, Stays, StepKind
  <2> QED
    BY <1>1, <2>1, <2>2
<1>2. ASSUME NEW t \in Tid, NEW r \in Roles, NEW b \in BOOLEAN, Query(t, r, b)
      PROVE  StepKind
  <2>1. Enters(t, b)
    BY <1>2 DEF Query, Callable, Enters
  <2> QED
    BY <2>1 DEF StepKind
<1>3. ASSUME NEW t \in Tid,
             \/ \E r \in Roles : AnswerFromCache(t, r) \/ Privileged(t, r)
             \/ AcceptEula(t)
      PROVE  StepKind
  <2>1. Stays
    BY <1>3 DEF AnswerFromCache, Privileged, AcceptEula, Callable,
                ObtainAuthorization, Stays, TypeOK
  <2> QED
    BY <2>1 DEF StepKind
<1>4. ASSUME NEW t \in Tid,
             \/ AcceptEulaFails(t) \/ MethodFails(t)
             \/ NoCommitTimeout(t) \/ KeepFinishedTimeout(t)
      PROVE  StepKind
  <2>1. state[t] \in {"NEW", "WAITING_FOR_AUTH", "FINISHED"}
    BY <1>4 DEF AcceptEulaFails, Callable, MethodFails, NoCommitTimeout,
                KeepFinishedTimeout, Inv, SourcesMatchState
  <2>2. Leaves(t)
    BY <1>4, <2>1 DEF AcceptEulaFails, MethodFails, NoCommitTimeout,
                      KeepFinishedTimeout, Release, ItemFree, Leaves
  <2> QED
    BY <2>2 DEF StepKind
<1>5. ASSUME NEW t \in Tid, Listed(t), NEW e, FinishedEmit(t, e)
      PROVE  StepKind
  BY <1>5 DEF FinishedEmit, StepKind
<1>6. ASSUME NEW t \in Tid, NEW e, CancelQueued(t) \/ CancelBackend(t, e)
      PROVE  StepKind
  <2>1. CASE CancelQueued(t)
    BY <1>5, <2>1 DEF CancelQueued, BeforeRunning, Listed
  <2>2. CASE CancelBackend(t, e)
    BY <2>2 DEF CancelBackend, Stays, StepKind
  <2> QED
    BY <1>6, <2>1, <2>2
<1>7. ASSUME NEW t \in Tid, Cancel(t) \/ ScanItem(t)
      PROVE  StepKind
  BY <1>6, <1>7 DEF Cancel, ScanItem
<1>8. ASSUME NEW t \in Tid, NEW b \in BOOLEAN, AuthGranted(t, b)
      PROVE  StepKind
  <2>1. state[t] \in {"WAITING_FOR_AUTH", "FINISHED"}
    BY <1>8 DEF AuthGranted, Inv, CallbacksFindStates, Listed
  <2>2. CASE state[t] = "FINISHED"
    BY <1>8, <2>2 DEF AuthGranted, Stays, StepKind
  <2>3. CASE state[t] = "WAITING_FOR_AUTH"
    <3>1. Enters(t, b)
      BY <1>8, <2>3 DEF AuthGranted, Enters
    <3> QED
      BY <3>1 DEF StepKind
  <2> QED
    BY <2>1, <2>2, <2>3
<1>9. ASSUME NEW t \in Tid, NEW e, AuthDenied(t) \/ FinishedIdle(t) \/ FinishedCb(t, e)
      PROVE  StepKind
  BY <1>5, <1>9 DEF AuthDenied, FinishedIdle, FinishedCb
<1>10. ASSUME NEW t \in Tid,
              CallbackOnFreed(t) \/ FinishedCbOnFreed(t) \/ RunAborts(t)
       PROVE  StepKind
  <2>1. Crash \/ UNCHANGED <<state, background>>
    BY <1>10 DEF CallbackOnFreed, FinishedCbOnFreed, RunAborts
  <2> QED
    BY <2>1 DEF StepKind, Stays
<1>11. ASSUME NEW t \in Tid, NEW e, MayRun(t), RunEnds(t, e)
       PROVE  StepKind
  <2>1. t # 0
    BY ListAssumption DEF Tid
  <2>2. t \in idle
    BY <1>11, <2>1 DEF MayRun, Inv, CallbacksFindStates
  <2>3. Listed(t)
    BY <2>2 DEF Inv, SourcesMatchState, Listed
  <2>4. ListFinished(t, idle \ {t})
    BY <1>11 DEF RunEnds
  <2> QED
    BY <2>3, <2>4 DEF StepKind
<1>12. ASSUME NEW t \in Tid,
              \/ \E p \in PluginAborts, e \in {"failed", "skip"} :
                   RunEndedByPlugin(t, p, e)
              \/ RunEndedByOther(t)
       PROVE  StepKind
  BY <1>11, <1>12 DEF RunEndedByPlugin, RunEndedByOther
<1>13. ASSUME NEW t \in Tid, RunFlushesFinish(t) \/ RunDispatch(t)
       PROVE  StepKind
  BY <1>13 DEF RunFlushesFinish, RunDispatch, Stays, StepKind
<1>14. CASE \/ CancelBackground \/ ScanEnd \/ BackendError \/ BackendFinished
            \/ ErrorTimeout \/ FinishedDelay \/ UNCHANGED vars
  BY <1>14 DEF CancelBackground, ScanEnd, BackendError, BackendFinished,
               ErrorTimeout, FinishedDelay, vars, Stays, StepKind
<1> QED
  BY <1>1, <1>2, <1>3, <1>4, <1>7, <1>8, <1>9, <1>10, <1>12, <1>13, <1>14
     DEF Next, ClientNext, CallbackNext, RunNext, FinishNext, ScanNext

-----------------------------------------------------------------------------
(* Authorization comes first.                                              *)

AuthorisedFirstStep ==
  \A t \in Tid :
    /\ role[t] \in {"authorised", "update-system"}
    /\ state[t] \notin {"READY", "RUNNING"}
    /\ state'[t] \in {"READY", "RUNNING"}
    => t \in auth \ auth' /\ report'[t] = report[t]

\* No step of the list breaks the rule, seen from the inductive invariant.
LEMMA AuthorisedFirstNext == IInv /\ [Next]_vars => AuthorisedFirstStep
<1> SUFFICES ASSUME IInv, [Next]_vars,
                    NEW t \in Tid,
                    role[t] \in {"authorised", "update-system"},
                    state[t] \notin {"READY", "RUNNING"},
                    state'[t] \in {"READY", "RUNNING"}
             PROVE  t \in auth \ auth' /\ report'[t] = report[t]
  BY DEF AuthorisedFirstStep
<1> USE DEF IInv, TypeOK
<1>1. CASE Stays
  BY <1>1 DEF Stays
<1>2. ASSUME NEW u \in Tid, Opens(u) \/ Leaves(u)
      PROVE  FALSE
  BY <1>2 DEF Opens, Leaves
<1>3. ASSUME NEW u \in Tid, NEW b \in BOOLEAN, Enters(u, b)
      PROVE  t \in auth \ auth' /\ report'[t] = report[t]
  <2>1. \A v \in Tid \ {u} : state'[v] = state[v]
    BY <1>3 DEF Enters, Commit
  <2>2. t = u
    BY <2>1
  <2> QED
    BY <1>3, <2>2 DEF Enters
<1>4. ASSUME NEW u \in Tid, NEW p \in SUBSET idle, ListFinished(u, p)
      PROVE  FALSE
  BY <1>4, FinishStates
<1>5. CASE Crash
  BY <1>5 DEF Crash
<1> QED
  BY <1>1, <1>2, <1>3, <1>4, <1>5, StepIsKnown DEF StepKind

\* A role that needs authorization is queued only by the answer that grants
\* it, and no failure is reported in that step.
THEOREM AuthorisationComesFirst == Spec => AuthorisedFirst
<1>1. IInv /\ [Next]_vars => [AuthorisedFirstStep]_vars
  BY AuthorisedFirstNext
<1>2. AuthorisedFirst <=> [][AuthorisedFirstStep]_vars
  BY DEF AuthorisedFirst, AuthorisedFirstStep
<1> QED
  BY <1>1, <1>2, Invariant, PTL DEF Spec

-----------------------------------------------------------------------------
(* The refinement of the abstract schedule.                                *)

phaseBar == [t \in Tid |-> Phase(t)]
lowBar == background \cap Ready

\* The phase of each item, and the abstract sets and choice.
LEMMA PhaseOf ==
  ASSUME TypeOK
  PROVE  /\ \A t \in Tid :
              /\ phaseBar[t] = "absent" <=> state[t] = "none"
              /\ phaseBar[t] = "open" <=> state[t] \in {"NEW", "WAITING_FOR_AUTH"}
              /\ phaseBar[t] = "queued" <=> state[t] = "READY"
              /\ phaseBar[t] = "running" <=> state[t] = "RUNNING"
              /\ phaseBar[t] = "over" <=> state[t] = "FINISHED"
              /\ phaseBar[t] = "gone" <=> state[t] = "gone"
         /\ Schedule!In("queued") = Ready
         /\ Schedule!In("running") = Running
         /\ Schedule!Tid = Tid
<1>1. \A t \in Tid :
        /\ phaseBar[t] = "absent" <=> state[t] = "none"
        /\ phaseBar[t] = "open" <=> state[t] \in {"NEW", "WAITING_FOR_AUTH"}
        /\ phaseBar[t] = "queued" <=> state[t] = "READY"
        /\ phaseBar[t] = "running" <=> state[t] = "RUNNING"
        /\ phaseBar[t] = "over" <=> state[t] = "FINISHED"
        /\ phaseBar[t] = "gone" <=> state[t] = "gone"
  BY DEF phaseBar, Phase, TypeOK, States
<1>2. Schedule!Tid = Tid
  BY DEF Schedule!Tid, Tid
<1>3. Schedule!In("queued") = {t \in Tid : phaseBar[t] = "queued"}
  BY <1>2 DEF Schedule!In, phaseBar
<1>4. Schedule!In("running") = {t \in Tid : phaseBar[t] = "running"}
  BY <1>2 DEF Schedule!In, phaseBar
<1> QED
  BY <1>1, <1>2, <1>3, <1>4 DEF Ready, Running

\* The item the list takes next is the one the schedule names.
LEMMA NextIsNext ==
  ASSUME TypeOK, NEW t \in Tid
  PROVE  Schedule!Next1(Ready \ {t}) = NextItem(t)
<1>1. \A S : Schedule!Oldest(S) = First(S)
  BY DEF Schedule!Oldest, First
<1>2. (Ready \ {t}) \subseteq background \cap Ready
        <=> (Ready \ {t}) \ background = {}
  OBVIOUS
<1>3. (Ready \ {t}) \ (background \cap Ready) = (Ready \ {t}) \ background
  OBVIOUS
<1> QED
  BY <1>1, <1>2, <1>3 DEF Schedule!Next1, NextItem

\* A step that moves no item is a stutter of the schedule.
LEMMA RefineStays == TypeOK /\ TypeOK' /\ Stays => UNCHANGED <<phaseBar, lowBar>>
<1> SUFFICES ASSUME TypeOK, TypeOK', Stays PROVE UNCHANGED <<phaseBar, lowBar>>
  OBVIOUS
<1>1. \A t \in Tid : Phase(t)' = Phase(t)
  BY DEF Stays, Phase, TypeOK, States
<1>2. Ready' = Ready
  BY DEF Stays, Ready
<1> QED
  BY <1>1, <1>2 DEF phaseBar, lowBar, Stays

\* Only the phase of t moves, and it is p afterwards.
LEMMA PhaseMoves ==
  ASSUME TypeOK, NEW t \in Tid, NEW s \in States, NEW p,
         state' = [state EXCEPT ![t] = s],
         Phase(t)' = p
  PROVE  phaseBar' = [phaseBar EXCEPT ![t] = p]
<1>1. \A u \in Tid \ {t} : Phase(u)' = Phase(u)
  BY DEF Phase, TypeOK
<1> QED
  BY <1>1 DEF phaseBar

\* GetTid opens an entry.
LEMMA RefineOpens ==
  ASSUME IInv, NEW t \in Tid, Opens(t)
  PROVE  Schedule!Open(t)
<1> USE DEF IInv, TypeOK
<1>1. Phase(t)' = "open"
  BY DEF Opens, Phase
<1>2. phaseBar' = [phaseBar EXCEPT ![t] = "open"]
  BY <1>1, PhaseMoves DEF Opens, States
<1>3. lowBar' = lowBar
  BY DEF Opens, lowBar, Ready
<1> QED
  BY <1>2, <1>3, PhaseOf DEF Schedule!Open, Opens, phaseBar, lowBar

\* A commit queues the entry, or starts it when nothing else runs.
LEMMA RefineEnters ==
  ASSUME IInv, NEW t \in Tid, NEW b \in BOOLEAN, Enters(t, b)
  PROVE  Schedule!Enter(t)
<1> USE DEF IInv, TypeOK
<1>1. phaseBar[t] = "open" /\ t \notin Ready
  BY PhaseOf DEF Enters, Ready
<1>2. CASE Running = {}
  <2>1. state' = [state EXCEPT ![t] = "RUNNING"] /\ Phase(t)' = "running"
    BY <1>2 DEF Enters, Commit, Phase
  <2>2. phaseBar' = [phaseBar EXCEPT ![t] = "running"]
    BY <2>1, PhaseMoves DEF States
  <2>3. Ready' = Ready /\ background' \in {background \cup {t}, background \ {t}}
    BY <1>1, <2>1 DEF Ready, Enters, Commit
  <2>4. lowBar' = lowBar
    BY <1>1, <2>3 DEF lowBar
  <2> QED
    BY <1>1, <1>2, <2>2, <2>4, PhaseOf DEF Schedule!Enter, phaseBar, lowBar
<1>3. CASE Running # {}
  <2>1. state' = [state EXCEPT ![t] = "READY"] /\ Phase(t)' = "queued"
    BY <1>3 DEF Enters, Commit, Phase
  <2>2. phaseBar' = [phaseBar EXCEPT ![t] = "queued"]
    BY <2>1, PhaseMoves DEF States
  <2>3. /\ Ready' = Ready \cup {t}
        /\ background' \in {background \cup {t}, background \ {t}}
    BY <2>1 DEF Ready, Enters, Commit
  <2>4. lowBar' \in {lowBar, lowBar \cup {t}}
    BY <1>1, <2>3 DEF lowBar
  <2> QED
    BY <1>1, <1>3, <2>2, <2>4, PhaseOf DEF Schedule!Enter, phaseBar, lowBar
<1> QED
  BY <1>2, <1>3

\* The list's callback retires an entry and starts the next, or is a stutter
\* when the entry is over already.
LEMMA RefineFinishes ==
  ASSUME IInv, TypeOK', NEW t \in Tid, Listed(t),
         NEW p \in SUBSET idle, ListFinished(t, p)
  PROVE  Schedule!Retire(t) \/ UNCHANGED <<phaseBar, lowBar>>
<1> USE DEF IInv
<1>1. CASE state[t] = "FINISHED"
  <2>1. Stays
    BY <1>1 DEF ListFinished, Stays
  <2> QED
    BY <2>1, RefineStays
<1>2. CASE state[t] # "FINISHED"
  <2> DEFINE next == NextItem(t)
  <2>1. /\ state' = [u \in Tid |-> IF u = t THEN "FINISHED"
                                   ELSE IF u \in next THEN "RUNNING"
                                   ELSE state[u]]
        /\ background' = background \ {t}
    BY <1>2 DEF ListFinished
  <2>2. next \subseteq Ready \ {t} /\ Ready \subseteq Tid
    BY NextItemType, ReadyRunning
  <2>3. next = Schedule!Next1(Schedule!In("queued") \ {t})
    BY NextIsNext, PhaseOf
  <2> HIDE DEF next
  <2>4. phaseBar' = [u \in Tid |-> IF u = t THEN "over"
                                   ELSE IF u \in next THEN "running"
                                   ELSE phaseBar[u]]
    <3>1. Phase(t)' = "over"
      BY <2>1 DEF Phase
    <3>2. \A u \in next \ {t} : Phase(u)' = "running"
      BY <2>1, <2>2 DEF Phase
    <3>3. \A u \in Tid \ (next \cup {t}) : Phase(u)' = Phase(u)
      BY <2>1 DEF Phase
    <3> QED
      BY <3>1, <3>2, <3>3 DEF phaseBar
  <2>5. Ready' = Ready \ (next \cup {t})
    BY <2>1, <2>2 DEF Ready
  <2>6. lowBar' = lowBar \ (next \cup {t})
    BY <2>1, <2>5 DEF lowBar
  <2>7. phaseBar[t] \in {"open", "queued", "running"}
    BY <1>2, PhaseOf DEF Listed, TypeOK, States
  <2> QED
    BY <2>3, <2>4, <2>6, <2>7, PhaseOf DEF Schedule!Retire, phaseBar, lowBar
<1> QED
  BY <1>1, <1>2

\* A freed item is forgotten.
LEMMA RefineLeaves ==
  ASSUME IInv, NEW t \in Tid, Leaves(t)
  PROVE  Schedule!Forget(t)
<1> USE DEF IInv, TypeOK
<1>1. phaseBar[t] \in {"open", "over"} /\ t \notin Ready
  BY PhaseOf DEF Leaves, Ready
<1>2. Phase(t)' = "gone"
  BY DEF Leaves, Phase
<1>3. phaseBar' = [phaseBar EXCEPT ![t] = "gone"]
  BY <1>2, PhaseMoves DEF Leaves, States
<1>4. Ready' = Ready
  BY <1>1 DEF Leaves, Ready
<1>5. lowBar' = lowBar
  BY <1>1, <1>4 DEF Leaves, lowBar
<1> QED
  BY <1>1, <1>3, <1>5, PhaseOf DEF Schedule!Forget, phaseBar, lowBar

\* The aborted daemon is a halted schedule.
LEMMA RefineCrash == Crash => Schedule!Halt
<1> SUFFICES ASSUME Crash PROVE Schedule!Halt
  OBVIOUS
<1>1. \A t \in Tid : Phase(t)' = "absent"
  BY DEF Crash, Phase
<1> QED
  BY <1>1 DEF Crash, Schedule!Halt, Schedule!Tid, Tid, Ready

\* Every step of the list is a step of the schedule, or one it does not see.
LEMMA RefineNext == IInv /\ [Next]_vars => [Schedule!Next]_(Schedule!vars)
<1> SUFFICES ASSUME IInv, [Next]_vars
             PROVE  Schedule!Next \/ UNCHANGED <<phaseBar, lowBar>>
  BY DEF Schedule!vars, phaseBar, lowBar
<1>1. TypeOK /\ TypeOK'
  BY TypeNext DEF IInv
<1>2. Schedule!Tid = Tid
  BY <1>1, PhaseOf
<1>3. CASE Stays
  BY <1>1, <1>3, RefineStays
<1>4. ASSUME NEW t \in Tid, Opens(t)
      PROVE  Schedule!Next
  BY <1>2, <1>4, RefineOpens DEF Schedule!Next
<1>5. ASSUME NEW t \in Tid, NEW b \in BOOLEAN, Enters(t, b)
      PROVE  Schedule!Next
  BY <1>2, <1>5, RefineEnters DEF Schedule!Next
<1>6. ASSUME NEW t \in Tid, Listed(t), NEW p \in SUBSET idle, ListFinished(t, p)
      PROVE  Schedule!Next \/ UNCHANGED <<phaseBar, lowBar>>
  BY <1>1, <1>2, <1>6, RefineFinishes DEF Schedule!Next
<1>7. ASSUME NEW t \in Tid, Leaves(t)
      PROVE  Schedule!Next
  BY <1>2, <1>7, RefineLeaves DEF Schedule!Next
<1>8. CASE Crash
  BY <1>8, RefineCrash DEF Schedule!Next
<1> QED
  BY <1>3, <1>4, <1>5, <1>6, <1>7, <1>8, StepIsKnown DEF StepKind

\* The empty list is the empty schedule.
LEMMA RefineInit == Init => Schedule!Init
BY DEF Init, Schedule!Init, Schedule!Tid, Tid, Phase, Ready

\* The list implements the schedule its clients are promised.
THEOREM Refinement == Spec => ImplementsSchedule
<1>1. Init => Schedule!Init
  BY RefineInit
<1>2. IInv /\ [Next]_vars => [Schedule!Next]_(Schedule!vars)
  BY RefineNext
<1> QED
  BY <1>1, <1>2, Invariant, PTL DEF Spec, ImplementsSchedule, Schedule!Spec
=============================================================================
