--------------------- MODULE PkTransactionListMoreProofs ---------------------
(***************************************************************************)
(* More proofs about PkTransactionList, for every number of transactions,  *)
(* users and roles: that something is always under way that will end a     *)
(* running transaction, that whole-system updates never meet, and the      *)
(* limit per user.  They use the invariant of PkTransactionListProofs.     *)
(***************************************************************************)
EXTENDS PkTransactionListProofs, FiniteSetTheorems

-----------------------------------------------------------------------------
(* RunningHasCompletion.                                                   *)

\* What will end a running transaction that is not waiting for its start.  More
\* than the property says: an error alone is not enough, for the next start
\* would clear it; a role call must be out as well, or the end be on its way.
Served(t) ==
  /\ t \in connected
  /\ t \in emission \/ delay \/ (job # "finished" /\ outstanding > 0)

RunningInv == \A t \in Tid : state[t] = "RUNNING" => t \in idle \/ Served(t)

\* What runs after the step ran before it, or is scheduled by it.
RunsOn ==
  \A t \in Tid : state'[t] = "RUNNING" =>
    t \in idle' \/ (state[t] = "RUNNING" /\ t \notin idle)

\* The item that finishes hands on to one that gets its idle source.
LEMMA FinishRunsOn ==
  ASSUME TypeOK, NEW t \in Tid, NEW p, idle \subseteq p \cup {t},
         ListFinished(t, p)
  PROVE  RunsOn /\ state'[t] = "FINISHED"
<1> USE DEF RunsOn, TypeOK
<1>1. CASE state[t] = "FINISHED"
  BY <1>1 DEF ListFinished
<1>2. CASE state[t] # "FINISHED"
  BY <1>2 DEF ListFinished
<1> QED
  BY <1>1, <1>2

\* What is committed is queued, or scheduled.
LEMMA CommitRunsOn ==
  ASSUME TypeOK, NEW t \in Tid, NEW b, Commit(t, b)
  PROVE  RunsOn
BY DEF RunsOn, TypeOK, Commit

\* A step that takes away nothing of what serves.
LEMMA ServedStill ==
  ASSUME TypeOK, RunningInv, RunsOn,
         \A t \in Tid : state'[t] = "RUNNING" /\ t \in connected => t \in connected',
         \A t \in Tid : state'[t] = "RUNNING" /\ t \in emission => t \in emission',
         delay' = delay, outstanding' = outstanding,
         job # "finished" => job' # "finished"
  PROVE  RunningInv'
BY DEF RunningInv, RunsOn, Served

\* Nothing is left to run.
LEMMA CrashServes ==
  ASSUME Crash
  PROVE  RunningInv'
BY DEF Crash, RunningInv

LEMMA ServedNext ==
  ASSUME IInv, RunningInv, [Next]_vars
  PROVE  RunningInv'
<1> USE DEF IInv, listVars, timerVars, authVars, linkVars, loopVars, jobVars
<1>1. CASE UNCHANGED <<state, idle, connected, emission, delay, outstanding, job>>
  BY <1>1 DEF RunningInv, Served
<1>2. ASSUME NEW t \in Tid,
             \/ \E r \in Roles, b \in BOOLEAN : Query(t, r, b)
             \/ \E b \in BOOLEAN : AuthGranted(t, b)
      PROVE  RunningInv'
  <2>1. UNCHANGED <<connected, emission, delay, outstanding, job>>
    BY <1>2 DEF Query, AuthGranted
  <2>2. RunsOn \/ UNCHANGED <<state, idle>>
    BY <1>2, CommitRunsOn DEF Query, AuthGranted
  <2> QED
    BY <1>1, <2>1, <2>2, ServedStill
<1>3. ASSUME NEW t \in Tid,
             \/ \E r \in Roles : AnswerFromCache(t, r) \/ Privileged(t, r)
             \/ AcceptEula(t) \/ AcceptEulaFails(t) \/ MethodFails(t)
             \/ NoCommitTimeout(t) \/ KeepFinishedTimeout(t)
      PROVE  RunningInv'
  <2>1. UNCHANGED <<connected, emission, delay, outstanding, job>>
    BY <1>3 DEF AnswerFromCache, Privileged, AcceptEula, AcceptEulaFails,
                MethodFails, NoCommitTimeout, KeepFinishedTimeout, Release,
                ItemFree
  <2>2. \A u \in Tid : state'[u] = "RUNNING" => state[u] = "RUNNING" /\ (u \in idle => u \in idle')
    BY <1>3 DEF AnswerFromCache, Privileged, AcceptEula, AcceptEulaFails,
                MethodFails, NoCommitTimeout, KeepFinishedTimeout, Release,
                ItemFree, ObtainAuthorization, TypeOK
  <2> QED
    BY <2>1, <2>2, ServedStill DEF RunsOn
<1>4. ASSUME NEW t \in Tid, AuthDenied(t) \/ FinishedIdle(t)
      PROVE  RunningInv'
  <2>1. UNCHANGED <<connected, emission, delay, outstanding, job>>
        /\ ListFinished(t, idle)
    BY <1>4 DEF AuthDenied, FinishedIdle, FinishedEmit
  <2> QED
    BY <2>1, FinishRunsOn, ServedStill
<1>5. ASSUME NEW t \in Tid, NEW e, CancelQueued(t) \/ CancelBackend(t, e),
             UNCHANGED <<connected, emission, delay, outstanding, job>>
      PROVE  RunningInv'
  <2>1. CASE CancelQueued(t)
    <3>1. ListFinished(t, idle)
      BY <2>1 DEF CancelQueued, FinishedEmit
    <3> QED
      BY <1>5, <3>1, FinishRunsOn, ServedStill
  <2>2. CASE CancelBackend(t, e)
    BY <1>1, <1>5, <2>2 DEF CancelBackend
  <2> QED
    BY <1>5, <2>1, <2>2
<1>6. ASSUME NEW t \in Tid, Cancel(t) \/ ScanItem(t)
      PROVE  RunningInv'
  BY <1>5, <1>6 DEF Cancel, ScanItem
<1>7. ASSUME NEW t \in Tid, CallbackOnFreed(t) \/ FinishedCbOnFreed(t) \/ RunAborts(t)
      PROVE  RunningInv'
  <2>1. CASE Crash
    BY <2>1, CrashServes
  <2>2. CASE ~Crash
    <3>1. UNCHANGED <<state, idle, connected, delay, outstanding, job>>
      BY <1>7, <2>2 DEF CallbackOnFreed, FinishedCbOnFreed, RunAborts
    <3>2. \A u \in Tid : state[u] = "RUNNING" /\ u \in emission => u \in emission'
      BY <1>7, <2>2 DEF CallbackOnFreed, FinishedCbOnFreed, RunAborts, Listed
    <3> QED
      BY <3>1, <3>2 DEF RunningInv, Served
  <2> QED
    BY <2>1, <2>2
\* A flush, or the timer, emits to everything that is connected.
<1>8. CASE FinishedDelay \/ \E t \in Tid : RunFlushesFinish(t)
  <2>1. /\ UNCHANGED <<state, idle, connected>>
        /\ emission' = connected
    BY <1>8 DEF FinishedDelay, RunFlushesFinish
  <2> QED
    BY <2>1 DEF RunningInv, Served
<1>9. ASSUME NEW t \in Tid, NEW e, RunEnds(t, e), MayRun(t), connected \subseteq connected',
             job # "finished" => job' # "finished"
      PROVE  RunningInv'
  <2>1. /\ UNCHANGED <<emission, delay, outstanding>>
        /\ ListFinished(t, idle \ {t})
    BY <1>9 DEF RunEnds
  <2>2. RunsOn
    BY <2>1, FinishRunsOn
  <2> QED
    BY <1>9, <2>1, <2>2, ServedStill
<1>10. ASSUME NEW t \in Tid,
              \/ \E p \in PluginAborts, e \in {"failed", "skip"} : RunEndedByPlugin(t, p, e)
              \/ RunEndedByOther(t)
       PROVE  RunningInv'
  BY <1>9, <1>10 DEF RunEndedByPlugin, RunEndedByOther
<1>11. ASSUME NEW t \in Tid, RunDispatch(t)
       PROVE  RunningInv'
  <2>1. /\ UNCHANGED <<state, emission, delay>> /\ idle' = idle \ {t}
        /\ connected' = connected \cup {t} /\ job' = "clean"
        /\ outstanding' = outstanding + 1 /\ outstanding \in Nat
    BY <1>11 DEF RunDispatch, TypeOK
  <2>2. job' # "finished" /\ outstanding' > 0
    BY <2>1
  <2> QED
    BY <2>1, <2>2 DEF RunningInv, Served
\* The end of a role call, and of an error, is on its way from then on.
<1>12. CASE BackendFinished \/ ErrorTimeout
  <2>1. /\ UNCHANGED <<state, idle, connected, emission>>
        /\ SetFinished
    BY <1>12 DEF BackendFinished, ErrorTimeout
  <2>2. (delay => delay') /\ (job # "finished" => delay')
    BY <2>1 DEF SetFinished, TypeOK
  <2> QED
    BY <2>1, <2>2 DEF RunningInv, Served
<1>13. CASE BackendError
  BY <1>13, ServedStill DEF BackendError, RunsOn, RunningInv, Served
<1>14. ASSUME NEW t \in Tid, NEW e \in ExitCodes \cup {"required"}, FinishedCb(t, e)
       PROVE  RunningInv'
  <2>1. /\ emission' = emission \ {t} /\ connected' = connected \ {t}
        /\ UNCHANGED <<delay, outstanding, job>>
        /\ ListFinished(t, idle)
    BY <1>14 DEF FinishedCb, FinishedEmit
  <2>2. RunsOn /\ state'[t] = "FINISHED"
    BY <2>1, FinishRunsOn
  <2> QED
    BY <2>1, <2>2, ServedStill
<1>15. ASSUME NEW u \in Uids, Create(u) \/ CreateRefused(u)
       PROVE  RunningInv'
  BY <1>15, ServedStill DEF Create, CreateRefused, TypeOK, RunsOn
<1>16. CASE CancelBackground \/ ScanEnd \/ UNCHANGED vars
  BY <1>1, <1>16 DEF CancelBackground, ScanEnd, vars
<1> QED
  BY <1>2, <1>3, <1>4, <1>6, <1>7, <1>8, <1>10, <1>11, <1>12, <1>13, <1>14, <1>16,
     <1>15
     DEF Next, ClientNext, CallbackNext, RunNext, FinishNext, ScanNext

\* RunningHasCompletion: whatever a running transaction was interrupted by,
\* something is under way that will finish it.
THEOREM RunningIsCompleted == Spec => []RunningHasCompletion
<1>1. Init => RunningInv
  BY DEF Init, RunningInv
<1>2. TypeOK /\ RunningInv => RunningHasCompletion
  BY DEF TypeOK, RunningInv, Served, RunningHasCompletion, Running
<1>3. IInv /\ RunningInv /\ [Next]_vars => RunningInv'
  BY ServedNext
<1>4. IInv => TypeOK
  BY DEF IInv
<1> QED
  BY Invariant, <1>1, <1>2, <1>3, <1>4, PTL DEF Spec

-----------------------------------------------------------------------------
(* UidBound and SingleUpdateSystem.                                        *)

\* An item that is in the list after a step was there before, of the same user,
\* and if it was finished it still is.
Before(t) ==
  Listed(t)' => /\ Listed(t) /\ uid'[t] = uid[t]
                /\ state[t] = "FINISHED" => state'[t] = "FINISHED"

\* A role is set once, on a new item; one item that never was has none.
RoleBefore(t) ==
  /\ role'[t] = "update-system" =>
       role[t] = "update-system" \/ (Privileged(t, "update-system") /\ state'[t] # "none")
  /\ state'[t] = "none" => role'[t] = "unknown" \/ (state[t] = "none" /\ role'[t] = role[t])

StepBack == \A t \in Tid : Before(t) /\ RoleBefore(t)

LEMMA FinishBack ==
  ASSUME TypeOK, NEW t \in Tid, NEW p, Listed(t), ListFinished(t, p),
         UNCHANGED <<role, uid>>
  PROVE  StepBack
BY DEF TypeOK, ListFinished, StepBack, Before, RoleBefore, Listed, NextItem,
       First, Ready

LEMMA CrashBack ==
  ASSUME Crash
  PROVE  StepBack
BY DEF Crash, StepBack, Before, RoleBefore, Listed

LEMMA ReleaseBack ==
  ASSUME TypeOK, NEW t \in Tid, Release(t)
  PROVE  StepBack
BY DEF TypeOK, Release, ItemFree, StepBack, Before, RoleBefore, Listed

LEMMA SameBack ==
  ASSUME UNCHANGED <<state, role, uid>>
  PROVE  StepBack
BY DEF StepBack, Before, RoleBefore, Listed

\* Every step but GetTid.
LEMMA NextBack ==
  ASSUME IInv, [Next]_vars, ~\E u \in Uids : Create(u)
  PROVE  StepBack
<1> USE DEF IInv, listVars, timerVars, authVars, linkVars, loopVars, jobVars
<1>1. ASSUME NEW t \in Tid, NEW r \in Roles, NEW b \in BOOLEAN, Query(t, r, b)
      PROVE  StepBack
  BY <1>1 DEF Query, Callable, SetRole, Commit, TypeOK, StepBack, Before,
              RoleBefore, Listed
<1>2. ASSUME NEW t \in Tid, NEW r \in Roles, AnswerFromCache(t, r)
      PROVE  StepBack
  BY <1>2 DEF AnswerFromCache, Callable, SetRole, TypeOK, StepBack, Before,
              RoleBefore, Listed
<1>3. ASSUME NEW t \in Tid, NEW r \in Roles, Privileged(t, r)
      PROVE  StepBack
  <2>1. /\ role' = [role EXCEPT ![t] = r]
        /\ state' = [state EXCEPT ![t] = "WAITING_FOR_AUTH"]
        /\ uid' = uid /\ state[t] = "NEW"
    BY <1>3 DEF Privileged, Callable, SetRole, ObtainAuthorization
  <2>2. r = "update-system" => Privileged(t, "update-system")
    BY <1>3
  <2>3. \A u \in Tid : Before(u)
    BY <2>1 DEF TypeOK, Before, Listed
  <2>4. \A u \in Tid : RoleBefore(u)
    BY <2>1, <2>2 DEF TypeOK, RoleBefore
  <2> QED
    BY <2>3, <2>4 DEF StepBack
<1>4. ASSUME NEW t \in Tid, AcceptEula(t) \/ AcceptEulaFails(t)
      PROVE  StepBack
  BY <1>4 DEF AcceptEula, AcceptEulaFails, Callable, SetRole,
              ObtainAuthorization, TypeOK, StepBack, Before, RoleBefore, Listed
<1>5. ASSUME NEW t \in Tid,
             MethodFails(t) \/ NoCommitTimeout(t) \/ KeepFinishedTimeout(t)
      PROVE  StepBack
  BY <1>5, ReleaseBack DEF MethodFails, NoCommitTimeout, KeepFinishedTimeout
<1>6. ASSUME NEW t \in Tid, AuthDenied(t) \/ FinishedIdle(t)
      PROVE  StepBack
  BY <1>6, FinishBack DEF AuthDenied, FinishedIdle, FinishedEmit
<1>7. ASSUME NEW t \in Tid, NEW b \in BOOLEAN, AuthGranted(t, b)
      PROVE  StepBack
  BY <1>7, SameBack DEF AuthGranted, Commit, TypeOK, StepBack, Before,
                        RoleBefore, Listed
<1>8. ASSUME NEW t \in Tid, NEW e, CancelQueued(t) \/ CancelBackend(t, e),
             UNCHANGED <<role, uid>>
      PROVE  StepBack
  BY <1>8, FinishBack, SameBack
     DEF CancelQueued, CancelBackend, FinishedEmit, BeforeRunning, Listed
<1>9. ASSUME NEW t \in Tid, Cancel(t) \/ ScanItem(t)
      PROVE  StepBack
  BY <1>8, <1>9 DEF Cancel, ScanItem
<1>10. ASSUME NEW t \in Tid,
              CallbackOnFreed(t) \/ FinishedCbOnFreed(t) \/ RunAborts(t)
       PROVE  StepBack
  BY <1>10, CrashBack, SameBack DEF CallbackOnFreed, FinishedCbOnFreed, RunAborts
<1>11. ASSUME NEW t \in Tid,
              \/ \E p \in PluginAborts, e \in {"failed", "skip"} : RunEndedByPlugin(t, p, e)
              \/ RunEndedByOther(t)
       PROVE  StepBack
  <2>1. MayRun(t) /\ ListFinished(t, idle \ {t}) /\ UNCHANGED <<role, uid>>
    BY <1>11 DEF RunEndedByPlugin, RunEndedByOther, RunEnds
  <2>2. t # 0
    BY ListAssumption DEF Tid
  <2>3. t \in idle
    BY <2>1, <2>2 DEF MayRun, Inv, CallbacksFindStates
  <2>4. Listed(t)
    BY <2>3 DEF Inv, SourcesMatchState, Listed
  <2> QED
    BY <2>1, <2>4, FinishBack
<1>12. ASSUME NEW t \in Tid, RunFlushesFinish(t) \/ RunDispatch(t)
       PROVE  StepBack
  BY <1>12, SameBack DEF RunFlushesFinish, RunDispatch
<1>13. CASE BackendError \/ BackendFinished \/ ErrorTimeout \/ FinishedDelay
  BY <1>13, SameBack DEF BackendError, BackendFinished, ErrorTimeout, FinishedDelay
<1>14. ASSUME NEW t \in Tid, NEW e \in ExitCodes \cup {"required"}, FinishedCb(t, e)
       PROVE  StepBack
  BY <1>14, FinishBack DEF FinishedCb, FinishedEmit
<1>15. CASE \/ CancelBackground \/ ScanEnd \/ UNCHANGED vars
            \/ \E u \in Uids : CreateRefused(u)
  BY <1>15, SameBack DEF CancelBackground, ScanEnd, CreateRefused, vars
<1> QED
  BY <1>1, <1>2, <1>3, <1>4, <1>5, <1>6, <1>7, <1>9, <1>10, <1>11, <1>12, <1>13,
     <1>14, <1>15
     DEF Next, ClientNext, CallbackNext, RunNext, FinishNext, ScanNext

\* GetTid adds one item.
LEMMA CreateAdds ==
  ASSUME IInv, NEW u \in Uids, Create(u)
  PROVE  /\ created + 1 \in Tid /\ state[created + 1] = "none"
         /\ state' = [state EXCEPT ![created + 1] = "NEW"]
         /\ uid' = [uid EXCEPT ![created + 1] = u]
         /\ role' = role
<1>1. created + 1 \in Tid /\ created + 1 > created
  BY ListAssumption DEF IInv, TypeOK, Create, Tid
<1> QED
  BY <1>1 DEF Create, IInv, Inv, CallbacksFindStates

LEMMA ItemsAreFinite ==
  ASSUME NEW u
  PROVE  IsFiniteSet(ItemsOf(u)) /\ Cardinality(ItemsOf(u)) \in Nat
<1>1. IsFiniteSet(Tid)
  BY ListAssumption, FS_Interval DEF Tid
<1>2. ItemsOf(u) \subseteq Tid
  BY DEF ItemsOf, InList
<1> QED
  BY <1>1, <1>2, FS_Subset, FS_CardinalityType

LEMMA UidNext ==
  ASSUME IInv, UidBound, [Next]_vars
  PROVE  UidBound'
<1> SUFFICES ASSUME NEW u \in Uids
             PROVE  Cardinality(ItemsOf(u)') <= MaxPerUid + 1
  BY DEF UidBound
<1>1. Cardinality(ItemsOf(u)) <= MaxPerUid + 1 /\ MaxPerUid \in Nat
  BY ListAssumption DEF UidBound
<1>2. IsFiniteSet(ItemsOf(u)) /\ Cardinality(ItemsOf(u)) \in Nat
  BY ItemsAreFinite
<1>3. ASSUME ItemsOf(u)' \subseteq ItemsOf(u)
      PROVE  Cardinality(ItemsOf(u)') <= MaxPerUid + 1
  <2>1. /\ IsFiniteSet(ItemsOf(u)') /\ Cardinality(ItemsOf(u)') \in Nat
        /\ Cardinality(ItemsOf(u)') <= Cardinality(ItemsOf(u))
    BY <1>2, <1>3, FS_Subset, FS_CardinalityType
  <2> QED
    BY <1>1, <1>2, <2>1
<1>4. ASSUME NEW v \in Uids, Create(v)
      PROVE  Cardinality(ItemsOf(u)') <= MaxPerUid + 1
  <2> DEFINE n == created + 1
  <2>1. /\ n \in Tid /\ state[n] = "none"
        /\ state' = [state EXCEPT ![n] = "NEW"] /\ uid' = [uid EXCEPT ![n] = v]
    BY <1>4, CreateAdds
  <2> HIDE DEF n
  <2>2. CASE u = v
    <3>1. ItemsOf(u)' = ItemsOf(u) \cup {n} /\ n \notin ItemsOf(u)
      BY <2>1, <2>2 DEF IInv, TypeOK, ItemsOf, InList, Listed
    <3>2. Cardinality(ItemsOf(u) \cup {n}) = Cardinality(ItemsOf(u)) + 1
      BY <1>2, <3>1, FS_AddElement
    <3>3. Cardinality(ItemsOf(u)) <= MaxPerUid
      BY <1>4, <2>2 DEF Create, UidCount
    <3> QED
      BY <1>1, <1>2, <3>1, <3>2, <3>3
  <2>3. CASE u # v
    <3>1. ItemsOf(u)' \subseteq ItemsOf(u)
      BY <2>1, <2>3 DEF IInv, TypeOK, ItemsOf, InList, Listed
    <3> QED
      BY <1>3, <3>1
  <2> QED
    BY <2>2, <2>3
<1>5. CASE ~\E v \in Uids : Create(v)
  <2>1. ItemsOf(u)' \subseteq ItemsOf(u)
    BY <1>5, NextBack DEF StepBack, Before, ItemsOf, InList
  <2> QED
    BY <1>3, <2>1
<1> QED
  BY <1>4, <1>5

\* UidBound: UidWithinLimit is not so, but a user never gets further than one past
\* the limit, whatever the limit is.
THEOREM UidIsBounded == Spec => []UidBound
<1>1. Init => UidBound
  <2> SUFFICES ASSUME Init, NEW u \in Uids
               PROVE  Cardinality(ItemsOf(u)) <= MaxPerUid + 1
    BY DEF UidBound
  <2>1. ItemsOf(u) = {}
    BY DEF Init, ItemsOf, InList, Listed
  <2> QED
    BY <2>1, FS_EmptySet, ListAssumption
<1>2. IInv /\ UidBound /\ [Next]_vars => UidBound'
  BY UidNext
<1> QED
  BY Invariant, <1>1, <1>2, PTL DEF Spec

\* A whole-system update that is not over, and ids that were not handed out.
Updates(t) == Listed(t) /\ state[t] # "FINISHED" /\ role[t] = "update-system"
UpdateInv ==
  /\ \A t, u \in Tid : Updates(t) /\ Updates(u) => t = u
  /\ \A t \in Tid : state[t] = "none" => role[t] = "unknown"

LEMMA UpdateNext ==
  ASSUME IInv, UpdateInv, [Next]_vars
  PROVE  UpdateInv'
<1>1. ASSUME NEW v \in Uids, Create(v)
      PROVE  UpdateInv'
  <2> DEFINE n == created + 1
  <2>1. /\ n \in Tid /\ state[n] = "none"
        /\ state' = [state EXCEPT ![n] = "NEW"] /\ role' = role
    BY <1>1, CreateAdds
  <2> HIDE DEF n
  <2>2. role[n] = "unknown"
    BY <2>1 DEF UpdateInv
  <2> QED
    BY <2>1, <2>2 DEF UpdateInv, Updates, Listed, IInv, TypeOK
<1>2. CASE ~\E v \in Uids : Create(v)
  <2>1. StepBack
    BY <1>2, NextBack
  <2>2. \A t \in Tid : state'[t] = "none" => role'[t] = "unknown"
    BY <2>1 DEF StepBack, RoleBefore, UpdateInv
  <2>3. \A t \in Tid : Updates(t)' => Updates(t) \/ Privileged(t, "update-system")
    BY <2>1 DEF StepBack, Before, RoleBefore, Updates
  <2>4. ASSUME NEW t \in Tid, Privileged(t, "update-system"),
               NEW u \in Tid, Updates(u)'
        PROVE  u = t
    <3>1. \A w \in Tid : ~Updates(w)
      BY <2>4 DEF Privileged, RolePresent, Updates, InList
    <3>2. Privileged(u, "update-system")
      BY <2>3, <2>4, <3>1
    <3>3. /\ role' = [role EXCEPT ![t] = "update-system"]
          /\ role' = [role EXCEPT ![u] = "update-system"]
          /\ role[u] = "unknown" /\ role \in [Tid -> RoleKinds \cup {"unknown"}]
      BY <2>4, <3>2 DEF Privileged, SetRole, Callable, IInv, TypeOK
    <3>4. u # t => role'[u] = role[u]
      BY <3>3
    <3>5. role'[u] = "update-system"
      BY <3>3
    <3> QED
      BY <3>3, <3>4, <3>5
  <2>5. \A t, u \in Tid : Updates(t)' /\ Updates(u)' => t = u
    BY <2>3, <2>4 DEF UpdateInv
  <2> QED
    BY <2>2, <2>5 DEF UpdateInv
<1> QED
  BY <1>1, <1>2

\* SingleUpdateSystem: two updates of the whole system are never in the list
\* together, though each of them waited for polkit after it had looked.
THEOREM UpdatesAreSingle == Spec => []SingleUpdateSystem
<1>1. Init => UpdateInv
  BY DEF Init, UpdateInv, Updates, Listed
<1>2. UpdateInv => SingleUpdateSystem
  BY DEF UpdateInv, Updates, SingleUpdateSystem, InList
<1>3. IInv /\ UpdateInv /\ [Next]_vars => UpdateInv'
  BY UpdateNext
<1> QED
  BY Invariant, <1>1, <1>2, <1>3, PTL DEF Spec

=============================================================================
