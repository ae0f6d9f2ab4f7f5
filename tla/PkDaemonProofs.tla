--------------------------- MODULE PkDaemonProofs ---------------------------
(***************************************************************************)
(* Proofs about what the daemon keeps between transactions (PkDaemon), for *)
(* any number of transactions, starts and changes of the packages.         *)
(***************************************************************************)
EXTENDS PkDaemon, FiniteSetTheorems, TLAPS

\* However the daemon ends, the numbers that count have been written.
LEMMA QuitFacts ==
  ASSUME TypeOK, Quit \/ Crash,
         up => count >= high, up /\ ~saveDue => saved = count
  PROVE  Gone /\ saved' \in 0..high' /\ high' \in 0..MaxTid /\ saved' >= high'
<1>1. /\ count \in Int /\ saved \in Int /\ high \in Int /\ MaxTid \in Nat
      /\ 0 <= count /\ count <= high /\ 0 <= saved /\ saved <= high
      /\ high <= MaxTid
  BY DaemonAssumption DEF TypeOK
<1>2. Gone /\ up
  BY DEF Quit, Crash, Gone
<1>3. CASE Crash
  BY <1>1, <1>2, <1>3 DEF Crash, Lost
<1>4. CASE Quit
  <2>1. PICK waiting \in BOOLEAN :
          Finalize(waiting) /\ IF waiting THEN Lost ELSE UNCHANGED high
    BY <1>4 DEF Quit
  <2>2. CASE waiting
    BY <1>1, <1>2, <2>1, <2>2 DEF Finalize, Lost
  <2>3. CASE ~waiting
    BY <1>1, <1>2, <2>1, <2>3 DEF Finalize
  <2> QED
    BY <2>2, <2>3
<1> QED
  BY <1>3, <1>4

\* A step ends the daemon, or is one of the steps of a daemon that goes on.
Goes ==
  \/ Start \/ FileChanged \/ ToolRuns \/ GetTid \/ SaveCount \/ NotifyCb
  \/ (SuggestDaemonQuit /\ ~Quit)
  \/ \E reason \in Reasons : StateHasChanged(reason) \/ StateChangedCb(reason)
  \/ \E t \in Tid : \/ \E role \in Role : Call(t, role)
                    \/ Run(t) \/ Finish(t) \/ Fail(t) \/ Remove(t) \/ Change(t)

LEMMA NextCases == Next => Quit \/ Crash \/ Goes
BY DEF Next, Goes, Calls, Timers, Jobs, Interrupt, Poll

-----------------------------------------------------------------------------
(* Types, and the job counter.                                             *)

\* What the database has is the counter, or a write is due; and the next
\* number is a new one.
CounterInv ==
  /\ up /\ ~saveDue => saved = count
  /\ ~up => ~saveDue /\ count = 0
  /\ NumbersAreNew

LEMMA CounterNext ==
  ASSUME TypeOK, CounterInv, [Next]_vars
  PROVE  /\ CounterInv'
         /\ high' \in 0..MaxTid /\ count' \in 0..high' /\ saved' \in 0..high'
         /\ up' \in BOOLEAN /\ saveDue' \in BOOLEAN
<1>1. /\ count \in Int /\ saved \in Int /\ high \in Int /\ MaxTid \in Nat
      /\ 0 <= count /\ count <= high /\ 0 <= saved /\ saved <= high
      /\ high <= MaxTid /\ up \in BOOLEAN /\ saveDue \in BOOLEAN
  BY DaemonAssumption DEF TypeOK
<1>2. CASE Quit \/ Crash
  <2>1. Gone /\ saved' \in 0..high' /\ high' \in 0..MaxTid /\ saved' >= high'
    BY <1>2, QuitFacts DEF CounterInv, NumbersAreNew
  <2>2. up' = FALSE /\ count' = 0 /\ saveDue' = FALSE
    BY <2>1 DEF Gone
  <2>3. CounterInv'
    BY <2>1, <2>2 DEF CounterInv, NumbersAreNew
  <2>4. count' \in 0..high' /\ up' \in BOOLEAN /\ saveDue' \in BOOLEAN
    <3>1. high' \in Int /\ 0 <= high'
      BY <1>1, <2>1
    <3>2. count' \in 0..high'
      BY <2>2, <3>1
    <3> QED
      BY <2>2, <3>2
  <2> QED
    BY <2>1, <2>3, <2>4
<1>3. CASE UNCHANGED <<up, countVars>>
  BY <1>1, <1>3 DEF countVars, CounterInv, NumbersAreNew
<1>4. CASE Start
  BY <1>1, <1>4 DEF Start, CounterInv, NumbersAreNew
<1>5. CASE GetTid
  BY <1>1, <1>5 DEF GetTid, CounterInv, NumbersAreNew
<1>6. CASE SaveCount
  <2>1. /\ saved' = count /\ saveDue' = FALSE /\ saveDue
        /\ up' = up /\ count' = count /\ high' = high
    BY <1>6 DEF SaveCount
  <2>2. up
    BY <2>1 DEF CounterInv
  <2>3. CounterInv'
    BY <2>1, <2>2 DEF CounterInv, NumbersAreNew
  <2>4. high' \in 0..MaxTid /\ count' \in 0..high' /\ saved' \in 0..high'
    BY <1>1, <2>1
  <2> QED
    BY <1>1, <2>1, <2>3, <2>4
<1>7. ASSUME Goes
      PROVE  Start \/ GetTid \/ SaveCount \/ UNCHANGED <<up, countVars>>
  BY <1>7 DEF Goes, FileChanged, ToolRuns, NotifyCb, SuggestDaemonQuit,
              StateHasChanged, StateChangedCb, Call, Run, Finish, Fail, Remove,
              Change, TransactionStep
<1>8. CASE UNCHANGED vars
  BY <1>3, <1>8 DEF vars
<1> QED
  BY <1>2, <1>3, <1>4, <1>5, <1>6, <1>7, <1>8, NextCases

\* The rest of the types.
Rest ==
  /\ asap \in BOOLEAN /\ ids \subseteq Reasons /\ armed \subseteq Reasons
  /\ cache \in List \cup {NoList}
  /\ notify \in BOOLEAN
  /\ tr \in [Tid -> Transaction]
  /\ world \in World
  /\ asked \in 0..world /\ changed \in 0..world /\ told \in 0..world

LEMMA NoTransactionType == NoTransaction \in Transaction
BY DaemonAssumption DEF NoTransaction, Transaction, World

LEMMA KeptType ==
  ASSUME notify' \in BOOLEAN
  PROVE  Kept \in Transaction /\ Kept.state = "kept"
BY NoTransactionType DEF Kept, Transaction, NoTransaction

LEMMA KeepType ==
  ASSUME tr \in [Tid -> Transaction], NEW t \in Tid, Keep(t), notify' \in BOOLEAN
  PROVE  tr' \in [Tid -> Transaction]
BY KeptType DEF Keep

\* Declaring the list stale changes nothing but the mark on those that read it.
LEMMA CrossedFacts ==
  ASSUME tr \in [Tid -> Transaction]
  PROVE  /\ Crossed \in [Tid -> Transaction]
         /\ \A u \in Tid :
              /\ Crossed[u].state = tr[u].state /\ Crossed[u].role = tr[u].role
              /\ Crossed[u].seen = tr[u].seen /\ Crossed[u].behind = tr[u].behind
              /\ tr[u].state = "running" /\ tr[u].role = "get-updates" =>
                   Crossed[u].crossed
BY DEF Crossed, Transaction

\* The transactions after the end of one of them.
LEMMA FinishFacts ==
  ASSUME TypeOK, NEW t \in Tid, Finish(t)
  PROVE  /\ tr' \in [Tid -> Transaction] /\ tr'[t] = Kept
         /\ \A u \in Tid \ {t} :
              /\ tr'[u].state = tr[u].state /\ tr'[u].role = tr[u].role
              /\ tr'[u].seen = tr[u].seen /\ tr'[u].behind = tr[u].behind
              /\ tr[t].role \notin Invalidating => tr'[u].crossed = tr[u].crossed
              /\ tr[t].role \in Invalidating /\ tr[u].state = "running"
                    /\ tr[u].role = "get-updates" => tr'[u].crossed
<1> DEFINE f == IF tr[t].role \in Invalidating THEN Crossed ELSE tr
<1>1. tr \in [Tid -> Transaction] /\ notify' \in BOOLEAN
  BY DEF TypeOK, Finish, StoreAndInvalidate
<1>2. f \in [Tid -> Transaction]
  BY <1>1, CrossedFacts
<1>3. tr' = [f EXCEPT ![t] = Kept]
  BY DEF Finish
<1> HIDE DEF f
<1>4. tr' \in [Tid -> Transaction] /\ tr'[t] = Kept
  BY <1>1, <1>2, <1>3, KeptType
<1>5. \A u \in Tid \ {t} : tr'[u] = f[u]
  BY <1>2, <1>3
<1> QED
  BY <1>1, <1>4, <1>5, CrossedFacts DEF f

\* One step of one transaction.
LEMMA TransactionRest ==
  ASSUME TypeOK, NEW t \in Tid,
         \/ \E role \in Role : Call(t, role)
         \/ Run(t) \/ Finish(t) \/ Fail(t) \/ Remove(t) \/ Change(t)
  PROVE  Rest'
<1>1. /\ MaxWorld \in Nat /\ world \in 0..MaxWorld /\ world \in Int
      /\ asked \in 0..world /\ changed \in 0..world /\ told \in 0..world
  BY DaemonAssumption DEF TypeOK, World
<1>2. /\ asap' \in BOOLEAN /\ ids' \subseteq Reasons /\ armed' \subseteq Reasons
      /\ asked' = asked /\ told' = told
  BY DEF TypeOK, Call, Run, Finish, Fail, Remove, Change, TransactionStep,
         timerVars
<1>3. /\ tr[t].state \in {"none", "new", "queued", "running", "kept"}
      /\ tr[t].role \in Role \cup {"unknown"}
      /\ tr[t].seen \in World /\ tr[t].crossed \in BOOLEAN
      /\ tr[t].behind \in BOOLEAN /\ tr \in [Tid -> Transaction]
  BY DEF TypeOK, Transaction
<1>4. NoList \in List \cup {NoList}
  OBVIOUS
<1>5. ASSUME NEW role \in Role, Call(t, role)
      PROVE  Rest'
  <2>1. notify' \in BOOLEAN /\ world' = world /\ changed' = changed
    BY <1>5 DEF Call, TypeOK
  <2>2. CASE Keep(t)
    BY <1>1, <1>2, <1>5, <2>1, <2>2, KeepType DEF Call, TypeOK, Rest, World
  <2>3. CASE tr' = [tr EXCEPT ![t] = [tr[t] EXCEPT !.state = "queued", !.role = role]]
    <3>1. [tr[t] EXCEPT !.state = "queued", !.role = role] \in Transaction
      BY <1>3 DEF Transaction
    <3>2. tr' \in [Tid -> Transaction]
      BY <1>3, <2>3, <3>1
    <3> QED
      BY <1>1, <1>2, <1>5, <2>1, <3>2 DEF Call, TypeOK, Rest, World
  <2> QED
    BY <1>5, <2>2, <2>3 DEF Call
<1>6. CASE Run(t)
  <2> DEFINE looks == IF tr[t].role = "get-updates" THEN world ELSE 0
  <2>1. tr' \in [Tid -> Transaction]
    <3>1. looks \in World
      BY <1>1 DEF World
    <3>2. tr' = [tr EXCEPT ![t] = [tr[t] EXCEPT !.state = "running", !.seen = looks]]
      BY <1>6 DEF Run
    <3> HIDE DEF looks
    <3>3. [tr[t] EXCEPT !.state = "running", !.seen = looks] \in Transaction
      BY <1>3, <3>1 DEF Transaction
    <3> QED
      BY <1>3, <3>2, <3>3
  <2> QED
    BY <1>1, <1>2, <1>6, <2>1 DEF Run, TypeOK, Rest, World
<1>7. CASE Finish(t)
  <2>1. notify' \in BOOLEAN /\ world' = world /\ changed' \in 0..world
    BY <1>1, <1>7 DEF Finish, StoreAndInvalidate, TypeOK
  <2>2. cache' \in List \cup {NoList}
    BY <1>3, <1>7 DEF Finish, StoreAndInvalidate, TypeOK, List
  <2>3. tr' \in [Tid -> Transaction]
    BY <1>7, FinishFacts
  <2> QED
    BY <1>1, <1>2, <2>1, <2>2, <2>3 DEF Rest, World
<1>8. CASE Fail(t)
  <2>1. /\ notify' \in BOOLEAN /\ world' = world /\ changed' = changed
        /\ cache' = cache
    BY <1>8 DEF Fail, TypeOK
  <2>2. tr' \in [Tid -> Transaction]
    BY <1>3, <1>8, <2>1, KeepType DEF Fail
  <2> QED
    BY <1>1, <1>2, <2>1, <2>2 DEF Rest, World, TypeOK
<1>9. CASE Remove(t)
  <2>1. tr' \in [Tid -> Transaction]
    BY <1>3, <1>9, NoTransactionType DEF Remove
  <2> QED
    BY <1>1, <1>2, <1>9, <2>1 DEF Remove, TypeOK, Rest, World
<1>10. CASE Change(t)
  BY <1>1, <1>2, <1>10 DEF Change, TypeOK, Rest, World
<1> QED
  BY <1>5, <1>6, <1>7, <1>8, <1>9, <1>10

LEMMA ScheduleType ==
  ASSUME ids \subseteq Reasons, armed \subseteq Reasons,
         NEW reason \in Reasons, Schedule(reason)
  PROVE  ids' \subseteq Reasons /\ armed' \subseteq Reasons
BY DEF Schedule, timerVars, Reasons

LEMMA TypeNext ==
  ASSUME TypeOK, CounterInv, [Next]_vars
  PROVE  TypeOK' /\ CounterInv'
<1>1. SUFFICES Rest'
  BY <1>1, CounterNext DEF TypeOK, Rest
<1>2. /\ MaxWorld \in Nat /\ world \in 0..MaxWorld /\ world \in Int
      /\ asked \in 0..world /\ changed \in 0..world /\ told \in 0..world
      /\ tr \in [Tid -> Transaction] /\ 0 \in 0..world /\ world \in 0..world
  BY DaemonAssumption DEF TypeOK, World
<1>3. CASE Quit \/ Crash
  <2>1. Gone
    BY <1>3 DEF Quit, Crash
  <2>2. tr' \in [Tid -> Transaction]
    BY <2>1, NoTransactionType DEF Gone
  <2>3. /\ world' = world /\ asked' = 0 /\ changed' = 0 /\ told' = 0
        /\ asap' = FALSE /\ ids' = {} /\ armed' = {} /\ cache' = NoList
        /\ notify' = FALSE
    BY <2>1 DEF Gone
  <2> QED
    BY <1>2, <2>2, <2>3 DEF Rest, World
<1>4. CASE UNCHANGED vars
  BY <1>4 DEF vars, timerVars, historyVars, TypeOK, Rest
<1>5. CASE Start \/ SaveCount
  BY <1>5 DEF Start, SaveCount, timerVars, historyVars, TypeOK, Rest
<1>6. CASE FileChanged \/ (SuggestDaemonQuit /\ ~Quit)
  BY <1>6 DEF FileChanged, SuggestDaemonQuit, timerVars, historyVars, TypeOK, Rest
<1>7. CASE ToolRuns
  BY <1>2, <1>7 DEF ToolRuns, timerVars, historyVars, TypeOK, Rest, World
<1>8. CASE GetTid
  <2>1. tr' \in [Tid -> Transaction]
    BY <1>2, <1>8 DEF GetTid, Transaction
  <2> QED
    BY <1>8, <2>1 DEF GetTid, timerVars, historyVars, TypeOK, Rest
<1>9. CASE NotifyCb
  <2>1. tr' \in [Tid -> Transaction]
    BY <1>2, <1>9 DEF NotifyCb, Transaction
  <2>2. told' = world /\ world' = world /\ notify' = FALSE
    BY <1>9 DEF NotifyCb, UpdatesChanged
  <2> QED
    BY <1>2, <1>9, <2>1, <2>2 DEF NotifyCb, timerVars, TypeOK, Rest
<1>10. ASSUME NEW reason \in Reasons, StateHasChanged(reason)
       PROVE  Rest'
  BY <1>2, <1>10, ScheduleType DEF StateHasChanged, TypeOK, Rest
<1>11. ASSUME NEW reason \in Reasons, StateChangedCb(reason)
       PROVE  Rest'
  <2>1. tr' \in [Tid -> Transaction]
    BY <1>2, <1>11 DEF StateChangedCb, DropCaches, Crossed, Transaction
  <2> QED
    BY <1>2, <1>11, <2>1 DEF StateChangedCb, DropCaches, TypeOK, Rest
<1> QED
  BY <1>3, <1>4, <1>5, <1>6, <1>7, <1>8, <1>9, <1>10, <1>11, NextCases,
     TransactionRest DEF Goes

LEMMA InitTypes == Init => TypeOK /\ CounterInv
<1> SUFFICES ASSUME Init PROVE TypeOK /\ CounterInv
  OBVIOUS
<1>1. 0 \in 0..0 /\ 0 \in 0..MaxTid /\ 0 \in World
  BY DaemonAssumption DEF World
<1>2. tr \in [Tid -> Transaction]
  BY NoTransactionType DEF Init
<1>3. TypeOK
  BY <1>1, <1>2 DEF Init, TypeOK
<1>4. CounterInv
  BY <1>1 DEF Init, CounterInv, NumbersAreNew
<1> QED
  BY <1>3, <1>4

\* Types, for every bound.
THEOREM TypeCorrect == Spec => []TypeOK
<1>1. TypeOK /\ CounterInv /\ [Next]_vars => TypeOK' /\ CounterInv'
  BY TypeNext
<1> QED
  BY InitTypes, <1>1, PTL DEF Spec

\* The next number is a new one: NumbersAreNew, across any number of quits,
\* crashes and starts.
THEOREM NumbersStayNew == Spec => []NumbersAreNew
<1>1. TypeOK /\ CounterInv /\ [Next]_vars => TypeOK' /\ CounterInv'
  BY TypeNext
<1>2. CounterInv => NumbersAreNew
  BY DEF CounterInv
<1> QED
  BY InitTypes, <1>1, <1>2, PTL DEF Spec

-----------------------------------------------------------------------------
(* The timer of StateHasChanged.                                           *)

\* At most one is set, and the engine has its id.
TimerInv == armed = ids /\ ids \in {{}, {"priority"}, {"normal"}}

LEMMA TimerNext ==
  ASSUME TypeOK, TimerInv, [Next]_vars
  PROVE  TimerInv'
<1>1. CASE UNCHANGED timerVars
  BY <1>1 DEF timerVars, TimerInv
<1>2. CASE Quit \/ Crash
  BY <1>2 DEF Quit, Crash, Gone, TimerInv
<1>3. ASSUME NEW reason \in Reasons, StateHasChanged(reason)
      PROVE  TimerInv'
  <2>1. CASE UNCHANGED timerVars
    BY <1>1, <2>1
  <2>2. CASE ~UNCHANGED timerVars
    <3>1. /\ ids' = (ids \ {"normal"}) \cup {reason}
          /\ armed' = (armed \ (ids \cap {"normal"})) \cup {reason}
          /\ "priority" \notin ids
      BY <1>3, <2>2 DEF StateHasChanged, Schedule
    <3>2. ids' = {reason} /\ armed' = {reason}
      BY <3>1 DEF TimerInv
    <3> QED
      BY <3>2 DEF TimerInv, Reasons
  <2> QED
    BY <2>1, <2>2
<1>4. ASSUME NEW reason \in Reasons, StateChangedCb(reason)
      PROVE  TimerInv'
  <2>1. armed' = armed \ {reason} /\ reason \in armed /\ ids' = {}
    BY <1>4 DEF StateChangedCb
  <2>2. armed' = {}
    BY <2>1 DEF TimerInv
  <2> QED
    BY <2>1, <2>2 DEF TimerInv
<1>5. CASE UNCHANGED vars
  BY <1>1, <1>5 DEF vars
<1>6. ASSUME Goes
      PROVE  \/ UNCHANGED timerVars
             \/ \E reason \in Reasons :
                  StateHasChanged(reason) \/ StateChangedCb(reason)
  BY <1>6 DEF Goes, Start, FileChanged, ToolRuns, GetTid, SaveCount, NotifyCb,
              SuggestDaemonQuit, Call, Run, Finish, Fail, Remove, Change,
              TransactionStep
<1> QED
  BY <1>1, <1>2, <1>3, <1>4, <1>5, <1>6, NextCases

\* The engine knows its timer, and there is one: TimerIsKnown, for every order
\* of calls.
THEOREM TimerStaysKnown == Spec => []TimerIsKnown
<1>1. Init => TimerInv
  BY DEF Init, TimerInv
<1>2. TimerInv => TimerIsKnown
  <2> SUFFICES ASSUME TimerInv PROVE TimerIsKnown
    OBVIOUS
  <2>1. Cardinality({}) = 0 /\ Cardinality({"priority"}) = 1
        /\ Cardinality({"normal"}) = 1
    BY FS_EmptySet, FS_Singleton
  <2> QED
    BY <2>1 DEF TimerInv, TimerIsKnown
<1>3. TypeOK /\ TimerInv /\ [Next]_vars => TimerInv'
  BY TimerNext
<1> QED
  BY TypeCorrect, <1>1, <1>2, <1>3, PTL DEF Spec

\* ChangeHasTimer: whatever the order of calls, transactions and timers, there is
\* a timer for each change that was not told yet.  A StateHasChanged may set none,
\* as its id says that one is armed; so this rests on TimerInv.
THEOREM ChangeKeepsTimer == Spec => []ChangeHasTimer
<1>1. Init => TimerInv /\ ChangeHasTimer
  BY DEF Init, TimerInv, ChangeHasTimer
<1>2. ASSUME TypeOK, TimerInv, ChangeHasTimer, [Next]_vars
      PROVE  ChangeHasTimer'
  <2>0. /\ world \in Nat /\ asked \in Nat /\ changed \in Nat /\ told \in Nat
        /\ asked <= world /\ changed <= world
    BY <1>2, DaemonAssumption DEF TypeOK, World
  <2>1. CASE Quit \/ Crash
    BY <2>1 DEF Quit, Crash, Gone, ChangeHasTimer
  <2>2. ASSUME NEW reason \in Reasons, StateHasChanged(reason)
        PROVE  ChangeHasTimer'
    <3>1. armed' # {}
      <4>1. CASE UNCHANGED timerVars
        <5>1. ids # {} \/ reason \in ids'
          BY <2>2, <4>1 DEF StateHasChanged, Schedule
        <5> QED BY <1>2, <4>1, <5>1 DEF TimerInv, timerVars
      <4>2. CASE ~UNCHANGED timerVars
        BY <2>2, <4>2 DEF StateHasChanged, Schedule
      <4> QED BY <4>1, <4>2
    <3>2. changed' = changed /\ told' = told /\ notify' = notify
      BY <2>2 DEF StateHasChanged
    <3> QED BY <1>2, <3>1, <3>2 DEF ChangeHasTimer
  <2>3. CASE NotifyCb \/ \E reason \in Reasons : StateChangedCb(reason)
    <3>1. told' = world /\ asked' = asked /\ changed' = changed
      BY <2>3 DEF NotifyCb, UpdatesChanged, StateChangedCb
    <3> QED BY <2>0, <3>1 DEF ChangeHasTimer
  <2>4. ASSUME NEW t \in Tid, Finish(t)
        PROVE  ChangeHasTimer'
    <3>1. /\ armed' = armed /\ asked' = asked /\ told' = told
          /\ notify' = (notify \/ tr[t].role \in Invalidating)
          /\ tr[t].role \notin Invalidating => changed' = changed
      BY <2>4 DEF Finish, TransactionStep, timerVars, StoreAndInvalidate
    <3> QED BY <1>2, <3>1 DEF ChangeHasTimer
  <2>5. ASSUME Goes
        PROVE  \/ NotifyCb
               \/ \E reason \in Reasons :
                    StateHasChanged(reason) \/ StateChangedCb(reason)
               \/ \E t \in Tid : Finish(t)
               \/ UNCHANGED <<armed, notify, asked, changed, told>>
    BY <2>5 DEF Goes, Start, FileChanged, ToolRuns, GetTid, SaveCount,
                SuggestDaemonQuit, Call, Run, Fail, Remove, Change,
                TransactionStep, timerVars, historyVars
  <2>6. CASE UNCHANGED vars
    BY <1>2, <2>6 DEF vars, timerVars, historyVars, ChangeHasTimer
  <2>7. CASE UNCHANGED <<armed, notify, asked, changed, told>>
    BY <1>2, <2>7 DEF ChangeHasTimer
  <2> QED
    BY <1>2, <2>1, <2>2, <2>3, <2>4, <2>5, <2>6, <2>7, NextCases
<1>3. TypeOK /\ TimerInv /\ [Next]_vars => TimerInv'
  BY TimerNext
<1> QED
  BY TypeCorrect, <1>1, <1>2, <1>3, PTL DEF Spec

-----------------------------------------------------------------------------
(* The UpdatesChanged that is due.                                         *)

\* A transaction has a number that was handed out.
SlotInv == \A t \in Tid : tr[t].state # "none" => t <= count

LEMMA SlotNext ==
  ASSUME TypeOK, CounterInv, SlotInv, [Next]_vars
  PROVE  SlotInv'
<1>1. count \in Int /\ \A t \in Tid : t \in Int /\ 1 <= t
  BY DaemonAssumption DEF TypeOK, Tid
<1>2. CASE count' = count /\ \A t \in Tid : tr'[t].state # "none" => tr[t].state # "none"
  BY <1>2 DEF SlotInv
<1>3. CASE Quit \/ Crash
  BY <1>3 DEF Quit, Crash, Gone, SlotInv, NoTransaction
<1>4. CASE Start
  <2>1. \A t \in Tid : tr[t].state = "none"
    BY <1>1, <1>4 DEF Start, CounterInv, SlotInv
  <2> QED
    BY <1>4, <2>1 DEF Start, SlotInv
<1>5. CASE GetTid
  <2>1. /\ count' = count + 1
        /\ \A t \in Tid : t # count' => tr'[t] = tr[t]
    BY <1>5 DEF GetTid, TypeOK
  <2> QED
    BY <1>1, <2>1 DEF SlotInv
<1>6. ASSUME NEW t \in Tid,
             \/ \E role \in Role : Call(t, role)
             \/ Run(t) \/ Finish(t) \/ Fail(t) \/ Remove(t) \/ Change(t)
      PROVE  SlotInv'
  <2>1. \A u \in Tid : u # t => tr'[u].state = tr[u].state
    <3>1. CASE Finish(t)
      BY <3>1, FinishFacts
    <3> QED
      BY <1>6, <3>1 DEF TypeOK, Call, Run, Fail, Remove, Change, Keep
  <2>2. tr'[t].state # "none" => tr[t].state # "none"
    <3>1. tr[t].state # "none"
      BY <1>6 DEF Call, Run, Finish, Fail, Remove, MayRemove, Change
    <3> QED
      BY <3>1
  <2>3. count' = count
    BY <1>6 DEF Call, Run, Finish, Fail, Remove, Change, TransactionStep, countVars
  <2> QED
    BY <1>2, <2>1, <2>2, <2>3
<1>7. CASE UNCHANGED <<count, tr>>
  BY <1>7 DEF SlotInv
<1>8. CASE NotifyCb
  <2>1. count' = count
    BY <1>8 DEF NotifyCb, countVars
  <2>2. \A t \in Tid : tr'[t].state = tr[t].state
    BY <1>8 DEF NotifyCb, TypeOK, Transaction
  <2> QED
    BY <1>2, <2>1, <2>2
<1>9. ASSUME NEW reason \in Reasons, StateChangedCb(reason)
       PROVE  SlotInv'
  <2>1. count' = count
    BY <1>9 DEF StateChangedCb, countVars
  <2>2. \A t \in Tid : tr'[t].state = tr[t].state
    BY <1>9, CrossedFacts DEF StateChangedCb, DropCaches, TypeOK
  <2> QED
    BY <1>2, <2>1, <2>2
<1>10. CASE FileChanged \/ ToolRuns \/ SaveCount \/ UNCHANGED vars
             \/ (SuggestDaemonQuit /\ ~Quit)
             \/ \E reason \in Reasons : StateHasChanged(reason)
  <2>1. UNCHANGED <<count, tr>>
    BY <1>10 DEF FileChanged, ToolRuns, SaveCount, SuggestDaemonQuit,
                 StateHasChanged, vars, countVars
  <2> QED
    BY <1>7, <2>1
<1> QED
  BY <1>3, <1>4, <1>5, <1>6, <1>8, <1>9, <1>10, NextCases DEF Goes

\* The transaction that asked for it is in the list until it was sent.
NotifyInv == notify => \E t \in Tid : tr[t].state = "kept" /\ tr[t].behind

\* A transaction that is neither kept nor becomes kept disturbs no other.
LEMMA NotifyOther ==
  ASSUME TypeOK, NotifyInv, notify' = notify, NEW u \in Tid,
         ~(tr[u].state = "kept" /\ tr[u].behind),
         \A t \in Tid : t # u => tr'[t] = tr[t]
  PROVE  NotifyInv'
BY DEF NotifyInv

LEMMA NotifyKeep ==
  ASSUME TypeOK, NotifyInv, NEW u \in Tid, Keep(u)
  PROVE  NotifyInv'
BY DEF NotifyInv, Keep, Kept, TypeOK, NoTransaction

LEMMA NotifyFinish ==
  ASSUME TypeOK, NotifyInv, NEW u \in Tid, Finish(u)
  PROVE  NotifyInv'
<1>1. Kept.state = "kept" /\ Kept.behind = notify'
  BY DEF Kept, NoTransaction
<1>2. notify => tr[u].state # "kept"
  BY DEF Finish
<1> QED
  BY <1>1, <1>2, FinishFacts DEF NotifyInv

LEMMA NotifyNext ==
  ASSUME TypeOK, SlotInv, NotifyInv, [Next]_vars
  PROVE  NotifyInv'
<1> USE DEF TypeOK
<1>1. CASE UNCHANGED <<notify, tr>>
  BY <1>1 DEF NotifyInv
<1>2. CASE Quit \/ Crash
  BY <1>2 DEF Quit, Crash, Gone, NotifyInv
<1>3. CASE NotifyCb
  BY <1>3 DEF NotifyCb, NotifyInv
<1>4. CASE GetTid
  <2>1. /\ notify' = notify /\ count' = count + 1 /\ count \in Int
        /\ \A t \in Tid : t # count' => tr'[t] = tr[t]
    BY <1>4, DaemonAssumption DEF GetTid
  <2>2. \A t \in Tid : tr[t].state = "kept" => t # count'
    BY <2>1 DEF SlotInv, Tid
  <2> QED
    BY <2>1, <2>2 DEF NotifyInv
<1>5. ASSUME NEW reason \in Reasons, StateChangedCb(reason)
      PROVE  NotifyInv'
  <2>1. /\ notify' = notify
        /\ \A t \in Tid : tr[t].state = "kept" => tr'[t] = tr[t]
    BY <1>5 DEF StateChangedCb, DropCaches, Crossed
  <2> QED
    BY <2>1 DEF NotifyInv
<1>6. ASSUME NEW t \in Tid,
             \/ \E role \in Role : Call(t, role)
             \/ Run(t) \/ Finish(t) \/ Fail(t) \/ Remove(t) \/ Change(t)
      PROVE  NotifyInv'
  <2>1. CASE Keep(t)
    BY <2>1, NotifyKeep
  <2>2. CASE UNCHANGED tr /\ notify' = notify
    BY <1>1, <2>2
  <2>3. CASE \E role \in Role : Call(t, role) /\ ~Keep(t)
    BY <2>3, NotifyOther DEF Call
  <2>4. CASE Run(t)
    BY <2>4, NotifyOther DEF Run
  <2>5. CASE Remove(t)
    BY <2>5, NotifyOther DEF Remove, MayRemove
  <2> QED
    BY <1>6, <2>1, <2>2, <2>3, <2>4, <2>5, NotifyFinish DEF Fail, Change
<1>7. CASE UNCHANGED vars
  BY <1>1, <1>7 DEF vars
<1>8. ASSUME Goes
      PROVE  \/ UNCHANGED <<notify, tr>> \/ NotifyCb \/ GetTid
             \/ \E reason \in Reasons : StateChangedCb(reason)
             \/ \E t \in Tid : \/ \E role \in Role : Call(t, role)
                               \/ Run(t) \/ Finish(t) \/ Fail(t) \/ Remove(t)
                               \/ Change(t)
  BY <1>8 DEF Goes, Start, FileChanged, ToolRuns, SaveCount, SuggestDaemonQuit,
              StateHasChanged
<1> QED
  BY <1>1, <1>2, <1>3, <1>4, <1>5, <1>6, <1>7, <1>8, NextCases

\* NotifyBeforeLeaving: the daemon does not leave of its own accord with an
\* UpdatesChanged due.
THEOREM NotifyComesBefore == Spec => []NotifyBeforeLeaving
<1>1. Init => NotifyInv
  BY DEF Init, NotifyInv
<1>2. NotifyInv => NotifyBeforeLeaving
  BY DEF NotifyInv, NotifyBeforeLeaving, Listed
<1>3. TypeOK /\ SlotInv /\ NotifyInv /\ [Next]_vars => NotifyInv'
  BY NotifyNext
<1>4. Init => SlotInv
  BY DEF Init, SlotInv, NoTransaction
<1>5. TypeOK /\ CounterInv /\ SlotInv /\ [Next]_vars => SlotInv'
  BY SlotNext
<1>6. TypeOK /\ CounterInv /\ [Next]_vars => TypeOK' /\ CounterInv'
  BY TypeNext
<1> QED
  BY InitTypes, <1>1, <1>2, <1>3, <1>4, <1>5, <1>6, PTL DEF Spec

-----------------------------------------------------------------------------
(* The cached list.                                                        *)

\* A list of these packages may be answered.
Fresh(seen) == seen >= changed /\ (seen >= asked \/ armed # {})

\* Transaction t will store a list that no one has dropped.
Reads(t) == tr[t].state = "running" /\ tr[t].role = "get-updates" /\ ~tr[t].crossed

\* What is cached is fresh, and so is what each GetUpdates that runs will store,
\* unless it is marked.
CacheInv ==
  /\ cache # NoList /\ ~cache.crossed => Fresh(cache.seen)
  /\ \A t \in Tid : Reads(t) => Fresh(tr[t].seen)

\* A step that starts no transaction, stores no list, and makes none old.
LEMMA CacheKept ==
  ASSUME CacheInv,
         cache' \in {cache, NoList},
         \A t \in Tid : tr'[t].state = "running" =>
           /\ tr[t].state = "running"
           /\ tr'[t].role = tr[t].role /\ tr'[t].seen = tr[t].seen
           /\ tr'[t].crossed = tr[t].crossed,
         changed' = changed,
         armed' # {} \/ (asked' = asked /\ armed' = armed)
  PROVE  CacheInv'
BY DEF CacheInv, Reads, Fresh

LEMMA CacheNext ==
  ASSUME TypeOK, TimerInv, CacheInv, [Next]_vars
  PROVE  CacheInv'
<1> USE DEF TypeOK
<1>1. CASE UNCHANGED <<cache, tr, changed, asked, armed>>
  BY <1>1 DEF CacheInv, Reads, Fresh
<1>2. CASE Quit \/ Crash
  BY <1>2 DEF Quit, Crash, Gone, CacheInv, Reads, NoTransaction
<1>3. CASE NotifyCb
  <2>1. \A t \in Tid : /\ tr'[t].state = tr[t].state /\ tr'[t].role = tr[t].role
                       /\ tr'[t].seen = tr[t].seen /\ tr'[t].crossed = tr[t].crossed
    BY <1>3 DEF NotifyCb, Transaction
  <2> QED
    BY <1>3, <2>1, CacheKept DEF NotifyCb, timerVars
<1>4. CASE GetTid
  <2>1. \A t \in Tid : tr'[t].state = "running" => tr'[t] = tr[t]
    BY <1>4 DEF GetTid, Transaction
  <2> QED
    BY <1>4, <2>1, CacheKept DEF GetTid, timerVars, historyVars
<1>5. ASSUME NEW reason \in Reasons, StateHasChanged(reason)
      PROVE  CacheInv'
  <2>1. armed' # {}
    BY <1>5 DEF StateHasChanged, Schedule, timerVars, TimerInv
  <2> QED
    BY <1>5, <2>1, CacheKept DEF StateHasChanged
<1>6. ASSUME NEW reason \in Reasons, StateChangedCb(reason)
      PROVE  CacheInv'
  <2>1. cache' = NoList /\ \A t \in Tid : ~Reads(t)'
    BY <1>6, CrossedFacts DEF StateChangedCb, DropCaches, Reads
  <2> QED
    BY <2>1 DEF CacheInv
<1>7. ASSUME NEW t \in Tid,
             \/ \E role \in Role : Call(t, role)
             \/ Fail(t) \/ Remove(t) \/ Change(t)
      PROVE  CacheInv'
  <2>1. \A u \in Tid : tr'[u].state = "running" => tr'[u] = tr[u]
    <3>1. \A u \in Tid : u # t => tr'[u] = tr[u]
      BY <1>7 DEF Call, Fail, Remove, Change, Keep
    <3>2. tr'[t].state # "running" \/ tr' = tr
      <4>1. CASE Keep(t) \/ Remove(t)
        <5>1. tr \in [Tid -> Transaction]
          OBVIOUS
        <5>2. \/ tr'[t] = [NoTransaction EXCEPT !.state = "kept", !.behind = notify']
              \/ tr'[t] = NoTransaction
          BY <4>1, <5>1 DEF Keep, Kept, Remove
        <5>3. NoTransaction.state = "none"
          BY DEF NoTransaction
        <5> QED
          BY <5>2, <5>3, NoTransactionType DEF Transaction
      <4>2. ASSUME NEW role \in Role, Call(t, role), ~Keep(t)
            PROVE  tr'[t].state = "queued"
        BY <4>2 DEF Call, Transaction
      <4> QED
        BY <1>7, <4>1, <4>2 DEF Fail, Change
    <3> QED
      BY <3>1, <3>2
  <2>2. cache' \in {cache, NoList} /\ changed' = changed
        /\ asked' = asked /\ armed' = armed
    BY <1>7 DEF Call, Fail, Remove, Change, TransactionStep, timerVars
  <2> QED
    BY <2>1, <2>2, CacheKept
<1>8. ASSUME NEW t \in Tid, Run(t)
      PROVE  CacheInv'
  <2>1. /\ cache' = cache /\ changed' = changed /\ asked' = asked /\ armed' = armed
        /\ \A u \in Tid : u # t => tr'[u] = tr[u]
    BY <1>8 DEF Run, TransactionStep, timerVars
  <2>2. tr'[t].role = "get-updates" => tr'[t].seen = world
    BY <1>8 DEF Run, Transaction
  <2>3. world >= changed /\ world >= asked
    BY DaemonAssumption DEF World
  <2> QED
    BY <2>1, <2>2, <2>3 DEF CacheInv, Reads, Fresh
<1>9. ASSUME NEW t \in Tid, Finish(t)
      PROVE  CacheInv'
  <2>1. /\ tr[t].state = "running" /\ asked' = asked /\ armed' = armed
        /\ tr'[t].state = "kept"
    BY <1>9, FinishFacts, KeptType DEF Finish, StoreAndInvalidate,
                                       TransactionStep, timerVars
  <2>2. CASE tr[t].role \in Invalidating
    <3>1. cache' = NoList
      BY <1>9, <2>2 DEF Finish, StoreAndInvalidate, Invalidating
    <3>2. \A u \in Tid : ~Reads(u)'
      BY <1>9, <2>1, <2>2, FinishFacts DEF Reads
    <3> QED
      BY <3>1, <3>2 DEF CacheInv
  <2>3. CASE tr[t].role \notin Invalidating
    <3>1. changed' = changed
      BY <1>9, <2>3 DEF Finish
    <3>2. \A u \in Tid : Reads(u)' => Reads(u) /\ tr'[u].seen = tr[u].seen
      BY <1>9, <2>1, <2>3, FinishFacts DEF Reads
    <3>3. \/ /\ cache' = [seen |-> tr[t].seen, crossed |-> tr[t].crossed]
             /\ tr[t].role = "get-updates"
          \/ cache' = cache
      BY <1>9, <2>3 DEF Finish, StoreAndInvalidate
    <3>4. tr[t].role = "get-updates" /\ ~tr[t].crossed => Fresh(tr[t].seen)
      BY <2>1 DEF CacheInv, Reads
    <3> QED
      BY <2>1, <3>1, <3>2, <3>3, <3>4 DEF CacheInv, Fresh
  <2> QED
    BY <2>2, <2>3
<1>10. CASE Start \/ FileChanged \/ ToolRuns \/ SaveCount \/ UNCHANGED vars
             \/ (SuggestDaemonQuit /\ ~Quit)
  <2>1. UNCHANGED <<cache, tr, changed, asked, armed>>
    BY <1>10 DEF Start, FileChanged, ToolRuns, SaveCount, SuggestDaemonQuit,
                 vars, timerVars, historyVars
  <2> QED
    BY <1>1, <2>1
<1> QED
  BY <1>2, <1>3, <1>4, <1>5, <1>6, <1>7, <1>8, <1>9, <1>10, NextCases DEF Goes

\* CacheIsCurrent: GetUpdates is never answered from a list that a transaction
\* or a StateHasChanged has made old.
THEOREM CacheStaysCurrent == Spec => []CacheIsCurrent
<1>1. Init => CacheInv
  BY DEF Init, CacheInv, Reads, NoTransaction
<1>2. CacheInv => CacheIsCurrent
  BY DEF CacheInv, CacheIsCurrent, Fresh
<1>3. Init => TimerInv
  BY DEF Init, TimerInv
<1>4. TypeOK /\ TimerInv /\ [Next]_vars => TimerInv'
  BY TimerNext
<1>5. TypeOK /\ TimerInv /\ CacheInv /\ [Next]_vars => CacheInv'
  BY CacheNext
<1>6. TypeOK /\ CounterInv /\ [Next]_vars => TypeOK' /\ CounterInv'
  BY TypeNext
<1> QED
  BY InitTypes, <1>1, <1>2, <1>3, <1>4, <1>5, <1>6, PTL DEF Spec
=============================================================================
