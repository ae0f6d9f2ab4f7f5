----------------------------- MODULE PkTaskProofs -----------------------------
(***************************************************************************)
(* Proofs about PkTask and the calls of PkClient below it, for any number  *)
(* of requests and of files.                                               *)
(*                                                                         *)
(* Each action is about one request.  Calls(r) says that an action changes *)
(* the calls of no other, Rest(r) the same of everything else; what is     *)
(* left to show for an action is Good(r)', the invariant at that request.  *)
(***************************************************************************)
EXTENDS PkTask, TLAPS

-----------------------------------------------------------------------------
(* The inductive invariant.                                                *)

\* The state of a request is held once while it exists, and not at all after.
HolderOK(r) ==
  /\ r \in array =>
       \/ call[r].phase # "none" /\ question[r] = "none" /\ answer[r] = "no"
       \/ call[r].phase = "none" /\ question[r] # "none" /\ answer[r] = "no"
       \/ call[r].phase = "none" /\ question[r] = "none" /\ answer[r] # "no"
  /\ r \notin array =>
       call[r].phase = "none" /\ question[r] = "none" /\ answer[r] = "no"

\* What the phase of a call says of its other fields.
PhaseOK(r) ==
  /\ call[r].phase = "native" => call[r].copies # 0
  /\ call[r].phase = "copying" => call[r].op = "action" /\ kind[r] = "download"
  /\ r \in calls => Live(r)

\* Where a request can be that the daemon has carried out: its action was the
\* last call, and it succeeded or failed in copying.
DoneOK(r) ==
  /\ r \in array => kind[r] # "none" /\ report[r] = "none"
  /\ kind[r] = "none" => r \notin carriedOut /\ report[r] = "none"
  /\ call[r].phase \in {"copying", "ready"} /\ call[r].op = "action"
       /\ call[r].outcome = "success" => r \in carriedOut
  /\ r \in array /\ r \in carriedOut =>
       /\ call[r].op = "action"
       /\ \/ call[r].phase \in {"copying", "ready"} /\ call[r].outcome = "success"
          \/ /\ call[r].phase = "ready" /\ call[r].outcome = "error"
             /\ kind[r] = "download"
  /\ report[r] # "none" =>
       \/ report[r] = "success" <=> r \in carriedOut
       \/ kind[r] = "download" /\ report[r] = "error"

Good(r) == HolderOK(r) /\ PhaseOK(r) /\ DoneOK(r)

\* A client that is not idle has a reason.
IdleOK == idle \/ adopting \/ calls # {}

IInv == TypeOK /\ IdleOK /\ \A r \in Requests : Good(r)

-----------------------------------------------------------------------------
(* What a step on request r leaves alone.                                  *)

Calls(r) ==
  /\ call' \in [Requests -> Call]
  /\ strays' \in Nat
  /\ cancelOut' \subseteq Requests
  /\ calls' \subseteq Requests
  /\ idle' \in BOOLEAN
  /\ IdleOK'
  /\ \A q \in Requests \ {r} : call'[q] = call[q] /\ (q \in calls' => q \in calls)

Rest(r) ==
  /\ alive' \in BOOLEAN
  /\ adopting' \in BOOLEAN
  /\ kind' \in [Requests -> Kinds \cup {"none"}]
  /\ cancelled' \subseteq Requests
  /\ carriedOut' \subseteq Requests
  /\ array' \subseteq Requests
  /\ exitEnum' \in [Requests -> {"unknown", "key", "eula"}]
  /\ question' \in [Requests -> Questions \cup {"none"}]
  /\ answer' \in [Requests -> {"no", "accept", "decline"}]
  /\ report' \in [Requests -> {"none", "success", "other", "error", "nothing"}]
  /\ \A q \in Requests \ {r} :
       /\ kind'[q] = kind[q]
       /\ q \in carriedOut' <=> q \in carriedOut
       /\ q \in array' <=> q \in array
       /\ question'[q] = question[q]
       /\ answer'[q] = answer[q]
       /\ report'[q] = report[q]

LEMMA OneAtATime ==
  ASSUME IInv, NEW r \in Requests, Calls(r), Rest(r), Good(r)'
  PROVE  IInv'
<1>1. TypeOK' BY DEF Calls, Rest, TypeOK, ClientTypeOK
<1>2. IdleOK' BY DEF Calls
<1>3. ASSUME NEW q \in Requests \ {r} PROVE Good(q)'
  <2>0. Good(q) BY DEF IInv
  <2>1. /\ call'[q] = call[q] /\ kind'[q] = kind[q] /\ question'[q] = question[q]
        /\ answer'[q] = answer[q] /\ report'[q] = report[q]
        /\ q \in calls' => q \in calls
        /\ q \in carriedOut' <=> q \in carriedOut
        /\ q \in array' <=> q \in array
    BY DEF Calls, Rest
  <2>2. HolderOK(q)' BY <2>0, <2>1 DEF Good, HolderOK
  <2>3. PhaseOK(q)' BY <2>0, <2>1 DEF Good, PhaseOK, Live
  <2>4. DoneOK(q)' BY <2>0, <2>1 DEF Good, DoneOK
  <2> QED BY <2>2, <2>3, <2>4 DEF Good
<1> QED BY <1>1, <1>2, <1>3 DEF IInv

-----------------------------------------------------------------------------
(* The helpers.                                                            *)

\* The end of a call.
LEMMA EndIs ==
  ASSUME IInv, NEW r \in Requests, NEW op \in Ops, NEW o \in Outcomes,
         NEW left \in Nat, End(r, op, o, left), adopting' = adopting
  PROVE  /\ Calls(r)
         /\ call'[r] = [op |-> op, phase |-> "ready", copies |-> 0, outcome |-> o]
         /\ r \notin calls'
<1> USE ClientAssumption DEF IInv, TypeOK, ClientTypeOK
<1>1. /\ call' \in [Requests -> Call]
      /\ call'[r] = [op |-> op, phase |-> "ready", copies |-> 0, outcome |-> o]
      /\ \A q \in Requests \ {r} : call'[q] = call[q]
  BY DEF End, Call
<1>2. strays' \in Nat BY DEF End
<1>3. cancelOut' \subseteq Requests BY DEF End
<1>4. /\ calls' \subseteq Requests /\ idle' \in BOOLEAN /\ r \notin calls'
      /\ \A q \in Requests \ {r} : q \in calls' => q \in calls
  BY DEF End
<1>5. IdleOK' BY DEF End, IdleOK
<1> QED BY <1>1, <1>2, <1>3, <1>4, <1>5 DEF Calls

\* A call that goes on and leaves the array of calls alone.
LEMMA GoesIs ==
  ASSUME IInv, NEW r \in Requests, NEW op \in Ops, NEW phase \in Phases,
         NEW n \in 0..MaxFiles, NEW o \in Outcomes,
         Goes(r, op, phase, n, o), UNCHANGED <<calls, idle, adopting>>
  PROVE  /\ Calls(r)
         /\ call'[r] = [op |-> op, phase |-> phase, copies |-> n, outcome |-> o]
<1> USE ClientAssumption DEF IInv, TypeOK, ClientTypeOK
<1>1. /\ call' \in [Requests -> Call]
      /\ call'[r] = [op |-> op, phase |-> phase, copies |-> n, outcome |-> o]
      /\ \A q \in Requests \ {r} : call'[q] = call[q]
  BY DEF Goes, Call, Phases
<1>2. /\ strays' = strays /\ cancelOut' = cancelOut BY DEF Goes
<1>3. IdleOK' BY DEF IdleOK
<1> QED BY <1>1, <1>2, <1>3 DEF Calls

LEMMA CallOverIs ==
  ASSUME IInv, NEW r \in Requests, CallOver(r), adopting' = adopting
  PROVE  Calls(r) /\ call'[r] = NoCall /\ calls' = calls
<1> USE ClientAssumption DEF IInv, TypeOK, ClientTypeOK
<1>1. NoCall \in Call BY DEF NoCall, Call, Ops, Outcomes
<1>2. /\ call' \in [Requests -> Call] /\ call'[r] = NoCall
      /\ \A q \in Requests \ {r} : call'[q] = call[q]
  BY <1>1 DEF CallOver
<1>3. IdleOK' BY DEF CallOver, IdleOK
<1> QED BY <1>2, <1>3 DEF CallOver, Calls

\* A new call is asked for, unless the request was cancelled.
LEMMA StartIs ==
  ASSUME IInv, NEW r \in Requests, NEW op \in Ops, NEW k, StartCall(r, op, k),
         ~Live(r), adopting' = adopting
  PROVE  /\ Calls(r)
         /\ call'[r].op = op /\ call'[r].outcome = "error"
         /\ call'[r].phase \in {"native", "tid", "ready"}
         /\ call'[r].phase = "native" => call'[r].copies # 0
         /\ r \notin calls'
         /\ r \in cancelled => call'[r].phase = "ready"
<1>0. r \notin calls BY DEF IInv, Good, PhaseOK
<1>a. "error" \in Outcomes /\ 0 \in Nat BY DEF Outcomes
<1>b. 0 \in 0..MaxFiles /\ {"native", "tid"} \subseteq Phases
  BY ClientAssumption DEF Phases, Early
<1>1. CASE End(r, op, "error", 0)
  <2>1. /\ Calls(r)
        /\ call'[r] = [op |-> op, phase |-> "ready", copies |-> 0, outcome |-> "error"]
        /\ r \notin calls'
    BY <1>1, <1>a, EndIs
  <2> QED BY <2>1
<1>2. CASE /\ r \notin cancelled
           /\ \E n \in 1..MaxFiles : Goes(r, op, "native", n, "error")
           /\ UNCHANGED <<calls, idle>>
  <2>1. PICK n \in 1..MaxFiles : Goes(r, op, "native", n, "error") BY <1>2
  <2>2. n \in 0..MaxFiles /\ n # 0 BY ClientAssumption
  <2>3. /\ Calls(r)
        /\ call'[r] = [op |-> op, phase |-> "native", copies |-> n, outcome |-> "error"]
    BY <1>2, <1>a, <1>b, <2>1, <2>2, GoesIs
  <2> QED BY <1>0, <1>2, <2>2, <2>3
<1>3. CASE r \notin cancelled /\ Goes(r, op, "tid", 0, "error") /\ UNCHANGED <<calls, idle>>
  <2>1. /\ Calls(r)
        /\ call'[r] = [op |-> op, phase |-> "tid", copies |-> 0, outcome |-> "error"]
    BY <1>3, <1>a, <1>b, GoesIs
  <2> QED BY <1>0, <1>3, <2>1
<1> QED BY <1>1, <1>2, <1>3 DEF StartCall, CancelledAlready

-----------------------------------------------------------------------------
(* The steps of PkClient.                                                  *)

\* What holds of a request while a call is under way.
LEMMA InFlight ==
  ASSUME IInv, NEW r \in Requests, call[r].phase # "none"
  PROVE  /\ r \in array /\ question[r] = "none" /\ answer[r] = "no"
         /\ kind[r] # "none" /\ report[r] = "none"
         /\ call[r].phase \notin {"copying", "ready"} => r \notin carriedOut
         /\ call[r].op \in Ops /\ call[r].outcome \in Outcomes
         /\ call[r].copies \in 0..MaxFiles
<1>1. Good(r) BY DEF IInv
<1>2. call[r] \in Call BY DEF IInv, TypeOK, ClientTypeOK
<1> QED BY <1>1, <1>2 DEF Good, HolderOK, DoneOK, Call

\* A step of a call is a step of nothing else.
LEMMA RestStays ==
  ASSUME IInv, NEW r \in Requests, UNCHANGED <<restVars, cancelled, taskVars>>
  PROVE  Rest(r)
BY DEF Rest, IInv, TypeOK, ClientTypeOK, restVars, taskVars

LEMMA CallGoesOn ==
  ASSUME IInv, NEW r \in Requests, call[r].phase # "none",
         UNCHANGED <<kind, taskVars>>, call'[r].phase # "none", PhaseOK(r)',
         call'[r].phase \in {"copying", "ready"} /\ call'[r].op = "action"
           /\ call'[r].outcome = "success" => r \in carriedOut',
         r \in carriedOut' =>
           /\ call'[r].op = "action"
           /\ \/ call'[r].phase \in {"copying", "ready"} /\ call'[r].outcome = "success"
              \/ /\ call'[r].phase = "ready" /\ call'[r].outcome = "error"
                 /\ kind[r] = "download"
  PROVE  Good(r)'
<1>1. /\ r \in array' /\ question'[r] = "none" /\ answer'[r] = "no"
      /\ kind'[r] # "none" /\ report'[r] = "none" /\ kind'[r] = kind[r]
  BY InFlight DEF taskVars
<1>2. HolderOK(r)' BY <1>1 DEF HolderOK
<1>3. DoneOK(r)' BY <1>1 DEF DoneOK
<1> QED BY <1>2, <1>3 DEF Good

\* A call that ends without success.
LEMMA Fails ==
  ASSUME IInv, NEW r \in Requests, call[r].phase # "none",
         call[r].phase # "ready", NEW o \in Outcomes \ {"success"},
         NEW left \in Nat, End(r, call[r].op, o, left),
         r \in carriedOut => call[r].phase = "copying" /\ o = "error",
         UNCHANGED <<restVars, cancelled, taskVars>>
  PROVE  Calls(r) /\ Rest(r) /\ Good(r)'
<1>1. /\ call[r].op \in Ops /\ adopting' = adopting /\ kind' = kind
      /\ carriedOut' = carriedOut
  BY InFlight DEF restVars
<1>2. /\ Calls(r)
      /\ call'[r] = [op |-> call[r].op, phase |-> "ready", copies |-> 0, outcome |-> o]
      /\ r \notin calls'
  BY <1>1, EndIs
<1>3. PhaseOK(r)' BY <1>2 DEF PhaseOK
<1>4. r \in carriedOut => call[r].op = "action" /\ kind[r] = "download" /\ o = "error"
  BY DEF IInv, Good, PhaseOK
<1>5. Good(r)' BY <1>1, <1>2, <1>3, <1>4, CallGoesOn DEF restVars
<1> QED BY <1>2, <1>5, RestStays

\* A call that goes on before Finished.
LEMMA MovesOn ==
  ASSUME IInv, NEW r \in Requests, call[r].phase # "none",
         call[r].phase \notin {"copying", "ready"},
         NEW phase \in Phases \ {"copying"}, NEW n \in 0..MaxFiles,
         NEW o \in Outcomes, Goes(r, call[r].op, phase, n, o),
         phase = "native" => n # 0,
         UNCHANGED <<calls, idle, restVars, cancelled, taskVars>>
  PROVE  Calls(r) /\ Rest(r) /\ Good(r)'
<1>1. /\ call[r].op \in Ops /\ adopting' = adopting /\ kind' = kind
      /\ carriedOut' = carriedOut /\ r \notin carriedOut
  BY InFlight DEF restVars
<1>2. /\ Calls(r)
      /\ call'[r] = [op |-> call[r].op, phase |-> phase, copies |-> n, outcome |-> o]
  BY <1>1, GoesIs
<1>3. PhaseOK(r)' BY <1>2 DEF PhaseOK, Live, Phases, Late, Early
<1>4. phase # "ready" /\ phase # "none" /\ phase # "copying"
  BY DEF Phases, Late, Early
<1>5. Good(r)' BY <1>1, <1>2, <1>3, <1>4, CallGoesOn DEF restVars
<1> QED BY <1>2, <1>5, RestStays

\* Finished with an exit other than failed.
LEMMA FinishedIs ==
  ASSUME IInv, NEW r \in Requests, NEW exit \in Exits, Finished(r, exit),
         UNCHANGED taskVars
  PROVE  Calls(r) /\ Rest(r) /\ Good(r)'
<1>1. /\ call[r].phase = "running"
      /\ adopting' = adopting /\ kind' = kind /\ UNCHANGED <<alive, cancelled>>
  BY DEF Finished
<1>2. /\ call[r].op \in Ops /\ r \notin carriedOut /\ exit \in Outcomes
      /\ call[r].phase # "none"
  BY <1>1, InFlight DEF Outcomes
<1>3. /\ carriedOut' \subseteq Requests
      /\ r \in carriedOut' <=> exit = "success" /\ call[r].op = "action"
      /\ \A q \in Requests \ {r} : q \in carriedOut' <=> q \in carriedOut
  BY <1>2 DEF Finished, IInv, TypeOK, ClientTypeOK
<1>4. Rest(r)
  BY <1>1, <1>3 DEF Rest, IInv, TypeOK, ClientTypeOK, taskVars
<1>5. CASE Copies(r)
  <2>1. PICK n \in 0..MaxFiles : Goes(r, call[r].op, "copying", n, exit)
    BY <1>5 DEF Finished
  <2>2. UNCHANGED <<calls, idle>> BY <1>5 DEF Finished
  <2>3. "copying" \in Phases BY DEF Phases, Late
  <2>4. /\ Calls(r)
        /\ call'[r] = [op |-> call[r].op, phase |-> "copying", copies |-> n,
                       outcome |-> exit]
    BY <1>1, <1>2, <2>1, <2>2, <2>3, GoesIs
  <2>5. call[r].op = "action" /\ kind[r] = "download" BY <1>5 DEF Copies
  <2>6. PhaseOK(r)' BY <1>1, <2>3, <2>4, <2>5 DEF PhaseOK, Live
  <2>7. Good(r)' BY <1>1, <1>2, <1>3, <2>4, <2>5, <2>6, CallGoesOn
  <2> QED BY <1>4, <2>4, <2>7
<1>6. CASE ~Copies(r)
  <2>1. End(r, call[r].op, exit, 0) /\ 0 \in Nat BY <1>6 DEF Finished
  <2>2. /\ Calls(r)
        /\ call'[r] = [op |-> call[r].op, phase |-> "ready", copies |-> 0,
                       outcome |-> exit]
        /\ r \notin calls'
    BY <1>1, <1>2, <2>1, EndIs
  <2>3. PhaseOK(r)' BY <2>2 DEF PhaseOK
  <2>4. Good(r)' BY <1>1, <1>2, <1>3, <2>2, <2>3, CallGoesOn
  <2> QED BY <1>4, <2>2, <2>4
<1> QED BY <1>5, <1>6

LEMMA CopiedDownloadIs ==
  ASSUME IInv, NEW r \in Requests, CopiedDownload(r), UNCHANGED taskVars
  PROVE  Calls(r) /\ Rest(r) /\ Good(r)'
<1>1. /\ call[r].phase = "copying" /\ call[r].copies > 0
      /\ UNCHANGED <<restVars, cancelled>>
  BY DEF CopiedDownload
<1>2. /\ call[r].op \in Ops /\ call[r].outcome \in Outcomes
      /\ call[r].copies \in 0..MaxFiles /\ adopting' = adopting /\ kind' = kind
      /\ carriedOut' = carriedOut /\ call[r].phase # "none"
  BY <1>1, InFlight DEF restVars
<1>3. /\ call[r].op = "action" /\ kind[r] = "download"
      /\ r \in carriedOut <=> call[r].outcome = "success"
  <2>1. r \in array BY <1>2, InFlight
  <2>2. Good(r) BY DEF IInv
  <2> QED BY <1>1, <2>1, <2>2 DEF Good, PhaseOK, DoneOK
<1>4. CASE call[r].copies = 1
  <2>1. End(r, call[r].op, call[r].outcome, 0) /\ 0 \in Nat BY <1>4 DEF CopiedDownload
  <2>2. /\ Calls(r)
        /\ call'[r] = [op |-> call[r].op, phase |-> "ready", copies |-> 0,
                       outcome |-> call[r].outcome]
        /\ r \notin calls'
    BY <1>2, <2>1, EndIs
  <2>3. PhaseOK(r)' BY <2>2 DEF PhaseOK
  <2>4. Good(r)' BY <1>2, <1>3, <2>2, <2>3, CallGoesOn
  <2> QED BY <1>1, <2>2, <2>4, RestStays
<1>5. CASE call[r].copies # 1
  <2>1. /\ Goes(r, call[r].op, "copying", call[r].copies - 1, call[r].outcome)
        /\ UNCHANGED <<calls, idle>>
    BY <1>5 DEF CopiedDownload
  <2>2. call[r].copies - 1 \in 0..MaxFiles BY <1>1, <1>2, ClientAssumption
  <2>3. "copying" \in Phases BY DEF Phases, Late
  <2>4. /\ Calls(r)
        /\ call'[r] = [op |-> call[r].op, phase |-> "copying",
                       copies |-> call[r].copies - 1, outcome |-> call[r].outcome]
    BY <1>2, <2>1, <2>2, <2>3, GoesIs
  <2>5. PhaseOK(r)' BY <1>2, <1>3, <2>3, <2>4 DEF PhaseOK, Live
  <2>6. Good(r)' BY <1>2, <1>3, <2>4, <2>5, CallGoesOn
  <2> QED BY <1>1, <2>4, <2>6, RestStays
<1> QED BY <1>4, <1>5

\* pk_client_get_proxy_cb is the one that adds to the array of calls.
LEMMA GetProxyIs ==
  ASSUME IInv, NEW r \in Requests, GetProxy(r), UNCHANGED taskVars
  PROVE  Calls(r) /\ Rest(r) /\ Good(r)'
<1>1. /\ call[r].phase = "proxy" /\ UNCHANGED <<idle, restVars, cancelled>>
      /\ Goes(r, call[r].op, "hints", 0, "error") /\ calls' = calls \cup {r}
  BY DEF GetProxy
<1>2. /\ call[r].op \in Ops /\ adopting' = adopting /\ kind' = kind
      /\ carriedOut' = carriedOut /\ call[r].phase # "none" /\ r \notin carriedOut
  BY <1>1, InFlight DEF restVars
<1>3. /\ call' \in [Requests -> Call]
      /\ call'[r] = [op |-> call[r].op, phase |-> "hints", copies |-> 0,
                     outcome |-> "error"]
      /\ \A q \in Requests \ {r} : call'[q] = call[q]
  BY <1>1, <1>2, ClientAssumption
  DEF Goes, Call, Phases, Late, Outcomes, IInv, TypeOK, ClientTypeOK
<1>4. Calls(r)
  BY <1>1, <1>3 DEF Goes, Calls, IdleOK, IInv, TypeOK, ClientTypeOK
<1>5. PhaseOK(r)' BY <1>3 DEF PhaseOK, Live, Phases, Late
<1>6. Good(r)' BY <1>2, <1>3, <1>5, CallGoesOn
<1> QED BY <1>1, <1>4, <1>6, RestStays

\* A step that leaves the calls alone.
LEMMA CallsStay ==
  ASSUME IInv, NEW r \in Requests, UNCHANGED <<call, calls, idle, adopting>>,
         strays' \in Nat,
         cancelOut' \subseteq Requests
  PROVE  Calls(r)
BY DEF Calls, IdleOK, IInv, TypeOK, ClientTypeOK

\* The end of the process.
LEMMA DeathIs ==
  ASSUME IInv, NEW r \in Requests, Dies,
         UNCHANGED <<call, kind, cancelled, carriedOut, taskVars>>
  PROVE  Calls(r) /\ Rest(r) /\ Good(r)'
<1>1. Calls(r) BY DEF Dies, Calls, IdleOK, IInv, TypeOK, ClientTypeOK
<1>2. Rest(r) BY DEF Dies, Rest, IInv, TypeOK, ClientTypeOK, taskVars
<1>3. Good(r) BY DEF IInv
<1>4. Good(r)' BY <1>3 DEF Dies, taskVars, Good, HolderOK, PhaseOK, DoneOK, Live
<1> QED BY <1>1, <1>2, <1>4

LEMMA AnsweredIs ==
  ASSUME IInv, NEW r \in Requests, Answered(r), UNCHANGED taskVars
  PROVE  Calls(r) /\ Rest(r) /\ Good(r)'
<1>0. /\ call[r].phase # "none" /\ call[r].phase # "ready" =>
           /\ call[r].copies \in 0..MaxFiles /\ call[r].outcome \in Outcomes
           /\ call[r].op \in Ops
           /\ call[r].phase # "copying" => r \notin carriedOut
      /\ call[r].phase = "native" => call[r].copies # 0
      /\ 0 \in Nat /\ 0 \in 0..MaxFiles /\ MaxFiles \in Nat /\ "error" \in Outcomes
  BY InFlight, ClientAssumption DEF IInv, Good, PhaseOK, Outcomes
<1>a. {"native", "tid", "proxy", "hints", "method", "running"} \subseteq Phases \ {"copying"}
  BY DEF Phases, Early, Late
<1>1. CASE CopiedNative(r)
  <2>1. CASE call[r].copies = 1
    <3>1. /\ Goes(r, call[r].op, "tid", 0, call[r].outcome) /\ UNCHANGED <<calls, idle>>
      BY <1>1, <2>1 DEF CopiedNative, GoesTo
    <3>2. call[r].phase = "native" /\ UNCHANGED <<restVars, cancelled>>
      BY <1>1 DEF CopiedNative
    <3> QED BY <1>0, <1>a, <3>1, <3>2, MovesOn
  <2>2. CASE call[r].copies # 1
    <3>1. /\ Goes(r, call[r].op, "native", call[r].copies - 1, "error")
          /\ UNCHANGED <<calls, idle>>
      BY <1>1, <2>2 DEF CopiedNative
    <3>2. call[r].phase = "native" /\ UNCHANGED <<restVars, cancelled>>
      BY <1>1 DEF CopiedNative
    <3>3. call[r].copies - 1 \in 0..MaxFiles /\ call[r].copies - 1 # 0
      BY <1>0, <2>2, <3>2
    <3> QED BY <1>0, <1>a, <3>1, <3>2, <3>3, MovesOn
  <2> QED BY <2>1, <2>2
<1>2. CASE CopyNativeFails(r)
  <2>1. /\ call[r].phase = "native" /\ UNCHANGED <<restVars, cancelled>>
        /\ End(r, call[r].op, "error", call[r].copies - 1)
    BY <1>2 DEF CopyNativeFails
  <2>2. call[r].copies - 1 \in Nat BY <1>0, <2>1
  <2> QED BY <1>0, <2>1, <2>2, Fails
<1>3. CASE GetTid(r) \/ SetHints(r) \/ MethodReturns(r)
  <2>1. PICK phase \in {"proxy", "method", "running"} :
          GoesTo(r, phase) /\ (phase # "native")
    BY <1>3 DEF GetTid, SetHints, MethodReturns
  <2>2. /\ call[r].phase \in {"tid", "hints", "method"}
        /\ UNCHANGED <<restVars, cancelled>>
    BY <1>3 DEF GetTid, SetHints, MethodReturns
  <2>3. Goes(r, call[r].op, phase, 0, call[r].outcome) /\ UNCHANGED <<calls, idle>>
    BY <2>1 DEF GoesTo
  <2>4. phase \in Phases \ {"copying"} BY <1>a
  <2> QED BY <1>0, <2>1, <2>2, <2>3, <2>4, MovesOn
<1>4. CASE \/ GetTidFails(r) \/ SetHintsFails(r) \/ MethodFails(r)
           \/ FinishedFailed(r) \/ FinishedEarly(r)
  <2>1. /\ call[r].phase \in {"tid", "hints", "method", "running"}
        /\ UNCHANGED <<restVars, cancelled>>
    BY <1>4
    DEF GetTidFails, SetHintsFails, MethodFails, FinishedFailed, FinishedEarly
  <2>2. \E o \in Outcomes \ {"success"} : \E left \in Nat : End(r, call[r].op, o, left)
    <3>1. ASSUME call[r].phase \in {"hints", "method", "running"}
          PROVE  LateReplies(r) \in Nat
      BY <3>1 DEF LateReplies
    <3>2. {"error", "not-supported", "nothing", "other"} \subseteq Outcomes \ {"success"}
      BY DEF Outcomes, Exits
    <3>3. CASE GetTidFails(r) \/ SetHintsFails(r) \/ MethodFails(r)
      BY <1>0, <3>2, <3>3 DEF GetTidFails, SetHintsFails, MethodFails, ErrorsOf
    <3>4. CASE FinishedFailed(r) BY <3>1, <3>2, <3>4 DEF FinishedFailed
    <3>5. CASE FinishedEarly(r) BY <3>1, <3>2, <3>5 DEF FinishedEarly
    <3> QED BY <1>4, <3>3, <3>4, <3>5
  <2> QED BY <1>0, <2>1, <2>2, Fails
<1>5. CASE GetProxy(r) BY <1>5, GetProxyIs
<1>6. CASE GetProxyFails(r)
  BY <1>6, DeathIs DEF GetProxyFails
<1>7. CASE \E exit \in Exits : Finished(r, exit) BY <1>7, FinishedIs
<1>8. CASE CopiedDownload(r) BY <1>8, CopiedDownloadIs
<1>9. CASE CopyDownloadFails(r)
  <2>1. /\ call[r].phase = "copying" /\ call[r].copies > 0
        /\ UNCHANGED <<restVars, cancelled>>
        /\ End(r, call[r].op, "error", call[r].copies - 1)
    BY <1>9 DEF CopyDownloadFails
  <2>2. call[r].copies - 1 \in Nat BY <1>0, <2>1
  <2> QED BY <1>0, <2>1, <2>2, Fails
<1> QED
  BY <1>1, <1>2, <1>3, <1>4, <1>5, <1>6, <1>7, <1>8, <1>9 DEF Answered

\* The steps that are about no phase of a call.
LEMMA BesideIs ==
  ASSUME IInv, NEW r \in Requests, UNCHANGED taskVars,
         DaemonLost(r) \/ CancelReply(r) \/ Cancel(r)
  PROVE  Calls(r) /\ Rest(r) /\ Good(r)'
<1>1. CASE DaemonLost(r)
  <2>1. /\ call[r].phase = "running" /\ UNCHANGED <<calls, idle, restVars, cancelled>>
        /\ Goes(r, call[r].op, "lost", 0, call[r].outcome)
    BY <1>1 DEF DaemonLost, GoesTo
  <2>2. /\ call[r].outcome \in Outcomes /\ 0 \in 0..MaxFiles
        /\ "lost" \in Phases \ {"copying"}
    BY <2>1, InFlight, ClientAssumption DEF Phases, Late
  <2> QED BY <2>1, <2>2, MovesOn
<1>2. CASE CancelReply(r) \/ Cancel(r)
  <2>1. /\ UNCHANGED <<call, calls, idle, adopting, kind, carriedOut>>
        /\ alive' \in BOOLEAN /\ cancelled' \subseteq Requests
        /\ strays' \in Nat
        /\ cancelOut' \subseteq Requests
    <3>1. CASE CancelReply(r)
      BY <3>1 DEF CancelReply, restVars, IInv, TypeOK, ClientTypeOK
    <3>2. CASE Cancel(r)
      BY <3>2 DEF Cancel, IInv, TypeOK, ClientTypeOK
    <3> QED BY <1>2, <3>1, <3>2
  <2>2. Calls(r) BY <2>1, CallsStay
  <2>3. Rest(r) BY <2>1 DEF Rest, IInv, TypeOK, ClientTypeOK, taskVars
  <2>4. Good(r) BY DEF IInv
  <2>5. Good(r)' BY <2>1, <2>4 DEF taskVars, Good, HolderOK, PhaseOK, DoneOK, Live
  <2> QED BY <2>2, <2>3, <2>5
<1> QED BY <1>1, <1>2

\* The steps that are about no call.
LEMMA AdoptKeeps ==
  ASSUME IInv, UNCHANGED taskVars, Adopt \/ AdoptEnds \/ Stray
  PROVE  IInv'
<1>1. /\ UNCHANGED <<call, kind, cancelled, carriedOut>>
      /\ alive' \in BOOLEAN /\ adopting' \in BOOLEAN /\ idle' \in BOOLEAN
      /\ strays' \in Nat /\ cancelOut' \subseteq Requests /\ calls' \subseteq calls
      /\ IdleOK'
  <2>1. CASE Adopt \/ AdoptEnds
    BY <2>1 DEF Adopt, AdoptEnds, IdleOK, IInv, TypeOK, ClientTypeOK
  <2>2. CASE Stray
    <3>1. CASE Dies
      BY <2>2, <3>1 DEF Stray, Dies, IdleOK, IInv, TypeOK, ClientTypeOK
    <3>2. CASE ~Dies
      <4>1. /\ strays \in Nat /\ strays > 0 /\ strays' = strays - 1
            /\ UNCHANGED <<alive, cancelOut, calls, adopting, idle>>
            /\ UNCHANGED <<call, kind, cancelled, carriedOut>>
        BY <2>2, <3>2 DEF Stray, IInv, TypeOK, ClientTypeOK
      <4> QED BY <4>1 DEF IdleOK, IInv, TypeOK, ClientTypeOK
    <3> QED BY <3>1, <3>2
  <2> QED BY <2>1, <2>2
<1>2. TypeOK' BY <1>1 DEF IInv, TypeOK, ClientTypeOK, taskVars
<1>3. ASSUME NEW r \in Requests PROVE Good(r)'
  <2>1. Good(r) BY DEF IInv
  <2> QED BY <1>1, <2>1 DEF taskVars, Good, HolderOK, PhaseOK, DoneOK, Live
<1> QED BY <1>1, <1>2, <1>3 DEF IInv

-----------------------------------------------------------------------------
(* The steps of PkTask.                                                    *)

\* The request goes on with another call.
LEMMA AsksAgain ==
  ASSUME IInv, NEW r \in Requests, NEW op \in Ops, NEW k, StartCall(r, op, k),
         ~Live(r), UNCHANGED <<adopting, carriedOut>>, r \notin carriedOut,
         r \in array', kind'[r] # "none", report'[r] = "none",
         question'[r] = "none", answer'[r] = "no"
  PROVE  Calls(r) /\ Good(r)'
<1>1. /\ Calls(r)
      /\ call'[r].op = op /\ call'[r].outcome = "error"
      /\ call'[r].phase \in {"native", "tid", "ready"}
      /\ call'[r].phase = "native" => call'[r].copies # 0
      /\ r \notin calls'
  BY StartIs
<1>2. HolderOK(r)' BY <1>1 DEF HolderOK
<1>3. PhaseOK(r)' BY <1>1 DEF PhaseOK
<1>4. DoneOK(r)' BY <1>1 DEF DoneOK
<1> QED BY <1>1, <1>2, <1>3, <1>4 DEF Good

\* The request waits for the user, or for the idle source of an answer.
LEMMA Waits ==
  ASSUME IInv, NEW r \in Requests, CallOver(r), ~Live(r),
         UNCHANGED <<adopting, carriedOut>>, r \notin carriedOut,
         r \in array', kind'[r] # "none", report'[r] = "none",
         \/ question'[r] = "none" /\ answer'[r] # "no"
         \/ question'[r] # "none" /\ answer'[r] = "no"
  PROVE  Calls(r) /\ Good(r)'
<1>1. Calls(r) /\ call'[r] = NoCall /\ calls' = calls BY CallOverIs
<1>2. call'[r].phase = "none" BY <1>1 DEF NoCall
<1>3. r \notin calls' BY <1>1 DEF IInv, Good, PhaseOK
<1>4. HolderOK(r)' BY <1>2 DEF HolderOK
<1>5. PhaseOK(r)' BY <1>2, <1>3 DEF PhaseOK
<1>6. DoneOK(r)' BY <1>2 DEF DoneOK
<1> QED BY <1>1, <1>4, <1>5, <1>6 DEF Good

\* The request ends, with an outcome that is true.
LEMMA EndsTruly ==
  ASSUME IInv, NEW r \in Requests, NEW o \in Outcomes, CallOver(r),
         StateFinish(r, o), ~Live(r), UNCHANGED restVars, r \in array,
         UNCHANGED question, answer' \in [Requests -> {"no", "accept", "decline"}],
         \A q \in Requests \ {r} : answer'[q] = answer[q],
         question[r] = "none", answer'[r] = "no",
         \/ o = "success" <=> r \in carriedOut
         \/ kind[r] = "download" /\ o = "error"
  PROVE  Calls(r) /\ Rest(r) /\ Good(r)'
<1>0. adopting' = adopting /\ kind' = kind /\ carriedOut' = carriedOut /\ alive' = alive
  BY DEF restVars
<1>1. Calls(r) /\ call'[r] = NoCall /\ calls' = calls BY <1>0, CallOverIs
<1>2. call'[r].phase = "none" BY <1>1 DEF NoCall
<1>3. r \notin calls' /\ kind[r] # "none"
  BY <1>1 DEF IInv, Good, PhaseOK, DoneOK
<1>4. PICK w \in {"success", "other", "error", "nothing"} :
        /\ report' = [report EXCEPT ![r] = w]
        /\ w = "success" <=> o = "success"
        /\ o = "error" => w = "error"
  BY Zenon DEF StateFinish, IsError
<1>5. /\ report'[r] = w /\ report' \in [Requests -> {"none", "success", "other", "error", "nothing"}]
      /\ \A q \in Requests \ {r} : report'[q] = report[q]
  BY <1>4 DEF IInv, TypeOK
<1>6. HolderOK(r)' BY <1>2 DEF HolderOK, StateFinish
<1>7. PhaseOK(r)' BY <1>2, <1>3 DEF PhaseOK
<1>8. DoneOK(r)' BY <1>0, <1>2, <1>3, <1>4, <1>5 DEF DoneOK, StateFinish
<1>9. Rest(r)
  BY <1>0, <1>5 DEF Rest, StateFinish, IInv, TypeOK, ClientTypeOK
<1> QED BY <1>1, <1>6, <1>7, <1>8, <1>9 DEF Good

\* What holds of a request when the callback of its call runs.
LEMMA ReadyFacts ==
  ASSUME IInv, NEW r \in Requests, NEW op, Ended(r, op)
  PROVE  /\ r \in array /\ question[r] = "none" /\ answer[r] = "no"
         /\ kind[r] # "none" /\ report[r] = "none" /\ ~Live(r)
         /\ call[r].outcome \in Outcomes
         /\ op # "action" => r \notin carriedOut
         /\ call[r].outcome \notin {"success", "error"} => r \notin carriedOut
         /\ op = "action" /\ call[r].outcome = "success" => r \in carriedOut
         /\ call[r].outcome = "error" /\ r \in carriedOut => kind[r] = "download"
<1>1. call[r].phase = "ready" /\ call[r].op = op BY DEF Ended
<1>2. r \in array /\ call[r].outcome \in Outcomes BY <1>1, InFlight
<1>3. Good(r) BY DEF IInv
<1> QED
  BY <1>1, <1>2, <1>3, InFlight DEF Good, DoneOK, Live, Phases, Early, Late

LEMMA StartKeeps ==
  ASSUME IInv, NEW r \in Requests, NEW k \in Kinds, Start(r, k)
  PROVE  Calls(r) /\ Rest(r) /\ Good(r)'
<1>1. kind[r] = "none" /\ Good(r) BY DEF Start, IInv
<1>2. /\ r \notin array /\ r \notin carriedOut /\ report[r] = "none"
      /\ call[r].phase = "none" /\ question[r] = "none" /\ answer[r] = "no"
  BY <1>1 DEF Good, HolderOK, DoneOK
<1>3. ~Live(r) BY <1>2 DEF Live, Phases, Early, Late
<1>4. /\ UNCHANGED <<adopting, carriedOut>> /\ r \in array' /\ kind'[r] = k
      /\ k # "none" /\ report'[r] = "none" /\ question'[r] = "none"
      /\ answer'[r] = "no"
  BY <1>2 DEF Start, IInv, TypeOK, ClientTypeOK, Kinds
<1>5. PICK op \in Ops : StartCall(r, op, k)
  BY DEF Start, DoAction, DoSimulate, Ops
<1>6. Calls(r) /\ Good(r)' BY <1>2, <1>3, <1>4, <1>5, AsksAgain
<1>7. Rest(r) BY DEF Start, Rest, IInv, TypeOK, ClientTypeOK
<1> QED BY <1>6, <1>7

LEMMA SimulateReadyKeeps ==
  ASSUME IInv, NEW r \in Requests, SimulateReady(r)
  PROVE  Calls(r) /\ Rest(r) /\ Good(r)'
<1>1. Ended(r, "simulate") /\ UNCHANGED restVars BY DEF SimulateReady
<1>2. /\ r \in array /\ question[r] = "none" /\ answer[r] = "no"
      /\ kind[r] # "none" /\ report[r] = "none" /\ ~Live(r)
      /\ call[r].outcome \in Outcomes /\ r \notin carriedOut
  BY <1>1, ReadyFacts
<1>3. UNCHANGED <<kind, adopting, carriedOut>> BY <1>1 DEF restVars
<1>a. "action" \in Ops BY DEF Ops
<1>4. CASE DoAction(r, kind[r]) /\ UNCHANGED <<cancelled, taskVars>>
  <2>1. Calls(r) /\ Good(r)'
    BY <1>2, <1>3, <1>4, <1>a, AsksAgain DEF DoAction, taskVars
  <2> QED BY <1>1, <1>4, <2>1, RestStays
<1>5. CASE call[r].outcome # "success" /\ Ends(r, call[r].outcome)
  BY <1>1, <1>2, <1>5, EndsTruly DEF Ends, IInv, TypeOK
<1>6. CASE /\ NoteExit(r, "success") /\ UNCHANGED answer
           /\ \/ DoAction(r, kind[r]) /\ UNCHANGED question
              \/ /\ question' = [question EXCEPT ![r] = "simulate"]
                 /\ CallOver(r)
  <2>1. /\ question' \in [Requests -> Questions \cup {"none"}]
        /\ \A q \in Requests \ {r} : question'[q] = question[q]
    BY <1>6 DEF IInv, TypeOK, Questions
  <2>2. Rest(r)
    BY <1>1, <1>6, <2>1 DEF Rest, NoteExit, restVars, IInv, TypeOK, ClientTypeOK
  <2>3. CASE DoAction(r, kind[r]) /\ UNCHANGED question
    <3>1. Calls(r) /\ Good(r)'
      BY <1>2, <1>3, <1>6, <1>a, <2>3, AsksAgain DEF DoAction, NoteExit
    <3> QED BY <2>2, <3>1
  <2>4. CASE question' = [question EXCEPT ![r] = "simulate"] /\ CallOver(r)
    <3>1. question'[r] # "none" BY <2>4 DEF IInv, TypeOK
    <3>2. Calls(r) /\ Good(r)'
      BY <1>2, <1>3, <1>6, <2>4, <3>1, Waits DEF NoteExit
    <3> QED BY <2>2, <3>2
  <2> QED BY <1>6, <2>3, <2>4
<1> QED BY <1>4, <1>5, <1>6 DEF SimulateReady

LEMMA ActionReadyKeeps ==
  ASSUME IInv, NEW r \in Requests, ActionReady(r)
  PROVE  Calls(r) /\ Rest(r) /\ Good(r)'
<1>1. Ended(r, "action") /\ UNCHANGED restVars BY DEF ActionReady
<1>2. /\ r \in array /\ question[r] = "none" /\ answer[r] = "no"
      /\ kind[r] # "none" /\ report[r] = "none" /\ ~Live(r)
      /\ call[r].outcome \in Outcomes
      /\ call[r].outcome \notin {"success", "error"} => r \notin carriedOut
      /\ call[r].outcome = "success" => r \in carriedOut
      /\ call[r].outcome = "error" /\ r \in carriedOut => kind[r] = "download"
  BY <1>1, ReadyFacts
<1>3. UNCHANGED <<kind, adopting, carriedOut>> BY <1>1 DEF restVars
<1>a. "action" \in Ops BY DEF Ops
<1>4. CASE Ends(r, call[r].outcome)
  BY <1>1, <1>2, <1>4, EndsTruly DEF Ends, IInv, TypeOK
<1>5. CASE call[r].outcome \in {"again", "key", "eula"} /\ Ask(r, call[r].outcome)
  <2>0. CallOver(r) /\ r \notin carriedOut BY <1>2, <1>5 DEF Ask
  <2>1. CASE /\ answer' = [answer EXCEPT ![r] = "accept"]
             /\ NoteExit(r, call[r].outcome) /\ UNCHANGED question
    <3>1. /\ answer' \in [Requests -> {"no", "accept", "decline"}] /\ answer'[r] # "no"
          /\ \A q \in Requests \ {r} : answer'[q] = answer[q]
      BY <2>1 DEF IInv, TypeOK
    <3>2. Rest(r)
      BY <1>1, <2>1, <3>1 DEF Rest, NoteExit, restVars, IInv, TypeOK, ClientTypeOK
    <3>3. Calls(r) /\ Good(r)'
      BY <1>2, <1>3, <2>0, <2>1, <3>1, Waits DEF NoteExit
    <3> QED BY <3>2, <3>3
  <2>2. CASE StateFinish(r, "error") /\ UNCHANGED <<question, answer>>
    <3>1. "error" \in Outcomes BY DEF Outcomes
    <3> QED BY <1>1, <1>2, <2>0, <2>2, <3>1, EndsTruly DEF IInv, TypeOK
  <2>3. CASE /\ question' = [question EXCEPT ![r] = call[r].outcome]
             /\ NoteExit(r, call[r].outcome) /\ UNCHANGED answer
    <3>1. /\ question' \in [Requests -> Questions \cup {"none"}] /\ question'[r] # "none"
          /\ \A q \in Requests \ {r} : question'[q] = question[q]
      BY <1>5, <2>3 DEF IInv, TypeOK, Questions
    <3>2. Rest(r)
      BY <1>1, <2>3, <3>1 DEF Rest, NoteExit, restVars, IInv, TypeOK, ClientTypeOK
    <3>3. Calls(r) /\ Good(r)'
      BY <1>2, <1>3, <2>0, <2>3, <3>1, Waits DEF NoteExit
    <3> QED BY <3>2, <3>3
  <2> QED BY <1>5, <2>1, <2>2, <2>3 DEF Ask
<1>6. CASE /\ call[r].outcome = "priority" /\ NoteExit(r, call[r].outcome)
           /\ DoAction(r, kind[r]) /\ UNCHANGED <<question, answer>>
  <2>1. Calls(r) /\ Good(r)'
    BY <1>2, <1>3, <1>6, <1>a, AsksAgain DEF DoAction, NoteExit
  <2>2. Rest(r)
    BY <1>1, <1>6 DEF Rest, NoteExit, restVars, IInv, TypeOK, ClientTypeOK
  <2> QED BY <2>1, <2>2
<1> QED BY <1>4, <1>5, <1>6 DEF ActionReady

LEMMA StepReadyKeeps ==
  ASSUME IInv, NEW r \in Requests, StepReady(r)
  PROVE  Calls(r) /\ Rest(r) /\ Good(r)'
<1>1. UNCHANGED restVars BY DEF StepReady
<1>2. /\ r \in array /\ question[r] = "none" /\ answer[r] = "no"
      /\ kind[r] # "none" /\ report[r] = "none" /\ ~Live(r) /\ r \notin carriedOut
  BY ReadyFacts DEF StepReady
<1>3. UNCHANGED <<kind, adopting, carriedOut>> BY <1>1 DEF restVars
<1>4. CASE \E o \in {"error", "nothing"} : Ends(r, o)
  <2>1. PICK o \in {"error", "nothing"} : Ends(r, o) BY <1>4
  <2>2. o \in Outcomes /\ o # "success" BY DEF Outcomes
  <2> QED BY <1>1, <1>2, <2>1, <2>2, EndsTruly DEF Ends, IInv, TypeOK
<1>5. CASE /\ call[r].outcome = "success" /\ NoteExit(r, call[r].outcome)
           /\ DoAction(r, kind[r]) /\ UNCHANGED <<question, answer>>
  <2>1. Calls(r) /\ Good(r)'
    BY <1>2, <1>3, <1>5, AsksAgain DEF DoAction, NoteExit, Ops
  <2>2. Rest(r)
    BY <1>1, <1>5 DEF Rest, NoteExit, restVars, IInv, TypeOK, ClientTypeOK
  <2> QED BY <2>1, <2>2
<1> QED BY <1>4, <1>5 DEF StepReady

\* What holds of a request that waits for its user, or for an idle source.
LEMMA WaitFacts ==
  ASSUME IInv, NEW r \in Requests, question[r] # "none" \/ answer[r] # "no"
  PROVE  /\ r \in array /\ call[r].phase = "none" /\ ~Live(r) /\ r \notin carriedOut
         /\ r \notin calls /\ kind[r] # "none" /\ report[r] = "none"
         /\ question[r] # "none" => answer[r] = "no"
         /\ answer[r] # "no" => question[r] = "none"
<1>1. Good(r) BY DEF IInv
<1> QED BY <1>1 DEF Good, HolderOK, PhaseOK, DoneOK, Live, Phases, Early, Late

LEMMA AnswerKeeps ==
  ASSUME IInv, NEW r \in Requests, NEW a \in {"accept", "decline"}, Answer(r, a)
  PROVE  Calls(r) /\ Rest(r) /\ Good(r)'
<1>1. /\ question[r] # "none" /\ question' = [question EXCEPT ![r] = "none"]
      /\ UNCHANGED <<stateVars, restVars, cancelled, array, exitEnum, report>>
  BY DEF Answer
<1>2. /\ r \in array /\ call[r].phase = "none" /\ r \notin carriedOut
      /\ r \notin calls /\ kind[r] # "none" /\ report[r] = "none"
  BY <1>1, WaitFacts
<1>3. answer' = [answer EXCEPT ![r] = a] BY <1>2 DEF Answer
<1>4. /\ question'[r] = "none" /\ answer'[r] = a
      /\ question' \in [Requests -> Questions \cup {"none"}]
      /\ answer' \in [Requests -> {"no", "accept", "decline"}]
      /\ \A q \in Requests \ {r} : question'[q] = question[q] /\ answer'[q] = answer[q]
  BY <1>1, <1>3 DEF IInv, TypeOK
<1>5. Calls(r)
  BY <1>1, CallsStay DEF stateVars, restVars, IInv, TypeOK, ClientTypeOK
<1>6. Rest(r)
  BY <1>1, <1>4 DEF Rest, restVars, IInv, TypeOK, ClientTypeOK
<1>7. Good(r)'
  BY <1>1, <1>2, <1>4 DEF stateVars, restVars, Good, HolderOK, PhaseOK, DoneOK
<1> QED BY <1>5, <1>6, <1>7

LEMMA AcceptedKeeps ==
  ASSUME IInv, NEW r \in Requests, Accepted(r)
  PROVE  Calls(r) /\ Rest(r) /\ Good(r)'
<1>1. /\ answer[r] = "accept" /\ answer' = [answer EXCEPT ![r] = "no"]
      /\ UNCHANGED <<restVars, question>>
  BY DEF Accepted
<1>2. /\ r \in array /\ ~Live(r) /\ r \notin carriedOut
      /\ kind[r] # "none" /\ report[r] = "none" /\ question[r] = "none"
  BY <1>1, WaitFacts
<1>3. /\ answer' \in [Requests -> {"no", "accept", "decline"}] /\ answer'[r] = "no"
      /\ \A q \in Requests \ {r} : answer'[q] = answer[q]
  BY <1>1 DEF IInv, TypeOK
<1>4. CASE StateFinish(r, "error") /\ CallOver(r)
  <2>1. "error" \in Outcomes BY DEF Outcomes
  <2> QED BY <1>1, <1>2, <1>3, <1>4, <2>1, EndsTruly
<1>5. CASE /\ \E op \in Ops : StartCall(r, op, kind[r])
           /\ UNCHANGED <<array, cancelled, exitEnum, report>>
  <2>1. Calls(r) /\ Good(r)'
    BY <1>1, <1>2, <1>3, <1>5, AsksAgain DEF restVars
  <2>2. Rest(r)
    BY <1>1, <1>3, <1>5 DEF Rest, restVars, IInv, TypeOK, ClientTypeOK
  <2> QED BY <2>1, <2>2
<1>6. {"action", "signature", "eula"} \subseteq Ops BY DEF Ops
<1> QED BY <1>4, <1>5, <1>6 DEF Accepted, DoAction

LEMMA DeclinedKeeps ==
  ASSUME IInv, NEW r \in Requests, Declined(r)
  PROVE  Calls(r) /\ Rest(r) /\ Good(r)'
<1>1. /\ answer[r] = "decline" /\ answer' = [answer EXCEPT ![r] = "no"]
      /\ UNCHANGED <<restVars, question>> /\ StateFinish(r, "error") /\ CallOver(r)
  BY DEF Declined
<1>2. /\ r \in array /\ ~Live(r) /\ r \notin carriedOut /\ question[r] = "none"
  BY <1>1, WaitFacts
<1>3. /\ answer' \in [Requests -> {"no", "accept", "decline"}] /\ answer'[r] = "no"
      /\ \A q \in Requests \ {r} : answer'[q] = answer[q]
  BY <1>1 DEF IInv, TypeOK
<1>4. "error" \in Outcomes BY DEF Outcomes
<1> QED BY <1>1, <1>2, <1>3, <1>4, EndsTruly

-----------------------------------------------------------------------------
(* The theorems.                                                           *)

LEMMA InitIs == Init => IInv
<1>1. NoCall \in Call BY ClientAssumption DEF NoCall, Call, Ops, Outcomes
<1>2. Init => ClientTypeOK
  <2> SUFFICES ASSUME Init PROVE ClientTypeOK
    OBVIOUS
  <2>1. call \in [Requests -> Call] BY <1>1 DEF Init, ClientInit
  <2>2. strays \in Nat BY DEF Init, ClientInit
  <2>3. /\ kind \in [Requests -> Kinds \cup {"none"}]
        /\ cancelOut \subseteq Requests
    BY DEF Init, ClientInit
  <2> QED BY <2>1, <2>2, <2>3 DEF Init, ClientInit, ClientTypeOK
<1>a. Init => TypeOK BY <1>2 DEF Init, TypeOK
<1>3. Init => IdleOK BY DEF Init, ClientInit, IdleOK
<1>4. ASSUME Init, NEW r \in Requests PROVE Good(r)
  BY <1>4 DEF Init, ClientInit, NoCall, Good, HolderOK, PhaseOK, DoneOK
<1> QED BY <1>a, <1>3, <1>4 DEF IInv

LEMMA NextKeeps == IInv /\ [Next]_vars => IInv'
<1> SUFFICES ASSUME IInv, [Next]_vars PROVE IInv'
  OBVIOUS
<1>1. CASE UNCHANGED vars
  BY <1>1 DEF vars, stateVars, restVars, taskVars, IInv, TypeOK, ClientTypeOK, IdleOK,
     Good, HolderOK, PhaseOK, DoneOK, Live
<1>2. CASE ClientNext /\ UNCHANGED taskVars
  <2>1. CASE Adopt \/ AdoptEnds \/ Stray BY <1>2, <2>1, AdoptKeeps
  <2>2. CASE \E r \in Requests :
               Answered(r) \/ DaemonLost(r) \/ CancelReply(r)
    BY <1>2, <2>2, AnsweredIs, BesideIs, OneAtATime
  <2> QED BY <1>2, <2>1, <2>2 DEF ClientNext
<1>3. CASE TaskNext
  <2>1. PICK r \in Requests :
          \/ \E k \in Kinds : Start(r, k)
          \/ TaskCallback(r)
          \/ \E a \in {"accept", "decline"} : Answer(r, a)
          \/ CancelRequest(r)
    BY <1>3 DEF TaskNext
  <2>2. CASE \E k \in Kinds : Start(r, k)
    BY <2>2, StartKeeps, OneAtATime
  <2>3. CASE TaskCallback(r)
    BY <2>3, SimulateReadyKeeps, ActionReadyKeeps, StepReadyKeeps, AcceptedKeeps,
       DeclinedKeeps, DeathIs, OneAtATime DEF TaskCallback, SimulateReadyCrashes
  <2>4. CASE \E a \in {"accept", "decline"} : Answer(r, a)
    BY <2>4, AnswerKeeps, OneAtATime
  <2>5. CASE CancelRequest(r)
    BY <2>5, BesideIs, OneAtATime DEF CancelRequest
  <2> QED BY <2>1, <2>2, <2>3, <2>4, <2>5
<1> QED BY <1>1, <1>2, <1>3 DEF Next

LEMMA Inductive == Spec => []IInv
<1>1. Init => IInv BY InitIs
<1>2. IInv /\ [Next]_vars => IInv' BY NextKeeps
<1> QED BY <1>1, <1>2, PTL DEF Spec

\* Every reachable state of the tasks and of the calls below them is in its type,
\* for any number of requests and of files to copy.
THEOREM TypeCorrect == Spec => []TypeOK
<1>1. IInv => TypeOK BY DEF IInv
<1> QED BY <1>1, Inductive, PTL

\* The state of a request is held by one callback, question or answer until it is
\* freed (pk_task_generic_state_finish), and by none after that.
THEOREM StateIsHeldOnce == Spec => []OneHolder
<1>1. ASSUME IInv PROVE OneHolder
  <2>1. ASSUME NEW r \in array PROVE \E h \in Holders(r) : Holders(r) = {h}
    <3>1. r \in Requests BY <1>1 DEF IInv, TypeOK
    <3>2. HolderOK(r) BY <1>1, <3>1 DEF IInv, Good
    <3>3. CASE call[r].phase # "none" /\ question[r] = "none" /\ answer[r] = "no"
      <4>1. Holders(r) = {"call"} BY <3>3 DEF Holders
      <4> QED BY <4>1
    <3>4. CASE call[r].phase = "none" /\ question[r] # "none" /\ answer[r] = "no"
      <4>1. Holders(r) = {"question"} BY <3>4 DEF Holders
      <4> QED BY <4>1
    <3>5. CASE call[r].phase = "none" /\ question[r] = "none" /\ answer[r] # "no"
      <4>1. Holders(r) = {"answer"} BY <3>5 DEF Holders
      <4> QED BY <4>1
    <3> QED BY <3>2, <3>3, <3>4, <3>5 DEF HolderOK
  <2>2. ASSUME NEW r \in Requests \ array PROVE Holders(r) = {}
    <3>1. HolderOK(r) BY <1>1 DEF IInv, Good
    <3> QED BY <3>1 DEF HolderOK, Holders
  <2> QED BY <2>1, <2>2 DEF OneHolder
<1> QED BY <1>1, Inductive, PTL

\* Success is reported for what the daemon has carried out, and for nothing else.
THEOREM ReportStaysTrue == Spec => []ReportIsTrue
<1>1. IInv => ReportIsTrue BY DEF IInv, Good, DoneOK, ReportIsTrue
<1> QED BY <1>1, Inductive, PTL

\* The array of calls holds no freed state, and a client without calls is idle.
THEOREM IdleWhenOver == Spec => []IdleAtTheEnd
<1>1. ASSUME IInv PROVE IdleAtTheEnd
  <2>1. \A r \in calls : Live(r)
    BY <1>1 DEF IInv, Good, PhaseOK, TypeOK, ClientTypeOK
  <2>2. calls \subseteq Requests /\ IdleOK BY <1>1 DEF IInv, TypeOK, ClientTypeOK
  <2> QED BY <2>1, <2>2 DEF IdleAtTheEnd, IdleOK
<1> QED BY <1>1, Inductive, PTL

-----------------------------------------------------------------------------
(* A cancelled request.                                                    *)

Quiet(r) ==
  r \in cancelled /\ call'[r].phase = "tid" => call[r].phase \in {"tid", "native"}

LEMMA StartIsQuiet ==
  ASSUME IInv, NEW r \in Requests, NEW op \in Ops, NEW k, StartCall(r, op, k),
         ~Live(r), adopting' = adopting
  PROVE  Quiet(r)
<1>1. r \in cancelled => call'[r].phase = "ready" BY StartIs
<1> QED BY <1>1 DEF Quiet

LEMMA ClientIsQuiet ==
  ASSUME IInv, NEW r \in Requests,
         \/ Answered(r) \/ DaemonLost(r) \/ CancelReply(r) \/ Cancel(r)
  PROVE  Quiet(r)
<1>1. call \in [Requests -> Call] BY DEF IInv, TypeOK, ClientTypeOK
<1>2. ASSUME NEW op, NEW o, NEW left, End(r, op, o, left) PROVE Quiet(r)
  <2>1. call'[r].phase = "ready" BY <1>1, <1>2 DEF End
  <2> QED BY <2>1 DEF Quiet
<1>3. ASSUME NEW op, NEW phase, NEW n, NEW o, Goes(r, op, phase, n, o),
             phase # "tid" \/ call[r].phase = "native"
      PROVE  Quiet(r)
  <2>1. call'[r].phase = phase BY <1>1, <1>3 DEF Goes
  <2> QED BY <1>3, <2>1 DEF Quiet
<1>4. CASE call' = call BY <1>4 DEF Quiet
<1>5. CASE CopiedNative(r) BY <1>2, <1>3, <1>5 DEF CopiedNative, GoesTo
<1>6. CASE \/ CopyNativeFails(r) \/ GetTidFails(r) \/ SetHintsFails(r) \/ MethodFails(r)
           \/ FinishedFailed(r) \/ FinishedEarly(r) \/ CopyDownloadFails(r)
  BY <1>2, <1>6 DEF CopyNativeFails, GetTidFails, SetHintsFails, MethodFails,
     FinishedFailed, FinishedEarly, CopyDownloadFails
<1>7. CASE GetTid(r) \/ GetProxy(r) \/ SetHints(r) \/ MethodReturns(r) \/ DaemonLost(r)
  BY <1>3, <1>7 DEF GetTid, GetProxy, SetHints, MethodReturns, DaemonLost, GoesTo
<1>8. CASE \E exit \in Exits : Finished(r, exit) BY <1>2, <1>3, <1>8 DEF Finished
<1>9. CASE CopiedDownload(r) BY <1>2, <1>3, <1>9 DEF CopiedDownload
<1>10. CASE GetProxyFails(r) \/ CancelReply(r) \/ Cancel(r)
  BY <1>4, <1>10 DEF GetProxyFails, CancelReply, Cancel
<1> QED
  BY <1>5, <1>6, <1>7, <1>8, <1>9, <1>10 DEF Answered

LEMMA TaskIsQuiet ==
  ASSUME IInv, NEW r \in Requests,
         \/ \E k \in Kinds : Start(r, k)
         \/ TaskCallback(r)
         \/ \E a \in {"accept", "decline"} : Answer(r, a)
  PROVE  Quiet(r)
<1>1. call \in [Requests -> Call] BY DEF IInv, TypeOK, ClientTypeOK
<1>2. Good(r) BY DEF IInv
<1>3. CASE call' = call BY <1>3 DEF Quiet
<1>4. CASE CallOver(r)
  <2>1. call'[r].phase = "none" BY <1>1, <1>4 DEF CallOver, NoCall
  <2> QED BY <2>1 DEF Quiet
<1>5. CASE \E op \in Ops, k \in Kinds \cup {"none"} :
             StartCall(r, op, k) /\ ~Live(r) /\ adopting' = adopting
  BY <1>5, StartIsQuiet
<1>6. {"action", "simulate", "signature", "eula"} \subseteq Ops /\ kind[r] \in Kinds \cup {"none"}
  BY DEF Ops, IInv, TypeOK, ClientTypeOK
<1>7. CASE \E k \in Kinds : Start(r, k)
  <2>1. PICK k \in Kinds : Start(r, k) BY <1>7
  <2>2. ~Live(r) /\ adopting' = adopting
    BY <1>2, <2>1 DEF Start, Good, HolderOK, DoneOK, Live, Phases, Early, Late
  <2> QED BY <1>5, <1>6, <2>1, <2>2 DEF Start, DoAction, DoSimulate
<1>11. CASE SimulateReadyCrashes(r) BY <1>3, <1>11 DEF SimulateReadyCrashes
<1>8. CASE SimulateReady(r) \/ ActionReady(r) \/ StepReady(r)
  <2>1. ~Live(r) /\ adopting' = adopting
    BY <1>8
    DEF SimulateReady, ActionReady, StepReady, Ended, Live, Phases, Early, Late, restVars
  <2>2. CallOver(r) \/ StartCall(r, "action", kind[r])
    BY <1>8 DEF SimulateReady, ActionReady, StepReady, Ask, Ends, DoAction
  <2> QED BY <1>4, <1>5, <1>6, <2>1, <2>2
<1>9. CASE Accepted(r) \/ Declined(r)
  <2>1. ~Live(r) /\ adopting' = adopting
    BY <1>9, WaitFacts DEF Accepted, Declined, restVars
  <2>2. CallOver(r) \/ \E op \in Ops : StartCall(r, op, kind[r])
    BY <1>6, <1>9 DEF Accepted, Declined, DoAction
  <2> QED BY <1>4, <1>5, <1>6, <2>1, <2>2
<1>10. CASE \E a \in {"accept", "decline"} : Answer(r, a)
  BY <1>3, <1>10 DEF Answer, stateVars
<1> QED BY <1>7, <1>8, <1>9, <1>10, <1>11 DEF TaskCallback

\* A request that was cancelled asks for no other transaction, unless it was copying
\* files when the cancel came (pk_client_copy_native_finished_cb).
THEOREM CancelledAsksForNothing == Spec => NothingAfterCancel
<1>1. ASSUME IInv, [Next]_vars, NEW r \in cancelled, call'[r].phase = "tid"
      PROVE  call[r].phase \in {"tid", "native"} \/ UNCHANGED vars
  <2>0. r \in Requests BY <1>1 DEF IInv, TypeOK, ClientTypeOK
  <2>1. CASE call'[r] = call[r] BY <1>1, <2>1
  <2>2. CASE Quiet(r) BY <1>1, <2>2 DEF Quiet
  <2>3. ASSUME NEW q \in Requests, Calls(q), Quiet(q)
        PROVE  call'[r] = call[r] \/ Quiet(r)
    BY <2>0, <2>3 DEF Calls
  <2>4. CASE ClientNext /\ UNCHANGED taskVars
    <3>1. CASE Adopt \/ AdoptEnds \/ Stray
      BY <2>1, <3>1 DEF Adopt, AdoptEnds, Stray
    <3>2. CASE \E q \in Requests :
                 Answered(q) \/ DaemonLost(q) \/ CancelReply(q)
      BY <1>1, <2>1, <2>2, <2>3, <2>4, <3>2, AnsweredIs, BesideIs, ClientIsQuiet
    <3> QED BY <2>4, <3>1, <3>2 DEF ClientNext
  <2>5. CASE TaskNext
    <3>1. PICK q \in Requests :
            \/ \E k \in Kinds : Start(q, k)
            \/ TaskCallback(q)
            \/ \E a \in {"accept", "decline"} : Answer(q, a)
            \/ CancelRequest(q)
      BY <2>5 DEF TaskNext
    <3>2. CASE CancelRequest(q)
      BY <2>1, <3>2 DEF CancelRequest, Cancel
    <3>3. CASE ~CancelRequest(q)
      <4>1. Calls(q)
        BY <1>1, <3>1, <3>3, StartKeeps, SimulateReadyKeeps, ActionReadyKeeps,
           StepReadyKeeps, AcceptedKeeps, DeclinedKeeps, AnswerKeeps, DeathIs
        DEF TaskCallback, SimulateReadyCrashes
      <4>2. Quiet(q) BY <1>1, <3>1, <3>3, TaskIsQuiet
      <4> QED BY <2>1, <2>2, <2>3, <4>1, <4>2
    <3> QED BY <3>2, <3>3
  <2> QED BY <1>1, <2>4, <2>5 DEF Next
<1>2. IInv /\ [Next]_vars =>
        [\A r \in cancelled :
           call'[r].phase = "tid" => call[r].phase \in {"tid", "native"}]_vars
  BY <1>1
<1> QED BY <1>2, Inductive, PTL DEF Spec, NothingAfterCancel

-----------------------------------------------------------------------------
(* The task implements PkRequests.                                         *)

\* The course of a request, by who holds its state.
CourseFacts(r) ==
  /\ kind[r] = "none" => Course(r) = "none"
  /\ kind[r] # "none" /\ r \notin array => Course(r) = "over"
  /\ question[r] # "none" => Course(r) = "asking"
  /\ answer[r] = "decline" => Course(r) = "refused"
  /\ answer[r] \notin {"no", "decline"} => Course(r) = "working"
  /\ call[r].phase # "none" =>
       Course(r) = IF r \in carriedOut THEN "done"
                   ELSE IF Live(r) THEN "calling" ELSE "working"

LEMMA CourseIs ==
  ASSUME NEW r \in Requests, Good(r)
  PROVE  CourseFacts(r)
<1>1. CASE kind[r] = "none"
  <2>1. r \notin array BY <1>1 DEF Good, DoneOK
  <2> QED BY <1>1, <2>1 DEF CourseFacts, Course, Good, HolderOK
<1>2. CASE kind[r] # "none" /\ r \notin array
  BY <1>2 DEF CourseFacts, Course, Good, HolderOK
<1>3. CASE kind[r] # "none" /\ r \in array
  BY <1>3 DEF CourseFacts, Course, Good, HolderOK, DoneOK, Live, Phases, Early, Late
<1> QED BY <1>1, <1>2, <1>3

LEMMA CourseIsNext ==
  ASSUME NEW r \in Requests, Good(r)'
  PROVE  CourseFacts(r)'
<1>1. CASE kind'[r] = "none"
  <2>1. r \notin array' BY <1>1 DEF Good, DoneOK
  <2> QED BY <1>1, <2>1 DEF CourseFacts, Course, Good, HolderOK
<1>2. CASE kind'[r] # "none" /\ r \notin array'
  BY <1>2 DEF CourseFacts, Course, Good, HolderOK
<1>3. CASE kind'[r] # "none" /\ r \in array'
  BY <1>3 DEF CourseFacts, Course, Good, HolderOK, DoneOK, Live, Phases, Early, Late
<1> QED BY <1>1, <1>2, <1>3

\* What a step may do to the course of request r.
Same(r) == kind'[r] = kind[r] /\ report'[r] = report[r] /\ cancelled' = cancelled

Told(r, o) ==
  \/ Course(r) = "working" /\ o # "success"
  \/ Course(r) = "refused" /\ o = "error"
  \/ Course(r) = "done" /\ o = "success"
  \/ Course(r) = "done" /\ kind[r] = "download" /\ o = "error"

Turns(r) ==
  \/ Same(r) /\ Course(r)' = Course(r)
  \/ Same(r) /\ Course(r) = "working" /\ Course(r)' = "calling" /\ r \notin cancelled
  \/ Same(r) /\ Course(r) = "calling" /\ Course(r)' \in {"working", "done"}
  \/ Same(r) /\ Course(r) = "working" /\ Course(r)' = "asking"
  \/ Same(r) /\ Course(r) = "asking" /\ Course(r)' \in {"working", "refused"}
  \/ /\ Course(r) = "none" /\ Course(r)' \in {"working", "calling"}
     /\ kind'[r] \in Kinds /\ report'[r] = report[r] /\ cancelled' = cancelled
  \/ /\ Course(r) \notin {"none", "over"} /\ Course(r)' = Course(r)
     /\ kind'[r] = kind[r] /\ report'[r] = report[r]
     /\ cancelled' = cancelled \cup {r}
  \/ /\ Course(r)' = "over" /\ kind'[r] = kind[r]
     /\ report'[r] \in {"success", "other", "error", "nothing"} /\ Told(r, report'[r])
     /\ cancelled' = cancelled \ {r}

\* A step on one request is a step of PkRequests, or none.
LEMMA TurnsAreSteps ==
  ASSUME IInv, NEW r \in Requests, Calls(r), Rest(r), Turns(r)
  PROVE  Contract!Next \/ UNCHANGED Contract!vars
<1> DEFINE courses == [q \in Requests |-> Course(q)]
<1>1. courses' = [courses EXCEPT ![r] = Course(r)']
  <2>1. ASSUME NEW q \in Requests \ {r} PROVE Course(q)' = Course(q)
    <3>1. /\ call'[q] = call[q] /\ kind'[q] = kind[q] /\ question'[q] = question[q]
          /\ answer'[q] = answer[q]
          /\ q \in carriedOut' <=> q \in carriedOut
          /\ q \in array' <=> q \in array
      BY DEF Calls, Rest
    <3> QED BY <3>1 DEF Course, Live
  <2> QED BY <2>1
<1>2. kind' = [kind EXCEPT ![r] = kind'[r]]
  BY DEF Rest, IInv, TypeOK, ClientTypeOK
<1>3. report' = [report EXCEPT ![r] = report'[r]]
  BY DEF Rest, IInv, TypeOK, ClientTypeOK
<1>4. courses[r] = Course(r)
  OBVIOUS
<1>a. kind'[r] = kind[r] => kind' = kind
  <2>1. kind \in [Requests -> Kinds \cup {"none"}] BY DEF IInv, TypeOK, ClientTypeOK
  <2> QED BY <1>2, <2>1
<1>b. report'[r] = report[r] => report' = report
  <2>1. report \in [Requests -> {"none", "success", "other", "error", "nothing"}]
    BY DEF IInv, TypeOK
  <2> QED BY <1>3, <2>1
<1>5. ASSUME NEW c, Course(r)' = c, Same(r)
      PROVE  Contract!Becomes(r, c)
  <2>1. kind' = kind /\ report' = report
    BY <1>5, <1>a, <1>b DEF Same
  <2> QED BY <1>1, <1>5, <2>1 DEF Contract!Becomes, Same
<1>6. CASE Same(r) /\ Course(r)' = Course(r)
  <2>1. kind' = kind /\ report' = report /\ cancelled' = cancelled
    BY <1>6, <1>a, <1>b DEF Same
  <2>2. courses' = courses BY <1>1, <1>6
  <2> QED BY <2>1, <2>2 DEF Contract!vars
<1>7. CASE \/ Same(r) /\ Course(r) = "working" /\ Course(r)' = "calling" /\ r \notin cancelled
           \/ Same(r) /\ Course(r) = "calling" /\ Course(r)' \in {"working", "done"}
           \/ Same(r) /\ Course(r) = "working" /\ Course(r)' = "asking"
           \/ Same(r) /\ Course(r) = "asking" /\ Course(r)' \in {"working", "refused"}
  <2>1. \/ Contract!Call(r) \/ Contract!Miss(r) \/ Contract!CarryOut(r)
        \/ Contract!AskUser(r) \/ Contract!Agree(r) \/ Contract!Refuse(r)
    BY <1>4, <1>5, <1>7
    DEF Contract!Call, Contract!Miss, Contract!CarryOut, Contract!AskUser,
        Contract!Agree, Contract!Refuse
  <2> QED BY <2>1 DEF Contract!Next
<1>8. CASE /\ Course(r) = "none" /\ Course(r)' \in {"working", "calling"}
           /\ kind'[r] \in Kinds /\ report'[r] = report[r] /\ cancelled' = cancelled
  <2>1. report' = report BY <1>8, <1>b
  <2>2. Contract!Begin(r, kind'[r])
    BY <1>1, <1>2, <1>4, <1>8, <2>1 DEF Contract!Begin
  <2> QED BY <1>8, <2>2 DEF Contract!Next, Contract!Kinds, Kinds
<1>9. CASE /\ Course(r) \notin {"none", "over"} /\ Course(r)' = Course(r)
           /\ kind'[r] = kind[r] /\ report'[r] = report[r]
           /\ cancelled' = cancelled \cup {r}
  <2>1. kind' = kind /\ report' = report
    BY <1>9, <1>a, <1>b
  <2>2. courses' = courses BY <1>1, <1>9
  <2>3. Contract!Stop(r) BY <1>4, <1>9, <2>1, <2>2 DEF Contract!Stop
  <2> QED BY <2>3 DEF Contract!Next
<1>10. CASE /\ Course(r)' = "over" /\ kind'[r] = kind[r]
            /\ report'[r] \in {"success", "other", "error", "nothing"} /\ Told(r, report'[r])
            /\ cancelled' = cancelled \ {r}
  <2>1. kind' = kind BY <1>10, <1>a
  <2>2. Contract!Tell(r, report'[r])
    BY <1>1, <1>3, <1>4, <1>10, <2>1 DEF Contract!Tell, Told
  <2> QED BY <1>10, <2>2 DEF Contract!Next
<1> QED BY <1>6, <1>7, <1>8, <1>9, <1>10 DEF Turns

\* The steps of a call under way.
LEMMA LiveTurns ==
  ASSUME IInv, NEW r \in Requests, Live(r), Good(r)',
         UNCHANGED <<kind, cancelled, taskVars>>,
         r \in carriedOut => r \in carriedOut'
  PROVE  Turns(r)
<1>1. call[r].phase # "none" /\ call[r].phase # "ready"
  BY DEF Live, Phases, Early, Late
<1>2. r \in array /\ question[r] = "none" /\ answer[r] = "no" BY <1>1, InFlight
<1>3. call'[r].phase # "none"
  BY <1>2 DEF Good, HolderOK, taskVars
<1>4. Course(r) = IF r \in carriedOut THEN "done" ELSE "calling"
  BY <1>1, CourseIs DEF CourseFacts, IInv
<1>5. Course(r)' = IF r \in carriedOut' THEN "done"
                   ELSE IF Live(r)' THEN "calling" ELSE "working"
  BY <1>3, CourseIsNext DEF CourseFacts
<1>6. Same(r) BY DEF Same, taskVars
<1> QED BY <1>4, <1>5, <1>6 DEF Turns

LEMMA ClientTurns ==
  ASSUME IInv, NEW r \in Requests, UNCHANGED taskVars, Good(r)',
         Answered(r) \/ DaemonLost(r) \/ CancelReply(r)
  PROVE  Turns(r)
<1>1. CASE Answered(r) \/ DaemonLost(r)
  <2>1. Live(r)
    BY <1>1
    DEF Answered, DaemonLost, CopiedNative, CopyNativeFails, GetTid, GetTidFails,
        GetProxy, GetProxyFails, SetHints, SetHintsFails, MethodReturns, MethodFails,
        FinishedFailed, FinishedEarly, Finished, CopiedDownload, CopyDownloadFails,
        Live, Phases, Early, Late
  <2>2. UNCHANGED <<kind, cancelled>> /\ (r \in carriedOut => r \in carriedOut')
    BY <1>1
    DEF Answered, DaemonLost, CopiedNative, CopyNativeFails, GetTid, GetTidFails,
        GetProxy, GetProxyFails, SetHints, SetHintsFails, MethodReturns, MethodFails,
        FinishedFailed, FinishedEarly, Finished, CopiedDownload, CopyDownloadFails,
        restVars
  <2> QED BY <2>1, <2>2, LiveTurns
<1>2. CASE CancelReply(r)
  <2>1. UNCHANGED <<kind, cancelled, call, carriedOut>>
    BY <1>2 DEF CancelReply, restVars
  <2> QED BY <2>1 DEF Turns, Same, Course, Live, taskVars
<1> QED BY <1>1, <1>2

LEMMA CancelTurns ==
  ASSUME IInv, NEW r \in Requests, CancelRequest(r)
  PROVE  Turns(r)
<1>1. /\ r \in array /\ kind[r] # "none" /\ cancelled' = cancelled \cup {r}
      /\ UNCHANGED <<kind, call, carriedOut, taskVars>>
  BY DEF CancelRequest, Cancel
<1>2. Course(r) \notin {"none", "over"} BY <1>1 DEF Course
<1>3. Course(r)' = Course(r) BY <1>1 DEF Course, Live, taskVars
<1> QED BY <1>1, <1>2, <1>3 DEF Turns, taskVars

\* The request goes on: with another call, a question, or by itself.
LEMMA GoesOnTurns ==
  ASSUME IInv, NEW r \in Requests, Good(r)', Same(r), Course(r) = "working",
         r \in array', kind[r] # "none", r \notin carriedOut', answer'[r] # "decline",
         r \in cancelled => ~Live(r)'
  PROVE  Turns(r)
<1>1. Course(r)' \in {"working", "asking", "calling"}
      /\ (Course(r)' = "calling" => Live(r)')
  <2>1. question'[r] # "none" \/ answer'[r] \notin {"no", "decline"}
        \/ call'[r].phase # "none"
    BY DEF Good, HolderOK
  <2> QED BY <2>1, CourseIsNext DEF CourseFacts
<1> QED BY <1>1 DEF Turns

\* The request is over.
LEMMA EndTurns ==
  ASSUME IInv, NEW r \in Requests, NEW o \in Outcomes, Good(r)', StateFinish(r, o),
         kind' = kind, kind[r] # "none",
         \/ Course(r) = "working" /\ o # "success"
         \/ Course(r) = "refused" /\ o = "error"
         \/ Course(r) = "done" /\ o = "success"
         \/ Course(r) = "done" /\ kind[r] = "download" /\ o = "error"
  PROVE  Turns(r)
<1>1. PICK w \in {"success", "other", "error", "nothing"} :
        /\ report' = [report EXCEPT ![r] = w]
        /\ w = "success" <=> o = "success"
        /\ o = "error" => w = "error"
  BY Zenon DEF StateFinish, IsError
<1>2. report'[r] = w BY <1>1 DEF IInv, TypeOK
<1>3. Course(r)' = "over"
  <2>1. r \notin array' BY DEF StateFinish
  <2> QED BY <2>1, CourseIsNext DEF CourseFacts
<1>4. Told(r, w) BY <1>1 DEF Told
<1> QED BY <1>2, <1>3, <1>4 DEF Turns, StateFinish

\* A request that was cancelled has no call after the steps that start or end one.
LEMMA NoCallWhenStopped ==
  ASSUME IInv, NEW r \in Requests, ~Live(r), adopting' = adopting,
         CallOver(r) \/ \E op \in Ops : \E k : StartCall(r, op, k)
  PROVE  r \in cancelled => ~Live(r)'
<1>1. CASE CallOver(r)
  <2>1. call'[r].phase = "none" BY <1>1, CallOverIs DEF NoCall
  <2> QED BY <2>1 DEF Live, Phases, Early, Late
<1>2. CASE \E op \in Ops : \E k : StartCall(r, op, k)
  <2>1. r \in cancelled => call'[r].phase = "ready" BY <1>2, StartIs
  <2> QED BY <2>1 DEF Live, Phases, Early, Late
<1> QED BY <1>1, <1>2

LEMMA StartTurns ==
  ASSUME IInv, NEW r \in Requests, NEW k \in Kinds, Start(r, k), Good(r)'
  PROVE  Turns(r)
<1>1. kind[r] = "none" /\ r \notin carriedOut /\ question[r] = "none" /\ answer[r] = "no"
  BY DEF Start, IInv, Good, HolderOK, DoneOK
<1>2. Course(r) = "none" BY <1>1, CourseIs DEF CourseFacts, IInv
<1>3. /\ kind'[r] = k /\ r \in array' /\ UNCHANGED <<cancelled, report, carriedOut>>
      /\ question'[r] = "none" /\ answer'[r] = "no"
  BY <1>1 DEF Start, IInv, TypeOK, ClientTypeOK
<1>4. call'[r].phase # "none" BY <1>3 DEF Good, HolderOK
<1>5. Course(r)' \in {"working", "calling"}
  BY <1>1, <1>3, <1>4, CourseIsNext DEF CourseFacts
<1> QED BY <1>2, <1>3, <1>5 DEF Turns

\* The course of a request whose callback runs.
LEMMA ReadyCourse ==
  ASSUME IInv, NEW r \in Requests, NEW op, Ended(r, op)
  PROVE  Course(r) = IF r \in carriedOut THEN "done" ELSE "working"
<1>1. call[r].phase # "none" /\ ~Live(r)
  BY DEF Ended, Live, Phases, Early, Late
<1> QED BY <1>1, CourseIs DEF CourseFacts, IInv

LEMMA SimulateReadyTurns ==
  ASSUME IInv, NEW r \in Requests, SimulateReady(r), Good(r)'
  PROVE  Turns(r)
<1>1. Ended(r, "simulate") /\ UNCHANGED restVars BY DEF SimulateReady
<1>2. /\ r \in array /\ answer[r] = "no" /\ kind[r] # "none" /\ ~Live(r)
      /\ call[r].outcome \in Outcomes /\ r \notin carriedOut
  BY <1>1, ReadyFacts
<1>3. Course(r) = "working" BY <1>1, <1>2, ReadyCourse
<1>4. UNCHANGED <<kind, adopting, carriedOut>> BY <1>1 DEF restVars
<1>5. CASE call[r].outcome # "success" /\ Ends(r, call[r].outcome)
  BY <1>2, <1>3, <1>4, <1>5, EndTurns DEF Ends
<1>6. CASE /\ UNCHANGED <<cancelled, array, report, answer>>
           /\ DoAction(r, kind[r]) \/ CallOver(r)
  <2>1. CallOver(r) \/ \E op \in Ops : \E k : StartCall(r, op, k)
    BY <1>6 DEF DoAction, Ops
  <2>2. r \in cancelled => ~Live(r)' BY <1>2, <1>4, <2>1, NoCallWhenStopped
  <2> QED BY <1>2, <1>3, <1>4, <1>6, <2>2, GoesOnTurns DEF Same
<1> QED BY <1>5, <1>6 DEF SimulateReady, NoteExit, taskVars

LEMMA ActionReadyTurns ==
  ASSUME IInv, NEW r \in Requests, ActionReady(r), Good(r)'
  PROVE  Turns(r)
<1>1. Ended(r, "action") /\ UNCHANGED restVars BY DEF ActionReady
<1>2. /\ r \in array /\ answer[r] = "no" /\ kind[r] # "none" /\ ~Live(r)
      /\ call[r].outcome \in Outcomes
      /\ call[r].outcome \notin {"success", "error"} => r \notin carriedOut
      /\ call[r].outcome = "success" => r \in carriedOut
      /\ call[r].outcome = "error" /\ r \in carriedOut => kind[r] = "download"
  BY <1>1, ReadyFacts
<1>3. Course(r) = IF r \in carriedOut THEN "done" ELSE "working"
  BY <1>1, ReadyCourse
<1>4. UNCHANGED <<kind, adopting, carriedOut>> BY <1>1 DEF restVars
<1>5. CASE Ends(r, call[r].outcome)
  BY <1>2, <1>3, <1>4, <1>5, EndTurns DEF Ends
<1>6. CASE call[r].outcome \notin {"success", "error"} /\ StateFinish(r, "error")
  <2>1. "error" \in Outcomes BY DEF Outcomes
  <2> QED BY <1>2, <1>3, <1>4, <1>6, <2>1, EndTurns
<1>7. CASE /\ call[r].outcome \notin {"success", "error"}
           /\ UNCHANGED <<cancelled, array, report>>
           /\ answer'[r] # "decline"
           /\ DoAction(r, kind[r]) \/ CallOver(r)
  <2>1. CallOver(r) \/ \E op \in Ops : \E k : StartCall(r, op, k)
    BY <1>7 DEF DoAction, Ops
  <2>2. r \in cancelled => ~Live(r)' BY <1>2, <1>4, <2>1, NoCallWhenStopped
  <2> QED BY <1>2, <1>3, <1>4, <1>7, <2>2, GoesOnTurns DEF Same
<1>8. ASSUME call[r].outcome \in {"again", "key", "eula"}, Ask(r, call[r].outcome),
             ~StateFinish(r, "error")
      PROVE  /\ UNCHANGED <<cancelled, array, report>> /\ answer'[r] # "decline"
             /\ CallOver(r)
  BY <1>2, <1>8 DEF Ask, NoteExit, IInv, TypeOK
<1>9. CASE call[r].outcome \in {"again", "key", "eula"} /\ Ask(r, call[r].outcome)
  BY <1>6, <1>7, <1>8, <1>9
<1>10. CASE /\ call[r].outcome = "priority" /\ NoteExit(r, call[r].outcome)
            /\ DoAction(r, kind[r]) /\ UNCHANGED answer
  BY <1>2, <1>7, <1>10 DEF NoteExit
<1> QED BY <1>5, <1>9, <1>10 DEF ActionReady

LEMMA StepReadyTurns ==
  ASSUME IInv, NEW r \in Requests, StepReady(r), Good(r)'
  PROVE  Turns(r)
<1>1. UNCHANGED restVars BY DEF StepReady
<1>2. /\ r \in array /\ answer[r] = "no" /\ kind[r] # "none" /\ ~Live(r)
      /\ r \notin carriedOut /\ Course(r) = "working"
  BY ReadyFacts, ReadyCourse DEF StepReady
<1>3. UNCHANGED <<kind, adopting, carriedOut>> BY <1>1 DEF restVars
<1>4. CASE \E o \in {"error", "nothing"} : Ends(r, o)
  <2>1. PICK o \in {"error", "nothing"} : Ends(r, o) BY <1>4
  <2>2. o \in Outcomes /\ o # "success" BY DEF Outcomes
  <2> QED BY <1>2, <1>3, <2>1, <2>2, EndTurns DEF Ends
<1>5. CASE NoteExit(r, "success") /\ DoAction(r, kind[r]) /\ UNCHANGED answer
  <2>1. \E op \in Ops : \E k : StartCall(r, op, k) BY <1>5 DEF DoAction, Ops
  <2>2. r \in cancelled => ~Live(r)' BY <1>2, <1>3, <2>1, NoCallWhenStopped
  <2> QED BY <1>2, <1>3, <1>5, <2>2, GoesOnTurns DEF Same, NoteExit
<1> QED BY <1>4, <1>5 DEF StepReady

LEMMA AnswerTurns ==
  ASSUME IInv, NEW r \in Requests, NEW a \in {"accept", "decline"}, Answer(r, a),
         Good(r)'
  PROVE  Turns(r)
<1>1. /\ question[r] # "none"
      /\ UNCHANGED <<stateVars, restVars, cancelled, array, exitEnum, report>>
  BY DEF Answer
<1>2. r \in array /\ Course(r) = "asking"
  BY <1>1, WaitFacts, CourseIs DEF CourseFacts, IInv
<1>3. answer'[r] = a BY <1>2 DEF Answer, IInv, TypeOK
<1>4. Course(r)' \in {"working", "refused"}
  BY <1>3, CourseIsNext DEF CourseFacts
<1> QED BY <1>1, <1>2, <1>4 DEF Turns, Same, restVars

LEMMA AcceptedTurns ==
  ASSUME IInv, NEW r \in Requests, Accepted(r), Good(r)'
  PROVE  Turns(r)
<1>1. answer[r] = "accept" /\ answer' = [answer EXCEPT ![r] = "no"] /\ UNCHANGED restVars
  BY DEF Accepted
<1>2. /\ r \in array /\ ~Live(r) /\ r \notin carriedOut /\ kind[r] # "none"
      /\ Course(r) = "working" /\ answer'[r] = "no"
  BY <1>1, WaitFacts, CourseIs DEF CourseFacts, IInv, TypeOK
<1>3. UNCHANGED <<kind, adopting, carriedOut>> BY <1>1 DEF restVars
<1>4. CASE StateFinish(r, "error")
  <2>1. "error" \in Outcomes BY DEF Outcomes
  <2> QED BY <1>2, <1>3, <1>4, <2>1, EndTurns
<1>5. CASE /\ \E op \in Ops : StartCall(r, op, kind[r])
           /\ UNCHANGED <<array, cancelled, report>>
  <2>1. \E op \in Ops : \E k : StartCall(r, op, k) BY <1>5
  <2>2. r \in cancelled => ~Live(r)' BY <1>2, <1>3, <2>1, NoCallWhenStopped
  <2> QED BY <1>2, <1>3, <1>5, <2>2, GoesOnTurns DEF Same
<1>6. {"action", "signature", "eula"} \subseteq Ops BY DEF Ops
<1> QED BY <1>4, <1>5, <1>6 DEF Accepted, DoAction

LEMMA DeclinedTurns ==
  ASSUME IInv, NEW r \in Requests, Declined(r), Good(r)'
  PROVE  Turns(r)
<1>1. answer[r] = "decline" /\ UNCHANGED restVars /\ StateFinish(r, "error")
  BY DEF Declined
<1>2. kind[r] # "none" /\ Course(r) = "refused" /\ kind' = kind
  BY <1>1, WaitFacts, CourseIs DEF CourseFacts, IInv, restVars
<1>3. "error" \in Outcomes BY DEF Outcomes
<1> QED BY <1>1, <1>2, <1>3, EndTurns

\* Adopting a transaction is about no request, nor is a callback to a freed state.
LEMMA AdoptIsNoStep ==
  ASSUME IInv, UNCHANGED taskVars, Adopt \/ AdoptEnds \/ Stray
  PROVE  UNCHANGED Contract!vars
<1>1. UNCHANGED <<call, kind, cancelled, carriedOut, array, question, answer, report>>
  BY DEF Adopt, AdoptEnds, Stray, taskVars
<1>2. ASSUME NEW r \in Requests PROVE Course(r)' = Course(r)
  BY <1>1 DEF Course, Live
<1> QED BY <1>1, <1>2 DEF Contract!vars

LEMMA StepRefines ==
  ASSUME IInv, IInv', [Next]_vars
  PROVE  Contract!Next \/ UNCHANGED Contract!vars
<1>1. CASE UNCHANGED vars
  BY <1>1 DEF vars, stateVars, restVars, taskVars, Contract!vars, Course, Live
<1>2. CASE ClientNext /\ UNCHANGED taskVars
  <2>1. CASE Adopt \/ AdoptEnds \/ Stray BY <1>2, <2>1, AdoptIsNoStep
  <2>2. CASE \E r \in Requests :
               Answered(r) \/ DaemonLost(r) \/ CancelReply(r)
    BY <1>2, <2>2, AnsweredIs, BesideIs, ClientTurns, TurnsAreSteps
  <2> QED BY <1>2, <2>1, <2>2 DEF ClientNext
<1>3. CASE TaskNext
  <2>1. PICK r \in Requests :
          \/ \E k \in Kinds : Start(r, k)
          \/ TaskCallback(r)
          \/ \E a \in {"accept", "decline"} : Answer(r, a)
          \/ CancelRequest(r)
    BY <1>3 DEF TaskNext
  <2>2. CASE \E k \in Kinds : Start(r, k)
    BY <2>2, StartKeeps, StartTurns, TurnsAreSteps
  <2>10. CASE SimulateReadyCrashes(r)
    <3>1. UNCHANGED <<kind, cancelled, call, carriedOut, taskVars>>
      BY <2>10 DEF SimulateReadyCrashes
    <3>2. Turns(r) BY <3>1 DEF Turns, Same, Course, Live, taskVars
    <3> QED BY <2>10, <3>2, DeathIs, TurnsAreSteps DEF SimulateReadyCrashes
  <2>3. CASE SimulateReady(r)
    BY <2>3, SimulateReadyKeeps, SimulateReadyTurns, TurnsAreSteps
  <2>4. CASE ActionReady(r) BY <2>4, ActionReadyKeeps, ActionReadyTurns, TurnsAreSteps
  <2>5. CASE StepReady(r) BY <2>5, StepReadyKeeps, StepReadyTurns, TurnsAreSteps
  <2>6. CASE Accepted(r) BY <2>6, AcceptedKeeps, AcceptedTurns, TurnsAreSteps
  <2>7. CASE Declined(r) BY <2>7, DeclinedKeeps, DeclinedTurns, TurnsAreSteps
  <2>8. CASE \E a \in {"accept", "decline"} : Answer(r, a)
    BY <2>8, AnswerKeeps, AnswerTurns, TurnsAreSteps
  <2>9. CASE CancelRequest(r)
    BY <2>9, BesideIs, CancelTurns, TurnsAreSteps DEF CancelRequest
  <2> QED
    BY <2>1, <2>2, <2>3, <2>4, <2>5, <2>6, <2>7, <2>8, <2>9, <2>10
    DEF TaskCallback
<1> QED BY <1>1, <1>2, <1>3 DEF Next

\* PkTask keeps its promise to the application, whatever the daemon answers, the
\* user says and the application cancels, for any number of requests at a time: no
\* request makes two transactions at once, or one after it was carried out, refused
\* or cancelled, and it is told once what became of it.
THEOREM RequestsRefinement == Spec => ImplementsRequests
<1>1. Init => Contract!Init
  <2> SUFFICES ASSUME Init PROVE Contract!Init
    OBVIOUS
  <2>1. array = {} /\ \A r \in Requests : kind[r] = "none" BY DEF Init, ClientInit
  <2>2. \A r \in Requests : Course(r) = "none" BY <2>1 DEF Course
  <2> QED BY <2>2 DEF Init, ClientInit, Contract!Init
<1>2. IInv /\ IInv' /\ [Next]_vars => [Contract!Next]_(Contract!vars)
  BY StepRefines
<1> QED
  BY <1>1, <1>2, Inductive, PTL DEF Spec, ImplementsRequests, Contract!Spec

=============================================================================
