-------------------------------- MODULE PkTask --------------------------------
(***************************************************************************)
(* PkTask: a request that needs several transactions.  Before a change the *)
(* packages are simulated and the user is asked about what it would bring  *)
(* with it; when the daemon wants a key, a licence, a medium or the        *)
(* permission to install what is not signed, the user is asked again, the  *)
(* key or the licence is dealt with, and the action is tried once more.    *)
(*                                                                         *)
(* All of it is callbacks: every step is either the end of a call of       *)
(* PkClient, an answer of the application, or an idle source that such an  *)
(* answer has added.  The state of the request (PkTaskState) is passed     *)
(* along from one to the next and freed by pk_task_generic_state_finish.   *)
(*                                                                         *)
(* The application answers each question once, as PkTaskText and           *)
(* PkTaskWrapper do, at any time and whatever was cancelled meanwhile.     *)
(* Simulate and interactive are properties that may be set at any time, so *)
(* each test of them may come out either way; so may the test whether the  *)
(* class has the question.                                                 *)
(***************************************************************************)
EXTENDS PkClient

Questions == {"simulate", "again", "key", "eula"}

VARIABLES
  array,        \* priv->array: requests whose PkTaskState exists
  exitEnum,     \* state->exit_enum, if it says what to do after an answer
  question,     \* what the application has been asked and not answered, or "none"
  answer,       \* the idle source of an answer: "accept", "decline" or "no"
  report        \* what the application was told of each request, or "none"

taskVars == <<array, exitEnum, question, answer, report>>
vars == <<stateVars, restVars, cancelled, taskVars>>

-----------------------------------------------------------------------------
(* Helpers.                                                                *)

\* pk_task_do_async_action and pk_task_do_async_simulate_action.
DoAction(r, k) == StartCall(r, "action", k)
DoSimulate(r, k) == StartCall(r, "simulate", k)

\* Each end of a call is noted, also those that nobody asks about.  An exit that
\* ends the request goes with its state.
NoteExit(r, o) ==
  /\ exitEnum' = [exitEnum EXCEPT ![r] = IF o \in {"key", "eula"} THEN o ELSE "unknown"]
  /\ UNCHANGED <<array, cancelled, report>>

\* The callback of the last call has run and asks for no other.
CallOver(r) ==
  /\ call' = [call EXCEPT ![r] = NoCall]
  /\ UNCHANGED <<strays, cancelOut, calls, idle>>

IsError(o) == o \in {"error", "not-supported"}

\* pk_task_generic_state_finish: with an error, with success, with the results of a
\* transaction that did not succeed, or with no error where one is expected.
StateFinish(r, o) ==
  /\ report' = [report EXCEPT ![r] = CASE o \in {"success", "nothing"} -> o
                                        [] IsError(o) -> "error"
                                        [] OTHER -> "other"]
  /\ array' = array \ {r}
  /\ exitEnum' = [exitEnum EXCEPT ![r] = "unknown"]
  /\ cancelled' = cancelled \ {r}

\* The end of the request, in the callback of its last call or in an idle source.
Ends(r, o) ==
  /\ StateFinish(r, o)
  /\ CallOver(r)
  /\ UNCHANGED <<question, answer>>

Ended(r, op) == call[r].phase = "ready" /\ call[r].op = op

-----------------------------------------------------------------------------
(* The application asks.                                                   *)

\* pk_task_*_async.  The roles that change packages simulate first if the task
\* has it set and its class has a simulate_question.
Start(r, k) ==
  /\ kind[r] = "none"
  /\ kind' = [kind EXCEPT ![r] = k]
  /\ array' = array \cup {r}
  /\ DoAction(r, k) \/ (k # "download" /\ DoSimulate(r, k))
  /\ UNCHANGED <<alive, cancelled, adopting, carriedOut, exitEnum, question,
                 answer, report>>

-----------------------------------------------------------------------------
(* The callbacks of the calls.                                             *)

\* pk_task_simulate_ready_cb: the action follows at once if there is nothing to
\* ask, or if the backend cannot simulate.  Without results it looks into the
\* error, and when there is none either, that is the end of the process.
SimulateReady(r) ==
  /\ Ended(r, "simulate")
  /\ call[r].outcome # "nothing"
  /\ LET o == call[r].outcome IN
     \/ /\ o = "not-supported"
        /\ DoAction(r, kind[r])
        /\ UNCHANGED <<cancelled, taskVars>>
     \/ /\ o \notin {"not-supported", "success"}
        /\ Ends(r, o)
     \/ /\ o = "success"
        /\ NoteExit(r, o)
        /\ \/ /\ DoAction(r, kind[r])
              /\ UNCHANGED question
           \/ /\ question' = [question EXCEPT ![r] = "simulate"]
              /\ CallOver(r)
        /\ UNCHANGED answer
  /\ UNCHANGED restVars

SimulateReadyCrashes(r) ==
  /\ Ended(r, "simulate")
  /\ call[r].outcome = "nothing"
  /\ Dies
  /\ UNCHANGED <<call, kind, cancelled, carriedOut, taskVars>>

\* Mutant of Ask: without a user the answer is yes, and the user is asked too.
Ask_AndAccept(r, o) ==
  /\ \/ /\ answer' = [answer EXCEPT ![r] = "accept"]
        /\ question' = [question EXCEPT ![r] = o]
        /\ NoteExit(r, o)
     \/ /\ StateFinish(r, "error")
        /\ UNCHANGED <<question, answer>>
  /\ CallOver(r)

\* The part of pk_task_ready_cb for an exit that needs the user: without one the
\* answer is yes, and without a question to ask it is an error.
Ask(r, o) ==
  /\ \/ /\ answer' = [answer EXCEPT ![r] = "accept"]
        /\ NoteExit(r, o)
        /\ UNCHANGED question
     \/ /\ StateFinish(r, "error")
        /\ UNCHANGED <<question, answer>>
     \/ /\ question' = [question EXCEPT ![r] = o]
        /\ NoteExit(r, o)
        /\ UNCHANGED answer
  /\ CallOver(r)

\* pk_task_ready_cb.
ActionReady(r) ==
  /\ Ended(r, "action")
  /\ LET o == call[r].outcome IN
     \/ /\ IsError(o) \/ o \in {"success", "other", "nothing"}
        /\ Ends(r, o)
     \/ /\ o \in {"again", "key", "eula"}
        /\ Ask(r, o)
     \/ /\ o = "priority"
        /\ NoteExit(r, o)
        /\ DoAction(r, kind[r])
        /\ UNCHANGED <<question, answer>>
  /\ UNCHANGED restVars

\* Mutant of StepReady: the action is not tried again.
StepReady_IsTheEnd(r) ==
  /\ Ended(r, "signature") \/ Ended(r, "eula")
  /\ Ends(r, IF call[r].outcome \in {"success", "nothing"} THEN call[r].outcome
             ELSE "error")
  /\ UNCHANGED restVars

\* pk_task_install_signatures_ready_cb and pk_task_accept_eulas_ready_cb: then
\* the action is tried again.
StepReady(r) ==
  /\ Ended(r, "signature") \/ Ended(r, "eula")
  /\ LET o == call[r].outcome IN
     \/ /\ o # "success"
        /\ Ends(r, IF o = "nothing" THEN o ELSE "error")
     \/ /\ o = "success"
        /\ NoteExit(r, o)
        /\ DoAction(r, kind[r])
        /\ UNCHANGED <<question, answer>>
  /\ UNCHANGED restVars

-----------------------------------------------------------------------------
(* The answers.                                                            *)

\* pk_task_user_accepted and pk_task_user_declined: the request is looked up by
\* its number, and an idle source gets its state.
Answer(r, a) ==
  /\ question[r] # "none"
  /\ question' = [question EXCEPT ![r] = "none"]
  /\ answer' = IF r \in array THEN [answer EXCEPT ![r] = a] ELSE answer
  /\ UNCHANGED <<stateVars, restVars, cancelled, array, exitEnum, report>>

\* Mutant of Accepted: with several keys it returns without the end.
Accepted_Silent(r) ==
  /\ answer[r] = "accept"
  /\ answer' = [answer EXCEPT ![r] = "no"]
  /\ \/ /\ exitEnum[r] \in {"key", "eula"}
        /\ \/ CallOver(r)
           \/ StartCall(r, IF exitEnum[r] = "key" THEN "signature" ELSE "eula",
                        kind[r])
     \/ /\ exitEnum[r] \notin {"key", "eula"}
        /\ DoAction(r, kind[r])
  /\ UNCHANGED <<restVars, cancelled, array, exitEnum, report, question>>

\* pk_task_user_accepted_idle_cb: what comes next is read from the exit of the
\* last call.  A key or licence is dealt with only if there is just one.
Accepted(r) ==
  /\ answer[r] = "accept"
  /\ answer' = [answer EXCEPT ![r] = "no"]
  /\ \/ /\ exitEnum[r] \in {"key", "eula"}
        /\ \/ /\ StateFinish(r, "error") /\ CallOver(r)
           \/ /\ StartCall(r, IF exitEnum[r] = "key" THEN "signature" ELSE "eula",
                           kind[r])
              /\ UNCHANGED <<array, cancelled, exitEnum, report>>
     \/ /\ exitEnum[r] \notin {"key", "eula"}
        /\ DoAction(r, kind[r])
        /\ UNCHANGED <<array, cancelled, exitEnum, report>>
  /\ UNCHANGED <<restVars, question>>

\* pk_task_user_declined_idle_cb.
Declined(r) ==
  /\ answer[r] = "decline"
  /\ answer' = [answer EXCEPT ![r] = "no"]
  /\ StateFinish(r, "error") /\ CallOver(r)
  /\ UNCHANGED <<restVars, question>>

\* The cancellable of a request, while the request has it.  A later cancel
\* reaches nothing.
CancelRequest(r) ==
  /\ r \in array
  /\ Cancel(r)
  /\ UNCHANGED taskVars

-----------------------------------------------------------------------------

Init ==
  /\ ClientInit
  /\ array = {}
  /\ exitEnum = [r \in Requests |-> "unknown"]
  /\ question = [r \in Requests |-> "none"]
  /\ answer = [r \in Requests |-> "no"]
  /\ report = [r \in Requests |-> "none"]

\* The callbacks and idle sources of a request.
TaskCallback(r) ==
  \/ SimulateReady(r) \/ SimulateReadyCrashes(r) \/ ActionReady(r) \/ StepReady(r)
  \/ Accepted(r) \/ Declined(r)

TaskNext ==
  \E r \in Requests :
    \/ \E k \in Kinds : Start(r, k)
    \/ TaskCallback(r)
    \/ \E a \in {"accept", "decline"} : Answer(r, a)
    \/ CancelRequest(r)

Next == alive /\ (TaskNext \/ (ClientNext /\ UNCHANGED taskVars))

Spec == Init /\ [][Next]_vars

\* What takes a request on, of which there is one thing at a time (OneHolder).
GoesOn(r) ==
  \/ TaskCallback(r)
  \/ \E a \in {"accept", "decline"} : Answer(r, a)
  \/ Answered(r) /\ UNCHANGED taskVars

\* The main loop of the application runs, the application answers, the daemon and
\* the bus reply; and the daemon, asked for the same again and again, does not
\* want something else each time.
FairSpec ==
  /\ Spec
  /\ \A r \in Requests :
       /\ WF_vars(alive /\ GoesOn(r))
       /\ SF_vars(/\ alive /\ call[r].op \in {"action", "simulate"}
                  /\ \E exit \in {"success", "other"} : Finished(r, exit)
                  /\ UNCHANGED taskVars)

-----------------------------------------------------------------------------
(* Properties.                                                             *)

TypeOK ==
  /\ ClientTypeOK
  /\ array \subseteq Requests
  /\ exitEnum \in [Requests -> {"unknown", "key", "eula"}]
  /\ question \in [Requests -> Questions \cup {"none"}]
  /\ answer \in [Requests -> {"no", "accept", "decline"}]
  /\ report \in [Requests -> {"none", "success", "other", "error", "nothing"}]

\* One and only one callback or question holds the state of a request, until it
\* is freed, and none does after that: a request neither stops half way, nor is
\* started twice, nor touches its state when that is gone.
Holders(r) ==
  {h \in {"call", "question", "answer"} :
     \/ h = "call" /\ call[r].phase # "none"
     \/ h = "question" /\ question[r] # "none"
     \/ h = "answer" /\ answer[r] # "no"}

OneHolder ==
  /\ \A r \in array : \E h \in Holders(r) : Holders(r) = {h}
  /\ \A r \in Requests \ array : Holders(r) = {}

\* What the application is told is true: success means that the daemon has done
\* what was asked for, and not only its simulation or the key that it needed; and
\* what was done is reported as done, unless copying the download failed.
ReportIsTrue ==
  \A r \in Requests : report[r] # "none" =>
    \/ report[r] = "success" <=> r \in carriedOut
    \/ kind[r] = "download" /\ report[r] = "error"

\* The task promises what PkRequests says.
Course(r) ==
  CASE kind[r] = "none" -> "none"
    [] kind[r] # "none" /\ r \notin array -> "over"
    [] r \in array /\ question[r] # "none" -> "asking"
    [] r \in array /\ question[r] = "none" /\ answer[r] = "decline" -> "refused"
    [] OTHER -> IF r \in carriedOut /\ call[r].phase \in {"copying", "ready"}
                THEN "done"
                ELSE IF Live(r) THEN "calling" ELSE "working"

Contract == INSTANCE PkRequests WITH course <- [r \in Requests |-> Course(r)],
                                     stopped <- cancelled, told <- report

ImplementsRequests == Contract!Spec

\* A request that was cancelled asks for no other transaction, wherever in its
\* course the cancel came and whatever the user answers afterwards.  Except that
\* one that was copying files then does not know of it.
NothingAfterCancel ==
  [][\A r \in cancelled :
       call'[r].phase = "tid" => call[r].phase \in {"tid", "native"}]_vars

\* A request ends, unless the daemon left it alone, or it is a download of
\* nothing: Finished then waits for copies that were never begun.
Deserted(r) ==
  \/ call[r].phase = "lost"
  \/ call[r].phase = "copying" /\ call[r].copies = 0

RequestEndsOrIsDeserted ==
  \A r \in Requests : []<>(r \notin array \/ Deserted(r) \/ ~alive)

=============================================================================
