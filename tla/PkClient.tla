------------------------------- MODULE PkClient -------------------------------
(***************************************************************************)
(* The client library below PkTask: the calls of one PkClient.             *)
(*                                                                         *)
(* A call is a PkClientState.  It gets an id from the daemon (GetTid),     *)
(* makes a proxy for the transaction, sends it hints and its role, and     *)
(* then waits for Finished.  InstallFiles may have to copy files before    *)
(* that, and DownloadPackages after it.  pk_client_state_finish frees the  *)
(* state and passes the outcome to an idle source.                         *)
(*                                                                         *)
(* Several calls go on in one main loop.  They share the array of calls in *)
(* flight and the property "idle", also with pk_client_adopt_async.  What  *)
(* the daemon answers, and when, is left open.                             *)
(*                                                                         *)
(* The client listens from the proxy on, and the daemon may send Finished  *)
(* before it has answered SetHints or the role.  Before the hints are      *)
(* answered a call has no results, and its callback then gets neither      *)
(* results nor an error.                                                   *)
(*                                                                         *)
(* Four callbacks can outlive the state that they have a pointer to: the   *)
(* reply to Cancel, the copies that go on when one of them has failed, and *)
(* the replies to SetHints and to the role when Finished came first.  What *)
(* they do with freed memory is taken to be nothing or a crash, but that   *)
(* after the one to SetHints the role is sent, and answered, all the same. *)
(***************************************************************************)
EXTENDS Integers

CONSTANTS
  Requests,     \* what the application asks for; each makes one call at a time
  MaxFiles      \* bound: files that a call copies

ASSUME ClientAssumption == MaxFiles \in Nat \ {0}

\* A change of packages, which may be given files that have to be copied first
\* (InstallFiles), and DownloadPackages to a directory, where it copies what it
\* got.  A request that copies nothing is like a change without files.
Kinds == {"change", "download"}

\* Roles: the one that was asked for, its simulation, InstallSignature and
\* AcceptEula.
Ops == {"action", "simulate", "signature", "eula"}

\* PkExitEnum but for "failed", which becomes an error: "again" is need-untrusted
\* or media-change-required, "other" is cancelled, killed, skip or repair.  The
\* outcome "nothing" is neither results nor an error.
Exits == {"success", "key", "eula", "again", "priority", "other"}
Outcomes == Exits \cup {"error", "not-supported", "nothing"}

\* What the callback of the call tells apart.
ExitsOf(op) == IF op = "action" THEN Exits ELSE {"success", "other"}
ErrorsOf(op) == IF op = "simulate" THEN {"error", "not-supported"} ELSE {"error"}

\* The states of a call that has a PkClientState.
Early == {"native", "tid", "proxy"}                \* state->proxy is NULL
Late == {"hints", "method", "running", "lost", "copying"}
Phases == Early \cup Late

\* A call in "ready" has ended and its GAsyncReadyCallback is in the main loop.
Call == [op : Ops, phase : {"none", "ready"} \cup Phases,
         copies : 0..MaxFiles,             \* state->refcount
         outcome : Outcomes]
NoCall == [op |-> "action", phase |-> "none", copies |-> 0, outcome |-> "error"]

VARIABLES
  alive,        \* the process of the application
  kind,         \* of each request, or "none" before it is made
  cancelled,    \* requests whose cancellable was cancelled, while they last
  call,         \* the call of each request
  cancelOut,    \* requests whose call waits for the reply to Cancel
  strays,       \* callbacks that may still come to a state that was freed
  calls,        \* priv->calls, but for the adopted transaction
  adopting,     \* an adopted one is in priv->calls
  idle,         \* priv->idle
  carriedOut    \* history: requests whose action the daemon did with success

stateVars == <<call, strays, cancelOut, calls, idle>>
restVars == <<alive, kind, adopting, carriedOut>>

Live(r) == call[r].phase \in Phases

-----------------------------------------------------------------------------
(* Helpers: the parts of the handlers that several of them share.          *)

\* Mutant of End: the array is not cleaned.
End_KeepsCall(r, op, outcome, left) ==
  /\ call' = [call EXCEPT ![r] = [op |-> op, phase |-> "ready", copies |-> 0,
                                  outcome |-> outcome]]
  /\ strays' = strays + left + IF r \in cancelOut THEN 1 ELSE 0
  /\ cancelOut' = cancelOut \ {r}
  /\ UNCHANGED <<calls, idle>>

\* pk_client_state_finish: the state is freed, with left callbacks that are due
\* to it besides the reply to Cancel.
End(r, op, outcome, left) ==
  /\ call' = [call EXCEPT ![r] = [op |-> op, phase |-> "ready", copies |-> 0,
                                  outcome |-> outcome]]
  /\ strays' = strays + left + IF r \in cancelOut THEN 1 ELSE 0
  /\ cancelOut' = cancelOut \ {r}
  /\ calls' = calls \ {r}
  /\ idle' = (calls \ {r} = {} /\ ~adopting)

\* The call goes on to the next asynchronous operation.
Goes(r, op, phase, copies, outcome) ==
  /\ call' = [call EXCEPT ![r] = [op |-> op, phase |-> phase, copies |-> copies,
                                  outcome |-> outcome]]
  /\ UNCHANGED <<strays, cancelOut>>

GoesTo(r, phase) ==
  /\ Goes(r, call[r].op, phase, 0, call[r].outcome)
  /\ UNCHANGED <<calls, idle>>

\* The end of the process, and of the PkClient: no callback comes any more.
Dies ==
  /\ alive' = FALSE
  /\ strays' = 0 /\ cancelOut' = {}
  /\ calls' = {} /\ adopting' = FALSE /\ idle' = TRUE

\* Mutant of CancelledAlready: only the first call looks at the cancellable.
CancelledAlready_Never(r) == FALSE

\* pk_client_*_async: a request that was cancelled is not even asked for.
CancelledAlready(r) == r \in cancelled

StartCall(r, op, k) ==
  IF CancelledAlready(r)
  THEN End(r, op, "error", 0)
  ELSE \/ /\ k = "change" /\ op \in {"action", "simulate"}
          /\ \/ End(r, op, "error", 0)            \* a path is not right
             \/ /\ \E n \in 1..MaxFiles : Goes(r, op, "native", n, "error")
                /\ UNCHANGED <<calls, idle>>
       \/ Goes(r, op, "tid", 0, "error") /\ UNCHANGED <<calls, idle>>

-----------------------------------------------------------------------------
(* Copies for the daemon, before GetTid.                                   *)

\* Mutant of CopiedNative: the count is tested before it is decremented.
CopiedNative_LateTest(r) ==
  /\ call[r].phase = "native"
  /\ IF call[r].copies = 0
     THEN GoesTo(r, "tid")
     ELSE /\ Goes(r, call[r].op, "native", call[r].copies - 1, "error")
          /\ UNCHANGED <<calls, idle>>
  /\ UNCHANGED <<restVars, cancelled>>

\* pk_client_copy_native_finished_cb.  GetTid gets the cancellable of the state
\* and not that of the caller, so a cancel meanwhile is forgotten.
CopiedNative(r) ==
  /\ call[r].phase = "native"
  /\ IF call[r].copies = 1
     THEN GoesTo(r, "tid")
     ELSE /\ Goes(r, call[r].op, "native", call[r].copies - 1, "error")
          /\ UNCHANGED <<calls, idle>>
  /\ UNCHANGED <<restVars, cancelled>>

\* A copy that fails ends the call; the other copies go on.
CopyNativeFails(r) ==
  /\ call[r].phase = "native"
  /\ End(r, call[r].op, "error", call[r].copies - 1)
  /\ UNCHANGED <<restVars, cancelled>>

-----------------------------------------------------------------------------
(* The answers of the daemon and of the bus.                               *)

\* pk_client_get_tid_cb.
GetTid(r) ==
  /\ call[r].phase = "tid"
  /\ GoesTo(r, "proxy")
  /\ UNCHANGED <<restVars, cancelled>>

\* The daemon refuses or cannot be started, or the caller cancelled.
GetTidFails(r) ==
  /\ call[r].phase = "tid"
  /\ End(r, call[r].op, "error", 0)
  /\ UNCHANGED <<restVars, cancelled>>

\* pk_client_get_proxy_cb: the state is put in the array by hand, without
\* pk_client_state_add.
GetProxy(r) ==
  /\ call[r].phase = "proxy"
  /\ Goes(r, call[r].op, "hints", 0, "error")
  /\ calls' = calls \cup {r}
  /\ UNCHANGED <<idle, restVars, cancelled>>

\* Without a connection: g_error.
GetProxyFails(r) ==
  /\ call[r].phase = "proxy"
  /\ Dies
  /\ UNCHANGED <<call, kind, cancelled, carriedOut>>

\* pk_client_set_hints_cb: the role is sent.
SetHints(r) ==
  /\ call[r].phase = "hints"
  /\ GoesTo(r, "method")
  /\ UNCHANGED <<restVars, cancelled>>

SetHintsFails(r) ==
  /\ call[r].phase = "hints"
  /\ End(r, call[r].op, "error", 0)
  /\ UNCHANGED <<restVars, cancelled>>

\* pk_client_method_cb: the daemon took the role, and Finished will come.
MethodReturns(r) ==
  /\ call[r].phase = "method"
  /\ GoesTo(r, "running")
  /\ UNCHANGED <<restVars, cancelled>>

MethodFails(r) ==
  /\ call[r].phase = "method"
  /\ \E o \in ErrorsOf(call[r].op) : End(r, call[r].op, o, 0)
  /\ UNCHANGED <<restVars, cancelled>>

\* The daemon goes away, or drops the transaction: Destroy is ignored, and the
\* owner of the name is not watched.
DaemonLost(r) ==
  /\ call[r].phase = "running"
  /\ GoesTo(r, "lost")
  /\ UNCHANGED <<restVars, cancelled>>

\* The replies to SetHints and to the role that an early Finished leaves behind.
\* After the first, if it is no error, the role is sent from the freed state, and
\* the daemon refuses it, as the transaction is over.
LateReplies(r) ==
  CASE call[r].phase = "hints" -> 2
    [] call[r].phase = "method" -> 1
    [] call[r].phase = "running" -> 0

\* pk_client_signal_finished.
FinishedFailed(r) ==
  /\ call[r].phase \in {"hints", "method", "running"}
  /\ End(r, call[r].op, "error", LateReplies(r))
  /\ UNCHANGED <<restVars, cancelled>>

\* DownloadPackages to a directory copies what it got.  An early Finished finds
\* no files, ends nothing, and the call goes on to wait for its reply.
Copies(r) == kind[r] = "download" /\ call[r].op = "action"

\* pk_client_signal_finished with no results, or before the role has begun.  The
\* daemon replies to a role before it runs it; all it says before that is that the
\* transaction was cancelled, because the daemon is asked to quit or, once it has
\* the role, by its client.
FinishedEarly(r) ==
  /\ call[r].phase \in {"hints", "method"}
  /\ ~Copies(r)
  /\ End(r, call[r].op, IF call[r].phase = "hints" THEN "nothing" ELSE "other",
         LateReplies(r))
  /\ UNCHANGED <<restVars, cancelled>>

Finished(r, exit) ==
  /\ call[r].phase = "running"
  /\ exit \in ExitsOf(call[r].op)
  /\ carriedOut' = IF exit = "success" /\ call[r].op = "action"
                   THEN carriedOut \cup {r} ELSE carriedOut
  /\ IF Copies(r)
     THEN /\ \E n \in 0..MaxFiles : Goes(r, call[r].op, "copying", n, exit)
          /\ UNCHANGED <<calls, idle>>
     ELSE End(r, call[r].op, exit, 0)
  /\ UNCHANGED <<alive, kind, cancelled, adopting>>

-----------------------------------------------------------------------------
(* Copies of what was downloaded, after Finished.                          *)

\* pk_client_copy_downloaded_finished_cb.
CopiedDownload(r) ==
  /\ call[r].phase = "copying" /\ call[r].copies > 0
  /\ IF call[r].copies = 1
     THEN End(r, call[r].op, call[r].outcome, 0)
     ELSE /\ Goes(r, call[r].op, "copying", call[r].copies - 1, call[r].outcome)
          /\ UNCHANGED <<calls, idle>>
  /\ UNCHANGED <<restVars, cancelled>>

CopyDownloadFails(r) ==
  /\ call[r].phase = "copying" /\ call[r].copies > 0
  /\ End(r, call[r].op, "error", call[r].copies - 1)
  /\ UNCHANGED <<restVars, cancelled>>

\* Any callback for a state that is freed: of a copy, after an earlier failure,
\* pk_client_cancel_cb, pk_client_set_hints_cb or pk_client_method_cb.
Stray ==
  /\ strays > 0
  /\ \/ Dies
     \/ /\ strays' = strays - 1
        /\ UNCHANGED <<alive, cancelOut, calls, adopting, idle>>
  /\ UNCHANGED <<call, kind, cancelled, carriedOut>>

-----------------------------------------------------------------------------
(* Cancel, and the adopted transaction.                                    *)

\* pk_client_cancellable_cancel_cb: without a proxy there is no one to tell.
Cancel(r) ==
  /\ kind[r] # "none" /\ r \notin cancelled
  /\ cancelled' = cancelled \cup {r}
  /\ cancelOut' = IF call[r].phase \in Late THEN cancelOut \cup {r} ELSE cancelOut
  /\ UNCHANGED <<call, strays, calls, idle, alive, kind, adopting, carriedOut>>

\* pk_client_cancel_cb, which names the tid of the state.
CancelReply(r) ==
  /\ r \in cancelOut
  /\ cancelOut' = cancelOut \ {r}
  /\ UNCHANGED <<call, strays, calls, idle, restVars, cancelled>>

\* pk_client_adopt_async and pk_client_get_progress_async.
Adopt ==
  /\ ~adopting
  /\ adopting' = TRUE
  /\ idle' = FALSE
  /\ UNCHANGED <<call, strays, cancelOut, calls, alive, kind, cancelled,
                 carriedOut>>

\* Their end: with a proxy, or without one, or at once because it was cancelled.
AdoptEnds ==
  /\ adopting' = FALSE
  /\ idle' = (calls = {})
  /\ UNCHANGED <<call, strays, cancelOut, calls, alive, kind, cancelled, carriedOut>>

-----------------------------------------------------------------------------

ClientInit ==
  /\ alive = TRUE
  /\ kind = [r \in Requests |-> "none"]
  /\ cancelled = {}
  /\ call = [r \in Requests |-> NoCall]
  /\ cancelOut = {}
  /\ strays = 0
  /\ calls = {}
  /\ adopting = FALSE
  /\ idle = TRUE
  /\ carriedOut = {}

\* What answers a call and takes it on.
Answered(r) ==
  \/ CopiedNative(r) \/ CopyNativeFails(r)
  \/ GetTid(r) \/ GetTidFails(r)
  \/ GetProxy(r) \/ GetProxyFails(r)
  \/ SetHints(r) \/ SetHintsFails(r)
  \/ MethodReturns(r) \/ MethodFails(r)
  \/ FinishedFailed(r) \/ FinishedEarly(r)
  \/ \E exit \in Exits : Finished(r, exit)
  \/ CopiedDownload(r) \/ CopyDownloadFails(r)

ClientNext ==
  \/ Adopt \/ AdoptEnds \/ Stray
  \/ \E r \in Requests : Answered(r) \/ DaemonLost(r) \/ CancelReply(r)

-----------------------------------------------------------------------------

ClientTypeOK ==
  /\ alive \in BOOLEAN
  /\ kind \in [Requests -> Kinds \cup {"none"}]
  /\ cancelled \subseteq Requests
  /\ call \in [Requests -> Call]
  /\ cancelOut \subseteq Requests
  /\ strays \in Nat
  /\ calls \subseteq Requests
  /\ adopting \in BOOLEAN
  /\ idle \in BOOLEAN
  /\ carriedOut \subseteq Requests

\* The array of calls in flight holds no freed state (it is walked when the
\* client is finalised), and a client without calls is idle, as the self test
\* asks for in its callback.
IdleAtTheEnd ==
  /\ \A r \in calls : Live(r)
  /\ (\A r \in Requests : ~Live(r)) /\ ~adopting => idle

=============================================================================
