------------------------------ MODULE PkRequests ------------------------------
(***************************************************************************)
(* What PkTask promises an application of its requests.  A request makes   *)
(* one transaction after the other, with questions to the user in between, *)
(* and never two of these at a time.  It is carried out at most once, and  *)
(* then it makes no other transaction and asks nothing; nor does it make   *)
(* one when the user has refused or the application has stopped it.  It is *)
(* told once what became of it, and success means that the daemon has      *)
(* carried it out.  It may be told "nothing", neither success nor what     *)
(* went wrong, of a request that was not carried out.                      *)
(***************************************************************************)

CONSTANT Requests

Kinds == {"change", "download"}

VARIABLES
  kind,      \* what was asked for, or "none"
  course,    \* how far the request has got
  stopped,   \* requests that the application has cancelled, while they last
  told       \* what the application was told, or "none"
vars == <<kind, course, stopped, told>>

Init ==
  /\ kind = [r \in Requests |-> "none"]
  /\ course = [r \in Requests |-> "none"]
  /\ stopped = {}
  /\ told = [r \in Requests |-> "none"]

Becomes(r, to) ==
  /\ course' = [course EXCEPT ![r] = to]
  /\ UNCHANGED <<kind, stopped, told>>

Begin(r, k) ==
  /\ course[r] = "none"
  /\ kind' = [kind EXCEPT ![r] = k]
  /\ \E c \in {"working", "calling"} : course' = [course EXCEPT ![r] = c]
  /\ UNCHANGED <<stopped, told>>

\* A transaction is asked for; it does not carry the request out, or it does.
Call(r) == course[r] = "working" /\ r \notin stopped /\ Becomes(r, "calling")
Miss(r) == course[r] = "calling" /\ Becomes(r, "working")
CarryOut(r) == course[r] = "calling" /\ Becomes(r, "done")

AskUser(r) == course[r] = "working" /\ Becomes(r, "asking")
Agree(r) == course[r] = "asking" /\ Becomes(r, "working")
Refuse(r) == course[r] = "asking" /\ Becomes(r, "refused")

Stop(r) ==
  /\ course[r] \notin {"none", "over"}
  /\ stopped' = stopped \cup {r}
  /\ UNCHANGED <<kind, course, told>>

\* What was downloaded may fail to be copied to its place.
Tell(r, outcome) ==
  /\ \/ course[r] = "working" /\ outcome # "success"
     \/ course[r] = "refused" /\ outcome = "error"
     \/ course[r] = "done" /\ outcome = "success"
     \/ course[r] = "done" /\ kind[r] = "download" /\ outcome = "error"
  /\ course' = [course EXCEPT ![r] = "over"]
  /\ told' = [told EXCEPT ![r] = outcome]
  /\ stopped' = stopped \ {r}
  /\ UNCHANGED kind

Next ==
  \E r \in Requests :
    \/ \E k \in Kinds : Begin(r, k)
    \/ Call(r) \/ Miss(r) \/ CarryOut(r)
    \/ AskUser(r) \/ Agree(r) \/ Refuse(r)
    \/ Stop(r)
    \/ \E outcome \in {"success", "other", "error", "nothing"} : Tell(r, outcome)

Spec == Init /\ [][Next]_vars
=============================================================================
